----------------------- MODULE MessageValidatorProofs -----------------------
(***************************************************************************)
(* What the message validator promises for every role, every traffic and   *)
(* every arrival order: the duty limit and "heard once" hold although the  *)
(* ring of signer states forgets, and the cleaner changes no verdict.      *)
(*                                                                         *)
(* The argument is about time: an entry of the ring is overwritten only by *)
(* a slot at least stored_slot_count above it, and when the window of that *)
(* slot opens, the window of every slot of the old entry's epoch is over.  *)
(*                                                                         *)
(* And what it owes the operators that follow the protocol: the first copy *)
(* of an honest message is never rejected, and is accepted in its window   *)
(* unless the signer has moved on.  The argument is about origin: whatever *)
(* the ring holds of an operator comes from messages it has signed, so     *)
(* nobody else can fill its counters, spend its budgets or advance it.     *)
(***************************************************************************)
EXTENDS MessageValidator, FiniteSetTheorems, TLAPS

\* The number of slots the ring remembers.
Size == stored_slot_count(role)

\* The window of a slot is over, or has been open.
Late(slot) == now > slot_start_time(slot + ttl) + LATE_MESSAGE_MARGIN
Begun(slot) == now >= earliest(slot) - EARLY_MESSAGE_MARGIN

SignerFields == {"slot", "round", "message_counts", "proposal_hash", "seen_signers", "roots"}

IsSignerState(s) ==
    /\ DOMAIN s = SignerFields
    /\ s.slot \in Nat /\ s.round \in Nat
    /\ s.message_counts \in [Counters -> 0..MAX_MESSAGES_PER_ROUND]

\* An entry lies at the index of its slot, and was made in the slot's window.
IsEntry(op, i) ==
    LET s == op.state[i]
    IN  \/ s = NoSignerState
        \/ /\ IsSignerState(s)
           /\ s.slot % Size = i
           /\ s.slot <= op.max_slot
           /\ Begun(s.slot)

IsOperatorState(op) ==
    /\ DOMAIN op.state = 0..(Size - 1)
    /\ op.max_slot \in Nat
    /\ \A i \in 0..(Size - 1) : IsEntry(op, i)

\* The state of a signer tells that a counted message was accepted.
Remembered(s, m) ==
    \/ m.kind = "Consensus" /\ s.round > m.round
    \/ /\ m.kind = "Consensus" => s.round = m.round
       /\ \A c \in CountersOf(m) : s.message_counts[c] >= MAX_MESSAGES_PER_ROUND

Kept(op, m) ==
    \/ Late(m.slot)
    \/ /\ has_signer_state(op, m.slot)
       /\ Remembered(get_signer_state(op, m.slot), m)

RingSlots(op, e) == {s \in slots_of(e) : has_signer_state(op, s)}
AcceptedSlots(o, e) == {s \in slots_of(e) : \E m \in AcceptedFrom(o) : m.slot = s}

\* The roles whose duties are counted over an epoch.
Counted == current_limit(0) # NoLimit /\ role # "VoluntaryExit"

\* Until an epoch is over its slots A that were accepted are all in the ring;
\* from then on no more of them are accepted.
Bounded(op, e, A, limit) ==
    \/ /\ A \subseteq RingSlots(op, e)
       /\ Cardinality(RingSlots(op, e)) <= limit
    \/ /\ \A s \in slots_of(e) : Late(s)
       /\ Cardinality(A) <= limit

Types ==
    /\ role \in Scenarios
    /\ now \in 0..MaxTime[role]
    /\ view \in [registered : BOOLEAN, indices : SUBSET Validators[role],
                 fetched : SUBSET Nat, local : SUBSET Nat]
    /\ next_clean \in Nat
    /\ accepted \in [DOMAIN Traffic[role] -> 0..MaxAccepted]

RingInv ==
    /\ DOMAIN operators = Committee
    /\ \A o \in Committee : IsOperatorState(operators[o])

HeardInv ==
    /\ \A i \in DOMAIN accepted : accepted[i] > 0 =>
          /\ message(i).signers \subseteq Committee
          /\ message(i).kind = "Consensus" => is_qbft_role(role)
          /\ Limited(message(i)) => \A o \in message(i).signers :
                Kept(operators[o], message(i))
    /\ HeardOnce

DutyInv ==
    Counted => \A o \in Committee : \A e \in Nat :
        Bounded(operators[o], e, AcceptedSlots(o, e), current_limit(0))

ValidatorInv == Types /\ RingInv /\ HeardInv /\ DutyInv

---------------------------------------------------------------------------
(* Arithmetic of slots and of the clock.                                   *)

\* Multiplying by a natural number keeps the order.
LEMMA TimesKeepsOrder ==
    ASSUME NEW a \in Int, NEW b \in Int, NEW c \in Nat, a <= b
    PROVE  a * c <= b * c
  OBVIOUS

\* Two slots at one index of the ring are at least the ring apart.
LEMMA FarApart ==
    ASSUME NEW p \in Nat, NEW q \in Nat, NEW c \in Nat \ {0},
           p < q, p % c = q % c
    PROVE  q >= p + c
  <1>1. PICK x \in Int : x = p \div c
    OBVIOUS
  <1>2. PICK y \in Int : y = q \div c
    OBVIOUS
  <1>3. p = x * c + (p % c) /\ q = y * c + (q % c)
    BY <1>1, <1>2, SMT
  <1>4. y > x
    <2>1. SUFFICES ASSUME y <= x PROVE FALSE
      OBVIOUS
    <2>2. y * c <= x * c
      BY <2>1, TimesKeepsOrder
    <2>. QED
      BY <2>2, <1>3, SMT
  <1>5. (x + 1) * c <= y * c
    BY <1>4, TimesKeepsOrder
  <1>6. (x + 1) * c = x * c + c
    OBVIOUS
  <1>. QED
    BY <1>3, <1>5, <1>6, SMT

\* An epoch has its slots, and a slot lies in its epoch.
LEMMA SlotsOfEpoch ==
    ASSUME NEW s \in Nat
    PROVE  /\ epoch_of(s) \in Nat
           /\ start_slot(epoch_of(s)) \in Nat
           /\ start_slot(epoch_of(s)) <= s
           /\ s < start_slot(epoch_of(s)) + SLOTS_PER_EPOCH
           /\ s \in slots_of(epoch_of(s))
  <1>0. SLOTS_PER_EPOCH \in Nat \ {0}
    BY DutyStateAssumption
  <1>1. epoch_of(s) \in Nat
    BY <1>0, SMT DEF epoch_of
  <1>2. s = start_slot(epoch_of(s)) + (s % SLOTS_PER_EPOCH)
    BY <1>0, SMT DEF epoch_of, start_slot
  <1>3. s % SLOTS_PER_EPOCH \in 0..(SLOTS_PER_EPOCH - 1)
    BY <1>0, SMT
  <1>4. start_slot(epoch_of(s)) \in Nat
    BY <1>0, <1>1, SMT DEF start_slot
  <1>. QED
    BY <1>0, <1>1, <1>2, <1>3, <1>4, SMT DEF slots_of

\* A slot of an epoch has this epoch.
LEMMA EpochOfSlot ==
    ASSUME NEW e \in Nat, NEW s \in slots_of(e)
    PROVE  s \in Nat /\ epoch_of(s) = e
  <1>0. SLOTS_PER_EPOCH \in Nat \ {0}
    BY DutyStateAssumption
  <1>1. start_slot(e) \in Nat
    BY <1>0, SMT DEF start_slot
  <1>2. s \in Nat /\ start_slot(e) <= s /\ s < start_slot(e) + SLOTS_PER_EPOCH
    BY <1>0, <1>1, SMT DEF slots_of
  <1>3. PICK f \in Nat : f = epoch_of(s)
    BY <1>2, SlotsOfEpoch
  <1>4. start_slot(f) \in Nat /\ start_slot(f) <= s /\ s < start_slot(f) + SLOTS_PER_EPOCH
    BY <1>2, <1>3, SlotsOfEpoch
  <1>5. ~(f < e)
    <2>1. SUFFICES ASSUME f + 1 <= e PROVE FALSE
      BY <1>3
    <2>2. (f + 1) * SLOTS_PER_EPOCH <= e * SLOTS_PER_EPOCH
      BY <2>1, <1>0, TimesKeepsOrder
    <2>3. (f + 1) * SLOTS_PER_EPOCH = f * SLOTS_PER_EPOCH + SLOTS_PER_EPOCH
      BY <1>0, SMT
    <2>. QED
      BY <1>0, <1>1, <1>2, <1>4, <2>2, <2>3, SMT DEF start_slot
  <1>6. ~(e < f)
    <2>1. SUFFICES ASSUME e + 1 <= f PROVE FALSE
      BY <1>3
    <2>2. (e + 1) * SLOTS_PER_EPOCH <= f * SLOTS_PER_EPOCH
      BY <2>1, <1>0, TimesKeepsOrder
    <2>3. (e + 1) * SLOTS_PER_EPOCH = e * SLOTS_PER_EPOCH + SLOTS_PER_EPOCH
      BY <1>0, SMT
    <2>. QED
      BY <1>0, <1>1, <1>2, <1>4, <2>2, <2>3, SMT DEF start_slot
  <1>. QED
    BY <1>2, <1>3, <1>5, <1>6, SMT

\* Slots of one epoch are less than the epoch apart.
LEMMA OneEpoch ==
    ASSUME NEW e \in Nat, NEW s \in slots_of(e), NEW x \in slots_of(e)
    PROVE  s \in Nat /\ x \in Nat /\ x < s + SLOTS_PER_EPOCH /\ s < x + SLOTS_PER_EPOCH
  <1>0. SLOTS_PER_EPOCH \in Nat \ {0}
    BY DutyStateAssumption
  <1>1. start_slot(e) \in Nat
    BY <1>0, SMT DEF start_slot
  <1>. QED
    BY <1>0, <1>1, SMT DEF slots_of

\* The ring remembers the window of a slot and an epoch beyond it.
LEMMA SizeOfRing ==
    ASSUME role \in Roles
    PROVE  /\ Size \in Nat \ {0}
           /\ ttl \in Nat
           /\ Size >= ttl + SLOTS_PER_EPOCH + 1
           /\ Size > SLOTS_PER_EPOCH
  <1>0. SLOTS_PER_EPOCH \in Nat \ {0} /\ LATE_SLOT_ALLOWANCE \in Nat
        /\ MIN_SEED_LOOKAHEAD \in Nat /\ LATE_SLOT_ALLOWANCE <= SLOTS_PER_EPOCH
    BY DutyStateAssumption
  <1>1. CASE role = "ProposerPreferences"
    <2>1. ttl = LATE_SLOT_ALLOWANCE
      BY <1>1 DEF ttl
    <2>2. Size = (1 + MIN_SEED_LOOKAHEAD) * SLOTS_PER_EPOCH + 2 * SLOTS_PER_EPOCH
      BY <1>1 DEF Size, stored_slot_count
    <2>3. 1 * SLOTS_PER_EPOCH <= (1 + MIN_SEED_LOOKAHEAD) * SLOTS_PER_EPOCH
      BY <1>0, TimesKeepsOrder
    <2>4. (1 + MIN_SEED_LOOKAHEAD) * SLOTS_PER_EPOCH \in Nat
      BY <1>0, SMT
    <2>. QED
      BY <1>0, <2>1, <2>2, <2>3, <2>4, SMT
  <1>2. CASE role # "ProposerPreferences"
    <2>1. ttl \in {1 + LATE_SLOT_ALLOWANCE, SLOTS_PER_EPOCH + LATE_SLOT_ALLOWANCE}
      BY <1>2 DEF ttl, Roles
    <2>2. Size = 2 * SLOTS_PER_EPOCH + LATE_SLOT_ALLOWANCE + 1
      BY <1>2 DEF Size, stored_slot_count
    <2>. QED
      BY <1>0, <2>1, <2>2, SMT
  <1>. QED
    BY <1>1, <1>2

\* The state of the clock that the lemmas below are about.
Clock == role \in Roles /\ now \in Nat

LEMMA ClockFacts ==
    /\ SLOTS_PER_EPOCH \in Nat \ {0} /\ TicksPerSlot \in Nat \ {0}
    /\ EARLY_MESSAGE_MARGIN \in Nat /\ LATE_MESSAGE_MARGIN \in Nat
    /\ EARLY_MESSAGE_MARGIN + LATE_MESSAGE_MARGIN <= TicksPerSlot
    /\ MIN_SEED_LOOKAHEAD \in Nat
  BY DutyStateAssumption, ValidatorAssumption

\* A time that is two slots above the end of a slot's window, but for the
\* early margin, is late.
LEMMA LateFrom ==
    ASSUME Clock, NEW s \in Nat, NEW b \in Nat, b >= s + ttl + 2,
           now >= b * TicksPerSlot - EARLY_MESSAGE_MARGIN
    PROVE  Late(s)
  <1>1. ttl \in Nat
    BY SizeOfRing DEF Clock
  <1>2. ((s + ttl) + 2) * TicksPerSlot <= b * TicksPerSlot
    BY <1>1, ClockFacts, TimesKeepsOrder
  <1>3. ((s + ttl) + 2) * TicksPerSlot = (s + ttl) * TicksPerSlot + 2 * TicksPerSlot
    BY <1>1, ClockFacts, SMT
  <1>4. (s + ttl) * TicksPerSlot \in Nat /\ b * TicksPerSlot \in Nat
    BY <1>1, ClockFacts, SMT
  <1>. QED
    BY <1>2, <1>3, <1>4, ClockFacts, SMT DEF Late, slot_start_time, Clock

\* When the window of a slot opens, the slots at the same index of the ring
\* that lie below it are over, and so is the whole epoch of each of them.
LEMMA OverwrittenIsLate ==
    ASSUME Clock, NEW s \in Nat, NEW q \in Nat,
           s < q, s % Size = q % Size, Begun(q)
    PROVE  \A x \in slots_of(epoch_of(s)) : Late(x)
  <1>. TAKE x \in slots_of(epoch_of(s))
  <1>0. Size \in Nat \ {0} /\ ttl \in Nat /\ Size >= ttl + SLOTS_PER_EPOCH + 1
    BY SizeOfRing DEF Clock
  <1>1. q >= s + Size
    BY <1>0, FarApart
  <1>2. x \in Nat /\ x < s + SLOTS_PER_EPOCH
    BY SlotsOfEpoch, OneEpoch
  <1>3. CASE role # "ProposerPreferences"
    <2>1. now >= q * TicksPerSlot - EARLY_MESSAGE_MARGIN
      BY <1>3 DEF Begun, earliest, slot_start_time
    <2>2. q >= x + ttl + 2
      BY <1>0, <1>1, <1>2, ClockFacts, SMT
    <2>. QED
      BY <1>2, <2>1, <2>2, LateFrom
  <1>4. CASE role = "ProposerPreferences"
    <2>1. ttl <= SLOTS_PER_EPOCH
      BY <1>4, DutyStateAssumption DEF ttl
    <2>2. Size = MIN_SEED_LOOKAHEAD * SLOTS_PER_EPOCH + 3 * SLOTS_PER_EPOCH
      BY <1>4, ClockFacts, SMT DEF Size, stored_slot_count
    <2>3. MIN_SEED_LOOKAHEAD * SLOTS_PER_EPOCH \in Nat
      BY ClockFacts, SMT
    <2>4. PICK e \in Nat : e = epoch_of(q)
      BY SlotsOfEpoch
    <2>5. e * SLOTS_PER_EPOCH \in Nat /\ q < e * SLOTS_PER_EPOCH + SLOTS_PER_EPOCH
      BY <2>4, SlotsOfEpoch DEF start_slot
    <2>6. e > MIN_SEED_LOOKAHEAD
      <3>1. SUFFICES ASSUME e <= MIN_SEED_LOOKAHEAD PROVE FALSE
        BY ClockFacts
      <3>2. e * SLOTS_PER_EPOCH <= MIN_SEED_LOOKAHEAD * SLOTS_PER_EPOCH
        BY <3>1, ClockFacts, TimesKeepsOrder
      <3>. QED
        BY <3>2, <1>1, <2>2, <2>3, <2>5, ClockFacts, SMT
    <2>7. PICK b \in Nat : b = (e - MIN_SEED_LOOKAHEAD) * SLOTS_PER_EPOCH
      BY <2>6, ClockFacts, SMT
    <2>8. now >= b * TicksPerSlot - EARLY_MESSAGE_MARGIN
      BY <1>4, <2>4, <2>6, <2>7 DEF Begun, earliest, slot_start_time, start_slot
    <2>9. b = e * SLOTS_PER_EPOCH - MIN_SEED_LOOKAHEAD * SLOTS_PER_EPOCH
      BY <2>7, ClockFacts, SMT
    <2>10. b >= x + ttl + 2
      BY <1>0, <1>1, <1>2, <2>1, <2>2, <2>3, <2>5, <2>9, ClockFacts, SMT
    <2>. QED
      BY <1>2, <2>8, <2>10, LateFrom
  <1>. QED
    BY <1>3, <1>4

\* A slot that the ring left behind is over, with its whole epoch.
LEMMA LeftBehindIsLate ==
    ASSUME Clock, NEW s \in Nat, s + Size < current_slot
    PROVE  \A x \in slots_of(epoch_of(s)) : Late(x)
  <1>. TAKE x \in slots_of(epoch_of(s))
  <1>0. Size \in Nat \ {0} /\ ttl \in Nat /\ Size >= ttl + SLOTS_PER_EPOCH + 1
    BY SizeOfRing DEF Clock
  <1>1. x \in Nat /\ x < s + SLOTS_PER_EPOCH
    BY SlotsOfEpoch, OneEpoch
  <1>2. PICK b \in Nat : b = current_slot
    BY ClockFacts, SMT DEF current_slot, Clock
  <1>3. b * TicksPerSlot <= now /\ b * TicksPerSlot \in Nat
    BY <1>2, ClockFacts, SMT DEF current_slot, Clock
  <1>4. b >= x + ttl + 2
    BY <1>0, <1>1, <1>2, ClockFacts, SMT
  <1>5. now >= b * TicksPerSlot - EARLY_MESSAGE_MARGIN
    BY <1>3, ClockFacts, SMT DEF Clock
  <1>. QED
    BY <1>1, <1>2, <1>4, <1>5, LateFrom

\* A message in time is not late, and its window has begun.
LEMMA InTimeFacts ==
    ASSUME Clock, NEW s \in Nat, InTime(s)
    PROVE  ~Late(s) /\ Begun(s)
  <1>1. ttl \in Nat
    BY SizeOfRing DEF Clock
  <1>2. (s + ttl) * TicksPerSlot \in Nat
    BY <1>1, ClockFacts, SMT
  <1>. QED
    BY <1>2, ClockFacts, SMT DEF InTime, Late, Begun, slot_start_time, Clock

---------------------------------------------------------------------------
(* The ring of an operator.                                                *)

\* The index of a slot, and what lies there.
LEMMA RingFacts ==
    ASSUME Clock, NEW op, IsOperatorState(op), NEW s \in Nat
    PROVE  /\ ring_index(op, s) = s % Size
           /\ s % Size \in 0..(Size - 1)
           /\ get_signer_state(op, s) = op.state[s % Size]
           /\ IsEntry(op, s % Size)
  <1>0. Size \in Nat \ {0}
    BY SizeOfRing DEF Clock
  <1>1. Cardinality(0..(Size - 1)) = Size
    BY <1>0, FS_Interval
  <1>2. s % Size \in 0..(Size - 1)
    BY <1>0, SMT
  <1>. QED
    BY <1>1, <1>2 DEF IsOperatorState, ring_index, get_signer_state

\* The entry of a slot that has one.
LEMMA HasFacts ==
    ASSUME Clock, NEW op, IsOperatorState(op), NEW s \in Nat, has_signer_state(op, s)
    PROVE  /\ IsSignerState(get_signer_state(op, s))
           /\ get_signer_state(op, s).slot = s
           /\ s <= op.max_slot
           /\ Begun(s)
  <1>1. get_signer_state(op, s) = op.state[s % Size] /\ IsEntry(op, s % Size)
    BY RingFacts
  <1>2. op.state[s % Size].slot = s
    BY <1>1 DEF has_signer_state
  <1>3. op.state[s % Size] # NoSignerState
    <2>1. NoSignerState.slot = -1
      BY DEF NoSignerState
    <2>. QED
      BY <1>2, <2>1, SMT
  <1>. QED
    BY <1>1, <1>2, <1>3 DEF IsEntry

\* An entry that a message in time would overwrite is of an epoch that is over.
LEMMA OverwrittenEntry ==
    ASSUME Clock, NEW op, IsOperatorState(op), NEW s \in Nat, InTime(s),
           NEW x \in Nat, x # s, x % Size = s % Size, has_signer_state(op, x)
    PROVE  \A y \in slots_of(epoch_of(x)) : Late(y)
  <1>1. Begun(x) /\ Begun(s) /\ ~Late(s)
    BY HasFacts, InTimeFacts
  <1>2. ~(s < x)
    BY <1>1, OverwrittenIsLate, SlotsOfEpoch
  <1>3. x < s
    BY <1>2, SMT
  <1>. QED
    BY <1>1, <1>3, OverwrittenIsLate

\* What recording a signer state does to the ring.
LEMMA SetFacts ==
    ASSUME Clock, NEW op, IsOperatorState(op), NEW slot \in Nat, NEW s,
           IsSignerState(s), s.slot = slot, Begun(slot),
           NEW new, new = set_signer_state(op, slot, s)
    PROVE  /\ IsOperatorState(new)
           /\ has_signer_state(new, slot) /\ get_signer_state(new, slot) = s
           /\ \A x \in Nat : x % Size # slot % Size =>
                 /\ get_signer_state(new, x) = get_signer_state(op, x)
                 /\ has_signer_state(new, x) <=> has_signer_state(op, x)
           /\ \A x \in Nat : x % Size = slot % Size /\ x # slot => ~has_signer_state(new, x)
  <1>0. Size \in Nat \ {0}
    BY SizeOfRing DEF Clock
  <1>1. ring_index(op, slot) = slot % Size /\ slot % Size \in 0..(Size - 1)
    BY RingFacts
  <1>2. DOMAIN op.state = 0..(Size - 1) /\ op.max_slot \in Nat
        /\ \A i \in 0..(Size - 1) : IsEntry(op, i)
    BY DEF IsOperatorState
  <1>3. /\ new.state = [op.state EXCEPT ![slot % Size] = s]
        /\ new.max_slot = IF slot > op.max_slot THEN slot ELSE op.max_slot
    BY <1>1 DEF set_signer_state
  <1>4. /\ DOMAIN new.state = 0..(Size - 1)
        /\ new.max_slot \in Nat /\ new.max_slot >= op.max_slot /\ new.max_slot >= slot
    BY <1>2, <1>3, SMT
  <1>5. new.state[slot % Size] = s
        /\ \A i \in 0..(Size - 1) : i # slot % Size => new.state[i] = op.state[i]
    BY <1>1, <1>2, <1>3
  <1>6. ASSUME NEW i \in 0..(Size - 1) PROVE IsEntry(new, i)
    <2>1. CASE i = slot % Size
      BY <2>1, <1>4, <1>5 DEF IsEntry
    <2>2. CASE i # slot % Size
      <3>1. IsEntry(op, i) /\ new.state[i] = op.state[i]
        BY <2>2, <1>2, <1>5
      <3>2. CASE op.state[i] = NoSignerState
        BY <3>1, <3>2 DEF IsEntry
      <3>3. CASE op.state[i] # NoSignerState
        <4>1. op.state[i].slot \in Nat /\ op.state[i].slot <= op.max_slot
          BY <3>1, <3>3 DEF IsEntry, IsSignerState
        <4>2. op.state[i].slot <= new.max_slot
          BY <4>1, <1>2, <1>4, SMT
        <4>. QED
          BY <3>1, <3>3, <4>2 DEF IsEntry
      <3>. QED
        BY <3>2, <3>3
    <2>. QED
      BY <2>1, <2>2
  <1>7. IsOperatorState(new)
    BY <1>4, <1>6 DEF IsOperatorState
  <1>8. \A x \in Nat : /\ get_signer_state(new, x) = new.state[x % Size]
                       /\ get_signer_state(op, x) = op.state[x % Size]
                       /\ x % Size \in 0..(Size - 1)
    BY <1>7, RingFacts
  <1>. QED
    BY <1>5, <1>7, <1>8 DEF has_signer_state

\* A fresh operator has no entries.
LEMMA FreshFacts ==
    ASSUME Clock
    PROVE  /\ IsOperatorState(new_operator_state(role))
           /\ \A x \in Nat : ~has_signer_state(new_operator_state(role), x)
  <1>. DEFINE op == new_operator_state(role)
  <1>0. Size \in Nat \ {0}
    BY SizeOfRing DEF Clock
  <1>1. op.state = [i \in 0..(Size - 1) |-> NoSignerState] /\ op.max_slot = 0
    BY DEF new_operator_state, Size
  <1>2. IsOperatorState(op)
    BY <1>0, <1>1 DEF IsOperatorState, IsEntry
  <1>3. ASSUME NEW x \in Nat PROVE ~has_signer_state(op, x)
    <2>1. get_signer_state(op, x) = op.state[x % Size] /\ x % Size \in 0..(Size - 1)
      BY <1>2, RingFacts
    <2>2. get_signer_state(op, x).slot = -1
      BY <1>1, <2>1 DEF NoSignerState
    <2>. QED
      BY <2>2, SMT DEF has_signer_state
  <1>. QED
    BY <1>2, <1>3

---------------------------------------------------------------------------
(* Recording a message.                                                    *)

\* A signer state that was only added to.
Grown(old, new) ==
    /\ new.round = old.round
    /\ \A c \in Counters : new.message_counts[c] >= old.message_counts[c]

\* The ring differs at the index of a slot at most, and has the slot there.
DiffersAt(op, new, slot) ==
    /\ has_signer_state(new, slot)
    /\ \A x \in Nat : x % Size # slot % Size =>
          /\ get_signer_state(new, x) = get_signer_state(op, x)
          /\ has_signer_state(new, x) <=> has_signer_state(op, x)
    /\ \A x \in Nat : x % Size = slot % Size /\ x # slot => ~has_signer_state(new, x)

LEMMA CountersFacts ==
    ASSUME NEW m
    PROVE  CountersOf(m) \subseteq Counters
  BY DEF CountersOf, Counters

LEMMA RecordFacts ==
    ASSUME NEW m, NEW counts \in [Counters -> 0..MAX_MESSAGES_PER_ROUND],
           \A c \in CountersOf(m) : counts[c] < MAX_MESSAGES_PER_ROUND
    PROVE  /\ record(counts, m) \in [Counters -> 0..MAX_MESSAGES_PER_ROUND]
           /\ \A c \in Counters : record(counts, m)[c] >= counts[c]
           /\ \A c \in CountersOf(m) : record(counts, m)[c] >= MAX_MESSAGES_PER_ROUND
  BY CountersFacts DEF record, MAX_MESSAGES_PER_ROUND

LEMMA NewSignerFacts ==
    ASSUME NEW slot \in Nat, NEW round \in Nat
    PROVE  /\ IsSignerState(new_signer_state(slot, round))
           /\ new_signer_state(slot, round).slot = slot
           /\ new_signer_state(slot, round).round = round
           /\ \A c \in Counters : new_signer_state(slot, round).message_counts[c] = 0
  BY DEF IsSignerState, new_signer_state, SignerFields, MAX_MESSAGES_PER_ROUND

\* OperatorState::update for a consensus message within the limits.
LEMMA UpdateFacts ==
    ASSUME Clock, NEW op, IsOperatorState(op), NEW m, m.slot \in Nat, m.round \in Nat,
           Begun(m.slot),
           has_signer_state(op, m.slot) /\ m.round <= get_signer_state(op, m.slot).round
              => ~OverLimits(get_signer_state(op, m.slot).message_counts, m)
    PROVE  LET new == update(op, m)
               old == get_signer_state(op, m.slot)
               s == get_signer_state(new, m.slot)
           IN  /\ IsOperatorState(new)
               /\ DiffersAt(op, new, m.slot)
               /\ \A c \in CountersOf(m) : s.message_counts[c] >= MAX_MESSAGES_PER_ROUND
               /\ IF has_signer_state(op, m.slot) /\ m.round <= old.round
                  THEN Grown(old, s) ELSE s.round = m.round
  <1>. DEFINE old == get_signer_state(op, m.slot)
              stays == has_signer_state(op, m.slot) /\ m.round <= old.round
  <1>1. PICK s : s = IF stays THEN old ELSE new_signer_state(m.slot, m.round)
    OBVIOUS
  <1>2. IsSignerState(s) /\ s.slot = m.slot
    BY <1>1, HasFacts, NewSignerFacts
  <1>3. \A c \in CountersOf(m) : s.message_counts[c] < MAX_MESSAGES_PER_ROUND
    <2>1. CASE stays
      <3>1. \A c \in Counters : s.message_counts[c] \in 0..MAX_MESSAGES_PER_ROUND
        BY <1>2 DEF IsSignerState
      <3>. QED
        BY <2>1, <1>1, <3>1, CountersFacts DEF OverLimits, MAX_MESSAGES_PER_ROUND
    <2>2. CASE ~stays
      BY <2>2, <1>1, NewSignerFacts, CountersFacts DEF MAX_MESSAGES_PER_ROUND
    <2>. QED
      BY <2>1, <2>2
  <1>4. PICK t : t = [s EXCEPT
                !.proposal_hash = IF m.data # NoRoot /\ m.type = "Proposal"
                                  THEN m.root ELSE @,
                !.seen_signers = IF Cardinality(m.signers) > 1
                                 THEN @ \cup {m.signers} ELSE @,
                !.message_counts = record(@, m)]
    OBVIOUS
  <1>5. update(op, m) = set_signer_state(op, m.slot, t)
    BY <1>1, <1>4 DEF update
  <1>6. /\ DOMAIN t = SignerFields /\ t.slot = s.slot /\ t.round = s.round
        /\ t.message_counts = record(s.message_counts, m)
    BY <1>2, <1>4 DEF IsSignerState, SignerFields
  <1>7. IsSignerState(t) /\ t.slot = m.slot
    BY <1>2, <1>3, <1>6, RecordFacts DEF IsSignerState
  <1>8. /\ IsOperatorState(update(op, m)) /\ DiffersAt(op, update(op, m), m.slot)
        /\ get_signer_state(update(op, m), m.slot) = t
    BY <1>5, <1>7, SetFacts DEF DiffersAt
  <1>9. \A c \in CountersOf(m) : t.message_counts[c] >= MAX_MESSAGES_PER_ROUND
    BY <1>2, <1>3, <1>6, RecordFacts DEF IsSignerState
  <1>10. CASE stays
    BY <1>1, <1>2, <1>3, <1>6, <1>8, <1>9, <1>10, RecordFacts DEF IsSignerState, Grown
  <1>11. CASE ~stays
    BY <1>1, <1>6, <1>8, <1>9, <1>11, NewSignerFacts
  <1>. QED
    BY <1>10, <1>11

\* update_for_partial_signature within the limits.
LEMMA PartialFacts ==
    ASSUME Clock, NEW op, IsOperatorState(op), NEW m, m.slot \in Nat, Begun(m.slot),
           has_signer_state(op, m.slot)
              => ~OverLimits(get_signer_state(op, m.slot).message_counts, m)
    PROVE  LET new == update_for_partial_signature(op, m)
               s == get_signer_state(new, m.slot)
           IN  /\ IsOperatorState(new)
               /\ DiffersAt(op, new, m.slot)
               /\ root_budget_failure(op, m) = "none" =>
                    \A c \in CountersOf(m) : s.message_counts[c] >= MAX_MESSAGES_PER_ROUND
               /\ has_signer_state(op, m.slot) => Grown(get_signer_state(op, m.slot), s)
  <1>. DEFINE old == get_signer_state(op, m.slot)
              stays == has_signer_state(op, m.slot)
  <1>1. PICK s : s = partial_state(op, m)
    OBVIOUS
  <1>2. /\ IsSignerState(s) /\ s.slot = m.slot
        /\ stays => s = old
        /\ ~stays => s = new_signer_state(m.slot, FIRST_ROUND)
    BY <1>1, HasFacts, NewSignerFacts DEF partial_state, FIRST_ROUND
  <1>3. \A c \in CountersOf(m) : s.message_counts[c] < MAX_MESSAGES_PER_ROUND
    <2>1. CASE stays
      <3>1. \A c \in Counters : s.message_counts[c] \in 0..MAX_MESSAGES_PER_ROUND
        BY <1>2 DEF IsSignerState
      <3>. QED
        BY <2>1, <1>2, <3>1, CountersFacts DEF OverLimits, MAX_MESSAGES_PER_ROUND
    <2>2. CASE ~stays
      <3>1. \A c \in Counters : s.message_counts[c] = 0
        BY <2>2, <1>2, NewSignerFacts DEF FIRST_ROUND
      <3>. QED
        BY <3>1, CountersFacts DEF MAX_MESSAGES_PER_ROUND
    <2>. QED
      BY <2>1, <2>2
  <1>4. PICK t : t = IF root_budget_failure(op, m) # "none" THEN s
            ELSE [s EXCEPT
                    !.roots = [k \in DOMAIN RootBudget |->
                                 IF k = m.type THEN @[k] \cup entry_roots(m) ELSE @[k]],
                    !.message_counts = record(@, m)]
    OBVIOUS
  <1>5. update_for_partial_signature(op, m) = set_signer_state(op, m.slot, t)
    BY <1>1, <1>4 DEF update_for_partial_signature
  <1>6. /\ DOMAIN t = SignerFields /\ t.slot = s.slot /\ t.round = s.round
        /\ root_budget_failure(op, m) # "none" => t.message_counts = s.message_counts
        /\ root_budget_failure(op, m) = "none" =>
              t.message_counts = record(s.message_counts, m)
    BY <1>2, <1>4 DEF IsSignerState, SignerFields
  <1>7. IsSignerState(t) /\ t.slot = m.slot
    BY <1>2, <1>3, <1>6, RecordFacts DEF IsSignerState
  <1>8. /\ IsOperatorState(update_for_partial_signature(op, m))
        /\ DiffersAt(op, update_for_partial_signature(op, m), m.slot)
        /\ get_signer_state(update_for_partial_signature(op, m), m.slot) = t
    BY <1>5, <1>7, SetFacts DEF DiffersAt
  <1>9. root_budget_failure(op, m) = "none" =>
           \A c \in CountersOf(m) : t.message_counts[c] >= MAX_MESSAGES_PER_ROUND
    BY <1>2, <1>3, <1>6, RecordFacts DEF IsSignerState
  <1>10. Grown(s, t)
    <2>1. s.message_counts \in [Counters -> 0..MAX_MESSAGES_PER_ROUND]
      BY <1>2 DEF IsSignerState
    <2>2. CASE root_budget_failure(op, m) = "none"
      BY <2>1, <2>2, <1>3, <1>6, RecordFacts DEF Grown
    <2>3. CASE root_budget_failure(op, m) # "none"
      BY <2>1, <2>3, <1>6 DEF Grown, MAX_MESSAGES_PER_ROUND
    <2>. QED
      BY <2>2, <2>3
  <1>. QED
    BY <1>2, <1>8, <1>9, <1>10

---------------------------------------------------------------------------
(* The rules.                                                              *)

\* The failures of the rules.
Failures ==
    {"WrongRSASignatureSize", "NoSigners", "DuplicatedSigner", "EmptyData",
     "InvalidRole", "NonExistentCommitteeID", "UnknownValidator",
     "UnknownMessageSlot", "IncorrectTopic", "TopicForkMismatch",
     "WrongDomain", "RoleNotActiveBeforeFork", "RoleNotActiveAfterFork",
     "RoleNotActiveAfterEthFork", "RoleNotActiveBeforeEthFork",
     "NoShareMetadata", "NoDuty", "EarlySlotMessage", "LateSlotMessage",
     "NonDecidedWithMultipleSigners", "DecidedNotEnoughSigners",
     "PrepareOrCommitWithFullData", "InvalidHash", "ZeroRound",
     "UnexpectedConsensusMessage", "RoundTooHigh", "MismatchedIdentifier",
     "UnexpectedPrepareJustifications",
     "UnexpectedRoundChangeJustifications", "MalformedJustifications",
     "DuplicatedMessage", "RoundAlreadyAdvanced", "DifferentProposalData",
     "SignerNotLeader", "DecidedWithSameSigners",
     "EstimatedRoundNotInAllowedSpread", "SlotAlreadyAdvanced",
     "ExcessiveDutyCount", "SignatureVerificationFailed",
     "PartialSigOneSigner", "FullDataNotInConsensusMessage",
     "PartialSignatureTypeRoleMismatch", "NoPartialSignatureMessages",
     "InconsistentSigners", "InconsistentValidatorIndices",
     "ValidatorIndexMismatch", "ValidatorRegistrationRetired",
     "InvalidPartialSignatureTypeCount", "TooManyPartialSignatureMessages",
     "TooManyValidatorIndexOccurrences", "SignerNotInCommittee",
     "UndecodableMessageData"}

Rules == Seq(Failures)

\* What a rule gives rise to: one failure, or none.
LEMMA OneFailure == \A f \in Failures : <<f>> \in Rules /\ <<f>> # <<>>
  BY DEF Rules

LEMMA NoFailure == <<>> \in Rules
  BY DEF Rules

\* Rules one after the other give rise to no failure when none of them does.
LEMMA ConcatFacts ==
    ASSUME NEW a \in Rules, NEW b \in Rules
    PROVE  a \o b \in Rules /\ (a \o b = <<>> <=> a = <<>> /\ b = <<>>)
  <1>1. a \in Seq(Failures) /\ b \in Seq(Failures)
    BY DEF Rules
  <1>2. a \o b \in Seq(Failures) /\ Len(a \o b) = Len(a) + Len(b)
    BY <1>1
  <1>3. \A s \in Seq(Failures) : Len(s) \in Nat /\ (s = <<>> <=> Len(s) = 0)
    OBVIOUS
  <1>. QED
    BY <1>1, <1>2, <1>3, SMT DEF Rules

\* The first failure is none when there is no failure.
LEMMA FirstFacts ==
    ASSUME NEW a \in Rules
    PROVE  First(a) = "none" <=> a = <<>>
  <1>1. CASE a = <<>>
    BY <1>1 DEF First
  <1>2. CASE a # <<>>
    <2>1. Head(a) \in Failures
      BY <1>2 DEF Rules
    <2>. QED
      BY <1>2, <2>1 DEF First, Failures
  <1>. QED
    BY <1>1, <1>2

\* Several rules at once.
LEMMA ConcatFacts3 ==
    ASSUME NEW a \in Rules, NEW b \in Rules, NEW c \in Rules
    PROVE  a \o b \o c \in Rules /\ (a \o b \o c = <<>> <=> a = <<>> /\ b = <<>> /\ c = <<>>)
  BY ConcatFacts

LEMMA ConcatFacts5 ==
    ASSUME NEW a \in Rules, NEW b \in Rules, NEW c \in Rules, NEW d \in Rules, NEW e \in Rules
    PROVE  /\ a \o b \o c \o d \o e \in Rules
           /\ a \o b \o c \o d \o e = <<>> <=>
                a = <<>> /\ b = <<>> /\ c = <<>> /\ d = <<>> /\ e = <<>>
  <1>1. a \o b \o c \in Rules /\ (a \o b \o c = <<>> <=> a = <<>> /\ b = <<>> /\ c = <<>>)
    BY ConcatFacts3
  <1>2. PICK x \in Rules : x = a \o b \o c
    BY <1>1
  <1>3. x \o d \o e \in Rules /\ (x \o d \o e = <<>> <=> x = <<>> /\ d = <<>> /\ e = <<>>)
    BY ConcatFacts3
  <1>. QED
    BY <1>1, <1>2, <1>3, Zenon

LEMMA StructureFacts ==
    ASSUME NEW m
    PROVE  /\ structure_rules(m) \in Rules
           /\ structure_rules(m) = <<>> => m.signers # {}
  BY OneFailure, NoFailure, ConcatFacts DEF structure_rules, When, Failures

LEMMA RegistryFacts == registry_rules \in Rules
  BY OneFailure, NoFailure, ConcatFacts DEF registry_rules, When, Failures

LEMMA TopicFacts ==
    ASSUME NEW m
    PROVE  validate_topic_and_domain(m) \in Rules
  BY OneFailure, NoFailure, ConcatFacts DEF validate_topic_and_domain, When, Failures

LEMMA ForkFacts ==
    ASSUME NEW slot
    PROVE  validate_role_for_fork(slot) \in Rules
  BY OneFailure, NoFailure, ConcatFacts DEF validate_role_for_fork, When, Failures

LEMMA BeaconFacts ==
    ASSUME NEW m
    PROVE  validate_beacon_duty(m) \in Rules
  BY OneFailure, NoFailure, ConcatFacts DEF validate_beacon_duty, When, Failures

\* The start of a window is a number.
LEMMA EarliestInt ==
    ASSUME NEW slot \in Nat
    PROVE  earliest(slot) \in Int
  <1>1. \A k \in Int : slot_start_time(k) \in Int /\ start_slot(k) \in Int
    BY ClockFacts, SMT DEF slot_start_time, start_slot
  <1>2. PICK e \in Int : e = epoch_of(slot)
    BY SlotsOfEpoch
  <1>3. e - MIN_SEED_LOOKAHEAD \in Int
    BY ClockFacts
  <1>. QED
    BY <1>1, <1>2, <1>3 DEF earliest

LEMMA SlotTimeFacts ==
    ASSUME Clock, NEW slot \in Nat
    PROVE  /\ validate_slot_time(slot) \in Rules
           /\ validate_slot_time(slot) = <<>> => InTime(slot)
  <1>0. earliest(slot) \in Int
    BY EarliestInt
  <1>1. PICK a \in Int : a = earliest(slot) - EARLY_MESSAGE_MARGIN
    BY <1>0, ClockFacts
  <1>2. PICK b \in Int : b = slot_start_time(slot + ttl) + LATE_MESSAGE_MARGIN
    BY ClockFacts, SizeOfRing, SMT DEF slot_start_time, Clock
  <1>3. /\ validate_slot_time(slot) \in Rules
        /\ validate_slot_time(slot) = <<>> => ~(now < a) /\ ~(now > b)
    BY <1>1, <1>2, OneFailure, NoFailure, ConcatFacts DEF validate_slot_time, When, Failures
  <1>. QED
    BY <1>1, <1>2, <1>3, SMT DEF InTime, Clock

LEMMA SignatureFacts ==
    ASSUME NEW m
    PROVE  signature_rules(m) \in Rules
  BY OneFailure, NoFailure DEF signature_rules, When, Failures

LEMMA ConsensusSemanticsFacts ==
    ASSUME NEW m
    PROVE  /\ validate_consensus_message_semantics(m) \in Rules
           /\ validate_consensus_message_semantics(m) = <<>> =>
                 /\ is_qbft_role(role)
                 /\ ~(Cardinality(m.signers) > 1 /\ m.type # "Commit")
  <1> DEFINE signers == Cardinality(m.signers)
             r1 == When(signers > 1 /\ m.type # "Commit", "NonDecidedWithMultipleSigners")
             r2 == When(signers > 1 /\ signers < quorum_size, "DecidedNotEnoughSigners")
             r3 == When(m.data # NoRoot /\ (m.type = "Prepare" \/ (m.type = "Commit" /\ signers = 1)),
                        "PrepareOrCommitWithFullData")
             r4 == When(m.data # NoRoot /\ m.data # m.root, "InvalidHash")
             r5 == When(m.round = 0, "ZeroRound")
             r6 == When(~is_qbft_role(role), "UnexpectedConsensusMessage")
             r7 == When(m.round > max_round(role), "RoundTooHigh")
             r8 == When("MismatchedIdentifier" \in m.flaws, "MismatchedIdentifier")
             r9 == When("prepares" \in m.carries /\ m.type # "Proposal",
                        "UnexpectedPrepareJustifications")
             r10 == When("justifications" \in m.carries /\ m.type \notin {"Proposal", "RoundChange"},
                         "UnexpectedRoundChangeJustifications")
             r11 == When("MalformedJustifications" \in m.flaws, "MalformedJustifications")
  <1>1. /\ r1 \in Rules /\ r2 \in Rules /\ r3 \in Rules /\ r4 \in Rules /\ r5 \in Rules
        /\ r6 \in Rules /\ r7 \in Rules /\ r8 \in Rules /\ r9 \in Rules /\ r10 \in Rules
        /\ r11 \in Rules
    BY OneFailure, NoFailure DEF When, Failures
  <1>2. /\ r1 = <<>> => ~(Cardinality(m.signers) > 1 /\ m.type # "Commit")
        /\ r6 = <<>> => is_qbft_role(role)
    BY OneFailure DEF When, Failures
  <1>3. validate_consensus_message_semantics(m) =
           r1 \o r2 \o r3 \o r4 \o r5 \o r6 \o r7 \o r8 \o r9 \o r10 \o r11
    BY DEF validate_consensus_message_semantics
  <1> HIDE DEF r1, r2, r3, r4, r5, r6, r7, r8, r9, r10, r11
  <1>4. /\ r1 \o r2 \o r3 \o r4 \o r5 \in Rules
        /\ r1 \o r2 \o r3 \o r4 \o r5 = <<>> => r1 = <<>>
    BY ONLY <1>1, ConcatFacts5
  <1>5. PICK x \in Rules : x = r1 \o r2 \o r3 \o r4 \o r5
    BY <1>4, Zenon
  <1>6. /\ x \o r6 \o r7 \o r8 \o r9 \in Rules
        /\ x \o r6 \o r7 \o r8 \o r9 = <<>> => x = <<>> /\ r6 = <<>>
    BY ONLY <1>1, x \in Rules, ConcatFacts5
  <1>7. PICK y \in Rules : y = x \o r6 \o r7 \o r8 \o r9
    BY <1>6, Zenon
  <1>8. y \o r10 \o r11 \in Rules /\ (y \o r10 \o r11 = <<>> => y = <<>>)
    BY <1>1, ConcatFacts3
  <1>. QED
    BY <1>2, <1>3, <1>4, <1>5, <1>6, <1>7, <1>8, Zenon

LEMMA SingleSignerFacts ==
    ASSUME NEW m, NEW o
    PROVE  /\ single_signer_rules(m, o) \in Rules
           /\ single_signer_rules(m, o) = <<>> /\ has_signer_state(operators[o], m.slot) =>
                 LET s == get_signer_state(operators[o], m.slot)
                 IN  /\ ~(m.round < s.round)
                     /\ ~(m.round = s.round /\ OverLimits(s.message_counts, m))
  BY OneFailure, NoFailure, ConcatFacts DEF single_signer_rules, When, Failures

LEMMA QbftLogicFacts ==
    ASSUME NEW m
    PROVE  /\ validate_qbft_logic(m) \in Rules
           /\ validate_qbft_logic(m) = <<>> /\ Cardinality(m.signers) = 1 =>
                 single_signer_rules(m, CHOOSE x \in m.signers : TRUE) = <<>>
  BY OneFailure, NoFailure, ConcatFacts, SingleSignerFacts
     DEF validate_qbft_logic, When, Failures

LEMMA QbftDutyFacts ==
    ASSUME Clock, NEW m, m.slot \in Nat
    PROVE  /\ validate_qbft_message_by_duty_logic(m) \in Rules
           /\ validate_qbft_message_by_duty_logic(m) = <<>> =>
                 /\ InTime(m.slot)
                 /\ \A o \in m.signers : ~validate_duty_count(o, m.slot)
  BY OneFailure, NoFailure, ConcatFacts, BeaconFacts, SlotTimeFacts
     DEF validate_qbft_message_by_duty_logic, When, Failures

LEMMA PartialSemanticsFacts ==
    ASSUME NEW m
    PROVE  /\ validate_partial_signature_message_semantics(m) \in Rules
           /\ validate_partial_signature_message_semantics(m) = <<>> =>
                 Cardinality(m.signers) = 1
  BY SMTT(60), OneFailure, NoFailure, ConcatFacts
     DEF validate_partial_signature_message_semantics, When, Failures

LEMMA RetirementFacts == retirement_rules \in Rules
  BY OneFailure, NoFailure DEF retirement_rules, When, Failures

LEMMA PartialDutyFacts ==
    ASSUME Clock, NEW m, m.slot \in Nat
    PROVE  LET o == CHOOSE x \in m.signers : TRUE
           IN  /\ validate_partial_sig_messages_by_duty_logic(m) \in Rules
               /\ validate_partial_sig_messages_by_duty_logic(m) = <<>> =>
                     /\ InTime(m.slot)
                     /\ ~validate_duty_count(o, m.slot)
                     /\ has_signer_state(operators[o], m.slot) =>
                          ~OverLimits(get_signer_state(operators[o], m.slot).message_counts, m)
  <1>. DEFINE o == CHOOSE x \in m.signers : TRUE
              op == operators[o]
              over == has_signer_state(op, m.slot)
                        /\ OverLimits(get_signer_state(op, m.slot).message_counts, m)
  <1>1. PICK a \in Rules : a = When(monotonic_slot_role(role) /\ op.max_slot # 0
                                      /\ op.max_slot > m.slot, "SlotAlreadyAdvanced")
    BY OneFailure, NoFailure DEF When, Failures
  <1>2. PICK b \in Rules : /\ b = When(over, "InvalidPartialSignatureTypeCount")
                           /\ b = <<>> => ~over
    BY OneFailure, NoFailure DEF When, Failures
  <1>3. PICK c \in Rules : /\ c = When(validate_duty_count(o, m.slot), "ExcessiveDutyCount")
                           /\ c = <<>> => ~validate_duty_count(o, m.slot)
    BY OneFailure, NoFailure DEF When, Failures
  <1>4. PICK d \in Rules : d = When(Len(m.entries) > entry_limit(role, validator_count, m),
                                    "TooManyPartialSignatureMessages")
    BY OneFailure, NoFailure DEF When, Failures
  <1>5. PICK e \in Rules :
           e = When(is_committee_role(role)
                      /\ \E v \in entry_validators(m) : occurrences(m, v) > occurrence_limit(role),
                    "TooManyValidatorIndexOccurrences")
    BY OneFailure, NoFailure DEF When, Failures
  <1>6. PICK x \in Rules, y \in Rules : x = validate_beacon_duty(m) /\ y = validate_slot_time(m.slot)
    BY BeaconFacts, SlotTimeFacts
  <1>7. validate_partial_sig_messages_by_duty_logic(m)
          = a \o x \o b \o y \o c \o d \o e
    BY <1>1, <1>2, <1>3, <1>4, <1>5, <1>6 DEF validate_partial_sig_messages_by_duty_logic
  <1>8. /\ validate_partial_sig_messages_by_duty_logic(m) \in Rules
        /\ validate_partial_sig_messages_by_duty_logic(m) = <<>> =>
              b = <<>> /\ y = <<>> /\ c = <<>>
    <2>. HIDE DEF o, op, over
    <2>0. /\ a \o x \o b \o y \o c \in Rules
          /\ a \o x \o b \o y \o c = <<>> => b = <<>> /\ y = <<>> /\ c = <<>>
      BY ONLY ConcatFacts5, a \in Rules, x \in Rules, b \in Rules, y \in Rules, c \in Rules
    <2>1. PICK p \in Rules : /\ p = a \o x \o b \o y \o c
                             /\ p = <<>> => b = <<>> /\ y = <<>> /\ c = <<>>
      BY <2>0, Zenon
    <2>2. p \o d \o e \in Rules /\ (p \o d \o e = <<>> => p = <<>>)
      BY ConcatFacts3
    <2>3. validate_partial_sig_messages_by_duty_logic(m) = p \o d \o e
      BY <2>1, <1>7, Zenon
    <2>. QED
      BY <2>1, <2>2, <2>3, Zenon
  <1>. QED
    BY <1>2, <1>3, <1>6, <1>8, SlotTimeFacts

---------------------------------------------------------------------------
(* What an admitted message satisfies.                                     *)

\* The message passes the checks that the duty state depends on.
Admitted(m) ==
    /\ m.signers # {} /\ m.signers \subseteq Committee
    /\ InTime(m.slot)
    /\ \A o \in m.signers : ~validate_duty_count(o, m.slot)
    /\ m.kind = "Consensus" =>
          /\ is_qbft_role(role)
          /\ Cardinality(m.signers) # 1 => CountersOf(m) = {}
          /\ Cardinality(m.signers) = 1 => \A o \in m.signers :
                has_signer_state(operators[o], m.slot) =>
                   LET s == get_signer_state(operators[o], m.slot)
                   IN  ~(m.round < s.round)
                       /\ ~(m.round = s.round /\ OverLimits(s.message_counts, m))
    /\ m.kind # "Consensus" =>
          /\ Cardinality(m.signers) = 1
          /\ \A o \in m.signers : has_signer_state(operators[o], m.slot) =>
                ~OverLimits(get_signer_state(operators[o], m.slot).message_counts, m)

LEMMA SignersFacts ==
    ASSUME NEW S, S # {}, S \subseteq Committee
    PROVE  /\ Cardinality(S) \in Nat \ {0}
           /\ Cardinality(S) = 1 => \A o \in S : S = {o} /\ o = CHOOSE x \in S : TRUE
  <1>1. IsFiniteSet(S)
    BY FS_Subset, ValidatorAssumption
  <1>2. Cardinality(S) \in Nat /\ Cardinality(S) # 0
    BY <1>1, FS_CardinalityType, FS_EmptySet
  <1>3. ASSUME Cardinality(S) = 1, NEW o \in S PROVE S = {o}
    <2>1. PICK x : S = {x}
      BY <1>1, <1>3, FS_Singleton
    <2>. QED
      BY <2>1
  <1>4. ASSUME NEW o, S = {o} PROVE o = CHOOSE x \in S : TRUE
    BY <1>4
  <1>. QED
    BY <1>2, <1>3, <1>4

LEMMA OuterFacts ==
    ASSUME NEW m, check_failure(m) = "none"
    PROVE  /\ m.signers # {} /\ m.signers \subseteq Committee
           /\ First(IF m.kind = "Consensus" THEN consensus_rules(m)
                    ELSE partial_rules(m)) = "none"
  <1>1. PICK a \in Rules : /\ a = When(~(m.signers \subseteq Committee), "SignerNotInCommittee")
                           /\ a = <<>> => m.signers \subseteq Committee
    BY OneFailure, NoFailure DEF When, Failures
  <1>2. PICK b \in Rules : b = When("UndecodableMessageData" \in m.flaws, "UndecodableMessageData")
    BY OneFailure, NoFailure DEF When, Failures
  <1>3. PICK x \in Rules, y \in Rules, z \in Rules :
           /\ x = structure_rules(m) /\ y = registry_rules /\ z = validate_topic_and_domain(m)
           /\ x = <<>> => m.signers # {}
    BY StructureFacts, RegistryFacts, TopicFacts
  <1>4. /\ x \o y \o z \o a \o b \in Rules
        /\ x \o y \o z \o a \o b = <<>> => x = <<>> /\ a = <<>>
    BY ONLY ConcatFacts5, x \in Rules, y \in Rules, z \in Rules, a \in Rules, b \in Rules
  <1>5. First(x \o y \o z \o a \o b) = "none" => x = <<>> /\ a = <<>>
    BY <1>4, FirstFacts
  <1>6. First(x \o y \o z \o a \o b) = "none"
        /\ First(IF m.kind = "Consensus" THEN consensus_rules(m) ELSE partial_rules(m)) = "none"
    BY <1>1, <1>2, <1>3 DEF check_failure
  <1>. QED
    BY <1>1, <1>3, <1>5, <1>6

LEMMA ConsensusRulesFacts ==
    ASSUME Clock, NEW m, m.slot \in Nat, First(consensus_rules(m)) = "none"
    PROVE  /\ validate_consensus_message_semantics(m) = <<>>
           /\ validate_qbft_logic(m) = <<>>
           /\ validate_qbft_message_by_duty_logic(m) = <<>>
  <1>1. PICK a \in Rules, b \in Rules, c \in Rules, d \in Rules, e \in Rules :
           /\ a = validate_role_for_fork(m.slot)
           /\ b = validate_consensus_message_semantics(m) /\ c = validate_qbft_logic(m)
           /\ d = validate_qbft_message_by_duty_logic(m) /\ e = signature_rules(m)
    BY ForkFacts, ConsensusSemanticsFacts, QbftLogicFacts, QbftDutyFacts, SignatureFacts
  <1>2. /\ a \o b \o c \o d \o e \in Rules
        /\ a \o b \o c \o d \o e = <<>> => b = <<>> /\ c = <<>> /\ d = <<>>
    BY ONLY ConcatFacts5, a \in Rules, b \in Rules, c \in Rules, d \in Rules, e \in Rules
  <1>3. consensus_rules(m) = a \o b \o c \o d \o e
    BY <1>1 DEF consensus_rules
  <1>. QED
    BY <1>1, <1>2, <1>3, FirstFacts

LEMMA PartialRulesFacts ==
    ASSUME Clock, NEW m, m.slot \in Nat, First(partial_rules(m)) = "none"
    PROVE  /\ validate_partial_signature_message_semantics(m) = <<>>
           /\ validate_partial_sig_messages_by_duty_logic(m) = <<>>
  <1>1. PICK a \in Rules, b \in Rules, c \in Rules, d \in Rules, e \in Rules :
           /\ a = validate_role_for_fork(m.slot)
           /\ b = validate_partial_signature_message_semantics(m) /\ c = retirement_rules
           /\ d = validate_partial_sig_messages_by_duty_logic(m) /\ e = signature_rules(m)
    BY ForkFacts, PartialSemanticsFacts, RetirementFacts, PartialDutyFacts, SignatureFacts
  <1>2. /\ a \o b \o c \o d \o e \in Rules
        /\ a \o b \o c \o d \o e = <<>> => b = <<>> /\ d = <<>>
    BY ONLY ConcatFacts5, a \in Rules, b \in Rules, c \in Rules, d \in Rules, e \in Rules
  <1>3. partial_rules(m) = a \o b \o c \o d \o e
    BY <1>1 DEF partial_rules
  <1>. QED
    BY <1>1, <1>2, <1>3, FirstFacts

\* A message that passes the checks is admitted.
LEMMA CheckFacts ==
    ASSUME Clock, NEW m, m.slot \in Nat, check_failure(m) = "none"
    PROVE  Admitted(m)
  <1>1. /\ m.signers # {} /\ m.signers \subseteq Committee
        /\ First(IF m.kind = "Consensus" THEN consensus_rules(m)
                 ELSE partial_rules(m)) = "none"
    BY OuterFacts
  <1>2. /\ Cardinality(m.signers) \in Nat \ {0}
        /\ Cardinality(m.signers) = 1 =>
             \A o \in m.signers : m.signers = {o} /\ o = CHOOSE x \in m.signers : TRUE
    BY <1>1, SignersFacts
  <1>3. CASE m.kind = "Consensus"
    <2>1. /\ validate_consensus_message_semantics(m) = <<>>
          /\ validate_qbft_logic(m) = <<>>
          /\ validate_qbft_message_by_duty_logic(m) = <<>>
      BY <1>1, <1>3, ConsensusRulesFacts
    <2>2. is_qbft_role(role) /\ ~(Cardinality(m.signers) > 1 /\ m.type # "Commit")
      BY <2>1, ConsensusSemanticsFacts
    <2>3. InTime(m.slot) /\ \A o \in m.signers : ~validate_duty_count(o, m.slot)
      BY <2>1, QbftDutyFacts
    <2>4. Cardinality(m.signers) # 1 => CountersOf(m) = {}
      <3>1. Cardinality(m.signers) # 1 => m.type = "Commit"
        BY <1>2, <2>2, SMT
      <3>. QED
        BY <3>1 DEF CountersOf
    <2>5. ASSUME Cardinality(m.signers) = 1, NEW o \in m.signers,
                 has_signer_state(operators[o], m.slot)
          PROVE  LET s == get_signer_state(operators[o], m.slot)
                 IN  /\ ~(m.round < s.round)
                     /\ ~(m.round = s.round /\ OverLimits(s.message_counts, m))
      <3>1. single_signer_rules(m, o) = <<>>
        BY <2>1, <2>5, <1>2, QbftLogicFacts
      <3>. QED
        BY <3>1, <2>5, SingleSignerFacts
    <2>. QED
      BY <1>1, <1>3, <2>2, <2>3, <2>4, <2>5 DEF Admitted
  <1>4. CASE m.kind # "Consensus"
    <2>1. /\ validate_partial_signature_message_semantics(m) = <<>>
          /\ validate_partial_sig_messages_by_duty_logic(m) = <<>>
      BY <1>1, <1>4, PartialRulesFacts
    <2>2. Cardinality(m.signers) = 1
      BY <2>1, PartialSemanticsFacts
    <2>3. \A o \in m.signers : m.signers = {o} /\ o = CHOOSE x \in m.signers : TRUE
      BY <1>2, <2>2
    <2>4. InTime(m.slot) /\ \A o \in m.signers :
             /\ ~validate_duty_count(o, m.slot)
             /\ has_signer_state(operators[o], m.slot) =>
                  ~OverLimits(get_signer_state(operators[o], m.slot).message_counts, m)
      BY <1>1, <2>1, <2>3, PartialDutyFacts
    <2>. QED
      BY <1>1, <1>4, <2>2, <2>4 DEF Admitted
  <1>. QED
    BY <1>3, <1>4

---------------------------------------------------------------------------
(* The clock goes on, or stands still.                                     *)

Passes == role' = role /\ now' \in {now, now + 1}

LEMMA WindowsPersist ==
    ASSUME Clock, Passes, NEW s \in Nat
    PROVE  (Begun(s) => Begun(s)') /\ (Late(s) => Late(s)')
  <1>1. ttl' = ttl /\ earliest(s)' = earliest(s)
    BY DEF Passes, ttl, earliest, slot_start_time
  <1>2. earliest(s) \in Int
    BY EarliestInt
  <1>3. PICK x \in Int : x = slot_start_time(s + ttl)
    BY ClockFacts, SizeOfRing, SMT DEF slot_start_time, Clock
  <1>4. (slot_start_time(s + ttl))' = x
    BY <1>1, <1>3 DEF slot_start_time
  <1>5. Begun(s) => Begun(s)'
    BY <1>1, <1>2, ClockFacts DEF Begun, Clock, Passes
  <1>6. Late(s) => Late(s)'
    BY <1>1, <1>3, <1>4, ClockFacts DEF Late, Clock, Passes
  <1>. QED
    BY <1>5, <1>6

LEMMA SizePersists ==
    ASSUME role' = role
    PROVE  Size' = Size
  BY DEF Size

LEMMA RingPersists ==
    ASSUME Clock, Passes, NEW op, IsOperatorState(op)
    PROVE  IsOperatorState(op)'
  <1>1. Size' = Size
    BY SizePersists DEF Passes
  <1>2. ASSUME NEW i \in 0..(Size - 1) PROVE IsEntry(op, i)'
    <2>1. IsEntry(op, i)
      BY DEF IsOperatorState
    <2>2. CASE op.state[i] = NoSignerState
      BY <2>2 DEF IsEntry
    <2>3. CASE op.state[i] # NoSignerState
      <3>1. PICK x : x = op.state[i].slot
        OBVIOUS
      <3>2. /\ IsSignerState(op.state[i]) /\ x % Size = i /\ x <= op.max_slot
            /\ Begun(x) /\ x \in Nat
        BY <2>1, <2>3, <3>1 DEF IsEntry, IsSignerState
      <3>3. Begun(x)'
        BY <3>2, WindowsPersist
      <3>. QED
        BY <1>1, <3>1, <3>2, <3>3 DEF IsEntry, IsSignerState
    <2>. QED
      BY <2>2, <2>3
  <1>. QED
    BY <1>1, <1>2 DEF IsOperatorState

LEMMA Transfer ==
    ASSUME NEW o, NEW op, op = operators'[o], IsOperatorState(op)'
    PROVE  IsOperatorState(operators[o])'
  BY DEF IsOperatorState, IsEntry, IsSignerState, Begun, earliest

---------------------------------------------------------------------------
(* What recording a message keeps.                                         *)

LEMMA MessageFacts ==
    ASSUME Types, NEW i \in DOMAIN accepted
    PROVE  /\ Clock
           /\ message(i).slot \in Nat /\ message(i).round \in Nat
           /\ message(i).kind \in {"Consensus", "Partial"}
           /\ accepted[i] \in Nat
  <1>1. role \in Scenarios /\ role \in Roles
    BY ValidatorAssumption DEF Types
  <1>2. MaxTime[role] \in Nat
    BY <1>1, TrafficAssumption
  <1>3. i \in DOMAIN Traffic[role] /\ accepted[i] \in 0..MaxAccepted
    BY DEF Types
  <1>. QED
    BY <1>1, <1>2, <1>3, TrafficAssumption, ValidatorAssumption DEF Types, Clock, message

LEMMA ClockOfTypes == Types => Clock
  <1>1. SUFFICES ASSUME Types PROVE Clock
    OBVIOUS
  <1>2. role \in Scenarios /\ role \in Roles
    BY <1>1, ValidatorAssumption DEF Types
  <1>3. MaxTime[role] \in Nat
    BY <1>2, TrafficAssumption
  <1>. QED
    BY <1>1, <1>2, <1>3 DEF Types, Clock

\* The duty state after a message that passed the checks.
After(m) ==
    IF m.kind = "Consensus" THEN update_for_consensus_message(operators, m)
    ELSE [operators EXCEPT ![CHOOSE o \in m.signers : TRUE] =
              update_for_partial_signature(@, m)]

\* A slot that has an entry keeps it, or gets one of a higher round.
Advanced(m, op, new) ==
    has_signer_state(op, m.slot) =>
        LET old == get_signer_state(op, m.slot)
            s == get_signer_state(new, m.slot)
        IN  Grown(old, s) \/ (m.kind = "Consensus" /\ s.round > old.round)

LEMMA AfterFacts ==
    ASSUME Clock, RingInv, NEW m, m.slot \in Nat, m.round \in Nat,
           m.kind \in {"Consensus", "Partial"}, Admitted(m), NEW ops, ops = After(m)
    PROVE  /\ DOMAIN ops = Committee
           /\ \A o \in Committee : o \notin m.signers => ops[o] = operators[o]
           /\ \A o \in m.signers :
                 /\ IsOperatorState(ops[o])
                 /\ DiffersAt(operators[o], ops[o], m.slot)
                 /\ Advanced(m, operators[o], ops[o])
                 /\ Limited(m) /\ Accepts(m) /\ check_failure(m) = "none" =>
                       Remembered(get_signer_state(ops[o], m.slot), m)
  <1>1. /\ DOMAIN operators = Committee /\ \A o \in Committee : IsOperatorState(operators[o])
        /\ m.signers # {} /\ m.signers \subseteq Committee /\ Begun(m.slot)
    BY InTimeFacts DEF RingInv, Admitted
  <1>2. Cardinality(m.signers) = 1 =>
           \A o \in m.signers : m.signers = {o} /\ o = CHOOSE x \in m.signers : TRUE
    BY <1>1, SignersFacts
  <1>3. CASE m.kind = "Consensus"
    <2>1. ops = [o \in Committee |-> IF o \in m.signers THEN update(operators[o], m)
                                     ELSE operators[o]]
      BY <1>1, <1>3 DEF After, update_for_consensus_message
    <2>2. ASSUME NEW o \in m.signers
          PROVE  /\ IsOperatorState(ops[o])
                 /\ DiffersAt(operators[o], ops[o], m.slot)
                 /\ Advanced(m, operators[o], ops[o])
                 /\ Limited(m) => Remembered(get_signer_state(ops[o], m.slot), m)
      <3>. DEFINE op == operators[o]
                  old == get_signer_state(op, m.slot)
                  s == get_signer_state(ops[o], m.slot)
      <3>1. IsOperatorState(op) /\ ops[o] = update(op, m)
        BY <1>1, <2>1
      <3>2. has_signer_state(op, m.slot) => IsSignerState(old)
        BY <3>1, HasFacts
      <3>3. has_signer_state(op, m.slot) => old.round \in Nat
        BY <3>2 DEF IsSignerState
      <3>4. Cardinality(m.signers) # 1 => ~OverLimits(old.message_counts, m)
        BY <1>3 DEF Admitted, OverLimits
      <3>5. Cardinality(m.signers) = 1 /\ has_signer_state(op, m.slot) =>
               /\ ~(m.round < old.round)
               /\ ~(m.round = old.round /\ OverLimits(old.message_counts, m))
        BY <1>3 DEF Admitted
      <3>6. has_signer_state(op, m.slot) /\ m.round <= old.round
              => ~OverLimits(old.message_counts, m)
        <4>. HIDE DEF op, old
        <4>. QED
          BY <3>3, <3>4, <3>5
      <3>7. /\ IsOperatorState(ops[o]) /\ DiffersAt(op, ops[o], m.slot)
            /\ \A c \in CountersOf(m) : s.message_counts[c] >= MAX_MESSAGES_PER_ROUND
            /\ IF has_signer_state(op, m.slot) /\ m.round <= old.round
               THEN Grown(old, s) ELSE s.round = m.round
        BY <1>1, <3>1, <3>6, UpdateFacts
      <3>8. Advanced(m, op, ops[o])
        BY <1>3, <3>3, <3>7 DEF Advanced
      <3>9. ASSUME Limited(m) PROVE Remembered(s, m)
        <4>1. Cardinality(m.signers) = 1
          BY <3>9 DEF Limited
        <4>2. s.round = m.round
          <5>1. CASE has_signer_state(op, m.slot) /\ m.round <= old.round
            <6>1. old.round = m.round
              BY <3>3, <3>5, <4>1, <5>1
            <6>. QED
              BY <5>1, <6>1, <3>7 DEF Grown
          <5>2. CASE ~(has_signer_state(op, m.slot) /\ m.round <= old.round)
            BY <5>2, <3>7
          <5>. QED
            BY <5>1, <5>2
        <4>. QED
          BY <4>2, <3>7 DEF Remembered
      <3>. QED
        BY <3>7, <3>8, <3>9
    <2>3. DOMAIN ops = Committee /\ \A o \in Committee : o \notin m.signers => ops[o] = operators[o]
      BY <2>1
    <2>. QED
      BY <2>2, <2>3
  <1>4. CASE m.kind = "Partial"
    <2>1. PICK a \in m.signers : a = CHOOSE x \in m.signers : TRUE
      BY <1>1
    <2>2. m.signers = {a}
      BY <1>2, <1>4, <2>1 DEF Admitted
    <2>3. ops = [operators EXCEPT ![a] = update_for_partial_signature(operators[a], m)]
      BY <1>4, <2>1 DEF After
    <2>4. IsOperatorState(operators[a])
      BY <1>1
    <2>5. has_signer_state(operators[a], m.slot) =>
             ~OverLimits(get_signer_state(operators[a], m.slot).message_counts, m)
      BY <1>4 DEF Admitted
    <2>6. ops[a] = update_for_partial_signature(operators[a], m)
      BY <1>1, <2>3
    <2>7. /\ IsOperatorState(ops[a])
          /\ DiffersAt(operators[a], ops[a], m.slot)
          /\ root_budget_failure(operators[a], m) = "none" => \A c \in CountersOf(m) :
                get_signer_state(ops[a], m.slot).message_counts[c] >= MAX_MESSAGES_PER_ROUND
          /\ has_signer_state(operators[a], m.slot) =>
                Grown(get_signer_state(operators[a], m.slot), get_signer_state(ops[a], m.slot))
      BY <1>1, <2>4, <2>5, <2>6, PartialFacts
    <2>8. Accepts(m) /\ check_failure(m) = "none" => root_budget_failure(operators[a], m) = "none"
      BY <1>4, <2>1 DEF Accepts, validation_failure
    <2>9. Advanced(m, operators[a], ops[a])
      BY <2>7 DEF Advanced
    <2>10. Accepts(m) /\ check_failure(m) = "none" =>
              Remembered(get_signer_state(ops[a], m.slot), m)
      BY <1>4, <2>7, <2>8 DEF Remembered
    <2>11. DOMAIN ops = Committee /\ \A o \in Committee : o # a => ops[o] = operators[o]
      BY <1>1, <2>3
    <2>. QED
      BY <2>2, <2>7, <2>9, <2>10, <2>11
  <1>. QED
    BY <1>3, <1>4

\* What was accepted before stays remembered, until it is late.
LEMMA KeptPersists ==
    ASSUME Clock, NEW op, IsOperatorState(op), NEW new, IsOperatorState(new),
           NEW m, m.slot \in Nat, InTime(m.slot),
           DiffersAt(op, new, m.slot), Advanced(m, op, new),
           NEW a, a.slot \in Nat, a.round \in Nat, Kept(op, a),
           a.kind # "Consensus" => m.kind # "Consensus"
    PROVE  Kept(new, a)
  <1>1. CASE Late(a.slot)
    BY <1>1 DEF Kept
  <1>2. CASE ~Late(a.slot)
    <2>1. has_signer_state(op, a.slot) /\ Remembered(get_signer_state(op, a.slot), a)
      BY <1>2 DEF Kept
    <2>2. CASE a.slot % Size # m.slot % Size
      BY <2>1, <2>2 DEF Kept, DiffersAt
    <2>3. CASE a.slot % Size = m.slot % Size /\ a.slot # m.slot
      <3>1. Late(a.slot)
        BY <2>1, <2>3, OverwrittenEntry, SlotsOfEpoch
      <3>. QED
        BY <1>2, <3>1
    <2>4. CASE a.slot = m.slot
      <3>. DEFINE old == get_signer_state(op, a.slot)
                  s == get_signer_state(new, a.slot)
      <3>1. has_signer_state(new, a.slot)
        BY <2>4 DEF DiffersAt
      <3>2. IsSignerState(old) /\ IsSignerState(s)
        BY <2>1, <3>1, HasFacts
      <3>3. /\ old.round \in Nat /\ s.round \in Nat
            /\ \A c \in Counters : old.message_counts[c] \in Nat /\ s.message_counts[c] \in Nat
        BY <3>2 DEF IsSignerState, MAX_MESSAGES_PER_ROUND
      <3>4. Grown(old, s) \/ (m.kind = "Consensus" /\ s.round > old.round)
        BY <2>1, <2>4 DEF Advanced
      <3>5. Remembered(old, a)
        BY <2>1
      <3>. HIDE DEF old, s
      <3>6. CASE Grown(old, s)
        <4>1. s.round = old.round
          BY <3>6 DEF Grown
        <4>2. \A c \in CountersOf(a) : old.message_counts[c] >= MAX_MESSAGES_PER_ROUND =>
                  s.message_counts[c] >= MAX_MESSAGES_PER_ROUND
          BY <3>3, <3>6, CountersFacts DEF Grown, MAX_MESSAGES_PER_ROUND
        <4>3. Remembered(s, a)
          BY <3>5, <4>1, <4>2 DEF Remembered
        <4>. QED
          BY <3>1, <4>3 DEF Kept, s
      <3>7. CASE m.kind = "Consensus" /\ s.round > old.round
        <4>1. a.kind = "Consensus" /\ ~(old.round < a.round)
          BY <3>3, <3>5, <3>7 DEF Remembered
        <4>2. s.round > a.round
          BY <3>3, <3>7, <4>1
        <4>3. Remembered(s, a)
          BY <4>1, <4>2 DEF Remembered
        <4>. QED
          BY <3>1, <4>3 DEF Kept, s
      <3>. QED
        BY <3>4, <3>6, <3>7
    <2>. QED
      BY <2>2, <2>3, <2>4
  <1>. QED
    BY <1>1, <1>2

\* The slots of an epoch are finitely many.
LEMMA EpochFinite ==
    ASSUME NEW e \in Nat, NEW A \in SUBSET slots_of(e), NEW B \in SUBSET A
    PROVE  /\ IsFiniteSet(A) /\ IsFiniteSet(B)
           /\ Cardinality(A) \in Nat /\ Cardinality(B) \in Nat
           /\ Cardinality(B) <= Cardinality(A)
  <1>1. start_slot(e) \in Int /\ start_slot(e) + SLOTS_PER_EPOCH - 1 \in Int
    BY ClockFacts, SMT DEF start_slot
  <1>2. IsFiniteSet(slots_of(e))
    BY <1>1, FS_Interval DEF slots_of
  <1>3. IsFiniteSet(A)
    BY <1>2, FS_Subset
  <1>4. IsFiniteSet(B) /\ Cardinality(B) <= Cardinality(A)
    BY <1>3, FS_Subset
  <1>. QED
    BY <1>3, <1>4, FS_CardinalityType

\* Two slots of one epoch have entries of their own.
LEMMA OwnIndex ==
    ASSUME Clock, NEW e \in Nat, NEW s \in slots_of(e), NEW x \in slots_of(e), s # x
    PROVE  s % Size # x % Size
  <1>0. Size \in Nat \ {0} /\ Size > SLOTS_PER_EPOCH /\ SLOTS_PER_EPOCH \in Nat
    BY SizeOfRing, ClockFacts DEF Clock
  <1>1. s \in Nat /\ x \in Nat /\ x < s + SLOTS_PER_EPOCH /\ s < x + SLOTS_PER_EPOCH
    BY OneEpoch
  <1>2. SUFFICES ASSUME s % Size = x % Size PROVE FALSE
    OBVIOUS
  <1>3. CASE s < x
    <2>1. x >= s + Size
      BY <1>0, <1>1, <1>2, <1>3, FarApart
    <2>. QED
      BY <2>1, <1>0, <1>1
  <1>4. CASE x < s
    <2>1. s >= x + Size
      BY <1>0, <1>1, <1>2, <1>4, FarApart
    <2>. QED
      BY <2>1, <1>0, <1>1
  <1>. QED
    BY <1>1, <1>3, <1>4

\* Recording a message of a slot keeps the bound of every epoch.
LEMMA BoundedAfter ==
    ASSUME Clock, NEW op, IsOperatorState(op), NEW new,
           NEW slot \in Nat, InTime(slot), DiffersAt(op, new, slot),
           NEW e \in Nat, NEW limit \in Nat,
           NEW A \in SUBSET slots_of(e), NEW B \in SUBSET slots_of(e),
           B \subseteq A \cup {slot}, Bounded(op, e, A, limit),
           ~has_signer_state(op, slot) /\ slot \in slots_of(e) =>
              Cardinality(RingSlots(op, e)) < limit
    PROVE  Bounded(new, e, B, limit)
  <1>. DEFINE R == RingSlots(op, e)
              R2 == RingSlots(new, e)
  <1>1. R \subseteq slots_of(e) /\ R2 \subseteq slots_of(e) /\ slots_of(e) \subseteq Nat
    BY EpochOfSlot DEF RingSlots
  <1>2. IsFiniteSet(R) /\ Cardinality(R) \in Nat /\ IsFiniteSet(A) /\ Cardinality(A) \in Nat
        /\ Cardinality(B) \in Nat
    BY <1>1, EpochFinite
  <1>3. CASE slot \in slots_of(e)
    <2>1. ~Late(slot)
      BY InTimeFacts
    <2>2. A \subseteq R /\ Cardinality(R) <= limit
      BY <1>3, <2>1 DEF Bounded
    <2>3. R2 = R \cup {slot}
      <3>1. \A x \in slots_of(e) : x # slot =>
               (has_signer_state(new, x) <=> has_signer_state(op, x))
        BY <1>1, <1>3, OwnIndex DEF DiffersAt
      <3>2. has_signer_state(new, slot)
        BY DEF DiffersAt
      <3>. QED
        BY <1>3, <3>1, <3>2 DEF RingSlots
    <2>4. Cardinality(R \cup {slot}) = IF slot \in R THEN Cardinality(R) ELSE Cardinality(R) + 1
      BY <1>2, FS_AddElement
    <2>5. slot \notin R => Cardinality(R) < limit
      BY <1>3 DEF RingSlots
    <2>6. Cardinality(R2) <= limit
      <3>. HIDE DEF R, R2
      <3>. QED
        BY <1>2, <2>2, <2>3, <2>4, <2>5
    <2>7. B \subseteq R2
      BY <2>2, <2>3
    <2>. QED
      BY <2>6, <2>7 DEF Bounded
  <1>4. CASE slot \notin slots_of(e)
    <2>1. B \subseteq A
      BY <1>4
    <2>2. Cardinality(B) <= Cardinality(A)
      BY <2>1, EpochFinite
    <2>3. CASE (\A s \in slots_of(e) : Late(s)) /\ Cardinality(A) <= limit
      <3>1. Cardinality(B) <= limit
        BY <1>2, <2>2, <2>3
      <3>. QED
        BY <2>3, <3>1 DEF Bounded
    <2>4. CASE A \subseteq R /\ Cardinality(R) <= limit
      <3>1. CASE \E x \in R : x % Size = slot % Size
        <4>1. PICK x \in R : x % Size = slot % Size
          BY <3>1
        <4>2. /\ x \in Nat /\ x # slot /\ has_signer_state(op, x)
              /\ x \in slots_of(e) /\ epoch_of(x) = e
          BY <1>1, <1>4, EpochOfSlot DEF RingSlots
        <4>3. \A s \in slots_of(e) : Late(s)
          BY <4>1, <4>2, OverwrittenEntry
        <4>4. Cardinality(A) <= Cardinality(R)
          BY <1>1, <2>4, EpochFinite
        <4>5. Cardinality(B) <= limit
          <5>. HIDE DEF R
          <5>. QED
            BY <1>2, <2>2, <2>4, <4>4
        <4>. QED
          BY <4>3, <4>5 DEF Bounded
      <3>2. CASE ~\E x \in R : x % Size = slot % Size
        <4>1. ASSUME NEW x \in slots_of(e)
              PROVE  has_signer_state(new, x) <=> has_signer_state(op, x)
          <5>1. x \in Nat /\ x # slot
            BY <1>1, <1>4
          <5>2. CASE x % Size # slot % Size
            BY <5>1, <5>2 DEF DiffersAt
          <5>3. CASE x % Size = slot % Size
            BY <3>2, <5>1, <5>3 DEF DiffersAt, RingSlots
          <5>. QED
            BY <5>2, <5>3
        <4>2. R2 = R
          BY <4>1 DEF RingSlots
        <4>. QED
          BY <2>1, <2>4, <4>2 DEF Bounded
      <3>. QED
        BY <3>1, <3>2
    <2>. QED
      BY <2>3, <2>4 DEF Bounded
  <1>. QED
    BY <1>3, <1>4

---------------------------------------------------------------------------
(* The parts of the invariant over a step of the clock.                    *)

LEMMA KeptOverTime ==
    ASSUME Clock, Passes, NEW op, NEW a, a.slot \in Nat, Kept(op, a)
    PROVE  Kept(op, a)'
  <1>1. PICK x \in Nat : x = a.slot
    OBVIOUS
  <1>2. Late(x) => Late(x)'
    BY WindowsPersist
  <1>. QED
    BY <1>1, <1>2 DEF Kept, Late

LEMMA BoundedOverTime ==
    ASSUME Clock, Passes, NEW op, NEW e \in Nat, NEW A \in SUBSET slots_of(e),
           NEW limit \in Nat, NEW limit2 \in Nat, limit <= limit2, Bounded(op, e, A, limit)
    PROVE  Bounded(op, e, A, limit2)'
  <1>1. RingSlots(op, e) \subseteq slots_of(e)
    BY DEF RingSlots
  <1>2. Cardinality(RingSlots(op, e)) \in Nat /\ Cardinality(A) \in Nat
    BY <1>1, EpochFinite
  <1>3. CASE A \subseteq RingSlots(op, e) /\ Cardinality(RingSlots(op, e)) <= limit
    <2>1. Cardinality(RingSlots(op, e)) <= limit2
      BY <1>2, <1>3
    <2>. QED
      BY <1>3, <2>1 DEF Bounded
  <1>4. CASE (\A s \in slots_of(e) : Late(s)) /\ Cardinality(A) <= limit
    <2>1. Cardinality(A) <= limit2
      BY <1>2, <1>4
    <2>2. ASSUME NEW s \in slots_of(e) PROVE Late(s)'
      BY <1>4, EpochOfSlot, WindowsPersist
    <2>. QED
      BY <2>1, <2>2 DEF Bounded
  <1>. QED
    BY <1>3, <1>4 DEF Bounded

LEMMA TransferKept ==
    ASSUME role' = role, NEW o, NEW op, op = operators'[o],
           NEW j, NEW a, a = message(j), Kept(op, a)'
    PROVE  Kept(operators[o], message(j))'
  BY DEF Kept, Late, message, slot_start_time, ttl

LEMMA TransferBounded ==
    ASSUME NEW o, NEW e, NEW op, op = operators'[o], NEW A, A = AcceptedSlots(o, e)',
           NEW limit, limit = current_limit(0)', Bounded(op, e, A, limit)'
    PROVE  Bounded(operators[o], e, AcceptedSlots(o, e), current_limit(0))'
  BY DEF Bounded, RingSlots

\* The duty limit of a role that is counted is one for all slots, and never
\* falls while the node learns of validators.
LEMMA IndicesFacts ==
    ASSUME Types
    PROVE  /\ validator_indices \subseteq Validators[role] \cup {1}
           /\ IsFiniteSet(validator_indices) /\ validator_count \in Nat
           /\ validator_indices = {} => validator_count = 0
  <1>1. /\ IsFiniteSet(Validators[role]) /\ 1 \in Validators[role]
        /\ view.indices \subseteq Validators[role]
    BY ValidatorAssumption DEF Types
  <1>2. validator_indices \subseteq Validators[role]
    BY <1>1 DEF validator_indices
  <1>3. IsFiniteSet(validator_indices)
    BY <1>1, <1>2, FS_Subset
  <1>4. Cardinality({}) = 0
    BY FS_EmptySet
  <1>. QED
    BY <1>2, <1>3, <1>4, FS_CardinalityType DEF validator_count

\* What is known of the indices stays known.
LEMMA IndicesGrow ==
    ASSUME Types, Types', role' = role, view.indices \subseteq view'.indices
    PROVE  /\ validator_indices \subseteq validator_indices'
           /\ validator_count <= validator_count' /\ validator_count' \in Nat
           /\ indexed => indexed'
  <1>1. validator_indices \subseteq validator_indices'
    BY DEF validator_indices
  <1>2. IsFiniteSet(validator_indices')
    <2>1. /\ IsFiniteSet(Validators[role]) /\ 1 \in Validators[role]
          /\ view'.indices \subseteq Validators[role]
      BY ValidatorAssumption DEF Types
    <2>2. validator_indices' \subseteq Validators[role]
      BY <2>1 DEF validator_indices
    <2>. QED
      BY <2>1, <2>2, FS_Subset
  <1>3. Cardinality(validator_indices) <= Cardinality(validator_indices')
    BY <1>1, <1>2, FS_Subset
  <1>4. Cardinality(validator_indices') \in Nat
    BY <1>2, FS_CardinalityType
  <1>. QED
    BY <1>1, <1>3, <1>4 DEF validator_count, indexed

\* The limit of the committee roles: a number of duties from the indices.
CommitteeLimit(indices, count) ==
    IF \/ /\ count < SLOTS_PER_EPOCH \div 2
          /\ indices \cap SyncValidators # {}
       \/ 2 * count > SLOTS_PER_EPOCH
    THEN SLOTS_PER_EPOCH ELSE 2 * count

LEMMA CommitteeLimitIs ==
    ASSUME NEW r, is_committee_role(r), NEW indices, NEW slot
    PROVE  duty_limit(r, indices, slot) = CommitteeLimit(indices, Cardinality(indices))
  <1>1. r \notin {"Aggregator", "ValidatorRegistration", "PTCAttester", "VoluntaryExit",
                  "ProposerPreferences"}
    BY DEF is_committee_role
  <1>. QED
    BY <1>1 DEF duty_limit, CommitteeLimit

\* More indices never make it fall, for epochs of an even length.
LEMMA CommitteeLimitGrows ==
    ASSUME NEW I, NEW J, I \subseteq J, NEW v \in Nat, NEW w \in Nat, v <= w
    PROVE  /\ CommitteeLimit(I, v) \in Nat
           /\ CommitteeLimit(I, v) <= CommitteeLimit(J, w)
  <1>1. PICK E \in Nat, h \in Nat : E = SLOTS_PER_EPOCH /\ h = E \div 2 /\ E = 2 * h
    <2>1. SLOTS_PER_EPOCH \in Nat /\ SLOTS_PER_EPOCH % 2 = 0
      BY DutyStateAssumption
    <2>. QED
      BY <2>1
  <1>2. I \cap SyncValidators # {} => J \cap SyncValidators # {}
    OBVIOUS
  <1>3. PICK x \in BOOLEAN, y \in BOOLEAN :
           /\ x = (I \cap SyncValidators # {}) /\ y = (J \cap SyncValidators # {})
           /\ x => y
    BY <1>2
  <1>4. /\ CommitteeLimit(I, v) = IF (v < h /\ x) \/ 2 * v > E THEN E ELSE 2 * v
        /\ CommitteeLimit(J, w) = IF (w < h /\ y) \/ 2 * w > E THEN E ELSE 2 * w
    BY <1>1, <1>3 DEF CommitteeLimit
  <1>. QED
    BY <1>1, <1>3, <1>4

LEMMA LimitFacts ==
    ASSUME Types, Counted
    PROVE  /\ current_limit(0) \in Nat
           /\ \A slot \in Nat : current_limit(slot) = current_limit(0)
  <1>1. validator_count \in Nat
    BY IndicesFacts
  <1>2. role \in Roles /\ role # "VoluntaryExit"
    BY ValidatorAssumption DEF Types, Counted
  <1>3. CASE role \in {"Aggregator", "ValidatorRegistration", "PTCAttester"}
    BY <1>3 DEF current_limit, duty_limit, is_committee_role
  <1>4. CASE is_committee_role(role)
    <2>1. \A slot : current_limit(slot) = CommitteeLimit(validator_indices, validator_count)
      BY <1>4, CommitteeLimitIs DEF current_limit, validator_count
    <2>. QED
      BY <1>1, <2>1, CommitteeLimitGrows
  <1>5. CASE role = "ProposerPreferences"
    BY <1>5, ClockFacts DEF current_limit, duty_limit, is_committee_role
  <1>6. CASE role \in {"Proposer", "SyncCommittee"}
    BY <1>6 DEF Counted, current_limit, duty_limit, is_committee_role, NoLimit
  <1>. QED
    BY <1>2, <1>3, <1>4, <1>5, <1>6 DEF Roles, is_committee_role

LEMMA LimitIsNat == Types /\ Counted => current_limit(0) \in Nat
  BY LimitFacts

LEMMA LimitGrows ==
    ASSUME Types, Types', role' = role, view.indices \subseteq view'.indices, Counted'
    PROVE  Counted /\ current_limit(0) <= current_limit(0)'
  <1>1. role \in Roles /\ role # "VoluntaryExit"
    BY ValidatorAssumption DEF Types, Counted
  <1>2. CASE is_committee_role(role)
    <2>1. /\ validator_count \in Nat /\ validator_count' \in Nat
          /\ validator_count <= validator_count'
          /\ validator_indices \subseteq validator_indices'
      <3>1. validator_count \in Nat
        BY IndicesFacts
      <3>. QED
        BY <3>1, IndicesGrow
    <2>2. /\ current_limit(0) = CommitteeLimit(validator_indices, validator_count)
          /\ current_limit(0)' = CommitteeLimit(validator_indices', validator_count')
      BY <1>2, CommitteeLimitIs DEF current_limit, validator_count
    <2>3. current_limit(0) \in Nat /\ current_limit(0) <= current_limit(0)'
      BY <2>1, <2>2, CommitteeLimitGrows
    <2>. QED
      BY <1>1, <2>3 DEF Counted, NoLimit
  <1>3. CASE role \in {"Aggregator", "ValidatorRegistration", "PTCAttester"}
    BY <1>3 DEF current_limit, duty_limit, is_committee_role, Counted, NoLimit
  <1>4. CASE role = "ProposerPreferences"
    BY <1>4, ClockFacts DEF current_limit, duty_limit, is_committee_role, Counted, NoLimit
  <1>5. CASE role \in {"Proposer", "SyncCommittee"}
    BY <1>5 DEF Counted, current_limit, duty_limit, is_committee_role, NoLimit
  <1>. QED
    BY <1>1, <1>2, <1>3, <1>4, <1>5 DEF Roles, is_committee_role

---------------------------------------------------------------------------
(* Types.                                                                  *)

LEMMA TypesInit == Init => Types
  <1>1. SUFFICES ASSUME Init PROVE Types
    OBVIOUS
  <1>2. role \in Scenarios /\ now = 0 /\ view \in InitialViews[role]
        /\ accepted = [i \in DOMAIN Traffic[role] |-> 0]
    BY <1>1 DEF Init
  <1>3. MaxTime[role] \in Nat /\ MaxAccepted \in Nat
    BY <1>2, TrafficAssumption, ValidatorAssumption
  <1>4. view \in [registered : BOOLEAN, indices : SUBSET Validators[role],
                  fetched : SUBSET Nat, local : SUBSET Nat]
    BY <1>2, TrafficAssumption
  <1>5. next_clean \in Nat
    <2>1. SLOTS_PER_EPOCH * TicksPerSlot \in Nat
      BY ClockFacts, SMT
    <2>2. (TicksPerSlot * 5) \div 6 \in Nat
      BY ClockFacts, SMT
    <2>. QED
      BY <1>1, <2>1, <2>2 DEF Init, slot_start_time
  <1>. QED
    BY <1>2, <1>3, <1>4, <1>5 DEF Types

LEMMA CurrentFacts ==
    ASSUME Clock
    PROVE  current_slot \in Nat /\ epoch_of(current_slot) \in Nat
  <1>1. current_slot \in Nat
    BY ClockFacts, SMT DEF current_slot, Clock
  <1>. QED
    BY <1>1, SlotsOfEpoch

LEMMA TypesStep == Types /\ [Next]_vars => Types'
  <1>. SUFFICES ASSUME Types, [Next]_vars PROVE Types'
    OBVIOUS
  <1>0. Clock /\ role \in Scenarios /\ MaxTime[role] \in Nat /\ MaxAccepted \in Nat
    BY ClockOfTypes, TrafficAssumption, ValidatorAssumption DEF Types
  <1>1. ASSUME NEW i \in DOMAIN accepted, Validate(i) PROVE Types'
    <2>1. UNCHANGED <<role, now, view, next_clean>>
      BY <1>1 DEF Validate
    <2>2. accepted[i] < MaxAccepted
          /\ accepted' \in {accepted, [accepted EXCEPT ![i] = accepted[i] + 1]}
      BY <1>1 DEF Validate
    <2>3. accepted[i] + 1 \in 0..MaxAccepted
      BY <1>0, <2>2 DEF Types
    <2>. QED
      BY <2>1, <2>2, <2>3 DEF Types
  <1>2. CASE Clean
    <2>1. next_clean' \in Nat
      <3>1. PICK e \in Nat : e = epoch_of(current_slot)
        BY <1>0, CurrentFacts
      <3>2. (e + 1) * SLOTS_PER_EPOCH \in Nat
        BY ClockFacts, SMT
      <3>3. ((e + 1) * SLOTS_PER_EPOCH) * TicksPerSlot \in Nat
        BY <3>2, ClockFacts, SMT
      <3>4. (TicksPerSlot * 5) \div 6 \in Nat
        BY ClockFacts, SMT
      <3>. QED
        BY <1>2, <3>1, <3>3, <3>4 DEF Clean, slot_start_time, start_slot
    <2>. QED
      BY <1>2, <2>1 DEF Clean, Types
  <1>3. CASE Tick
    <2>1. now' \in 0..MaxTime[role]
      BY <1>0, <1>3 DEF Tick, Types
    <2>. QED
      BY <1>3, <2>1 DEF Tick, Types
  <1>4. CASE LearnRegistry
    BY <1>4 DEF LearnRegistry, Types
  <1>5. CASE PollDuties
    <2>1. PICK e \in Nat : e = epoch_of(current_slot)
      BY <1>0, CurrentFacts
    <2>2. {x \in view.fetched \cup {e, e + 1} : x + 2 >= e} \in SUBSET Nat
      BY DEF Types
    <2>3. view' = [view EXCEPT !.fetched = {x \in view.fetched \cup {e, e + 1} : x + 2 >= e}]
      BY <1>5, <2>1 DEF PollDuties
    <2>. QED
      BY <1>5, <2>2, <2>3 DEF PollDuties, Types
  <1>6. CASE UNCHANGED vars
    BY <1>6 DEF vars, Types
  <1>. QED
    BY <1>1, <1>2, <1>3, <1>4, <1>5, <1>6 DEF Next

---------------------------------------------------------------------------
(* Steps that neither accept a message nor change the ring.                *)

Quiet ==
    /\ Passes
    /\ UNCHANGED <<operators, accepted>>
    /\ view.indices \subseteq view'.indices

LEMMA AcceptedSlotsFacts ==
    ASSUME NEW o, NEW e
    PROVE  AcceptedSlots(o, e) \subseteq slots_of(e)
  BY DEF AcceptedSlots

LEMMA QuietRing ==
    ASSUME Types, RingInv, Quiet
    PROVE  RingInv'
  <1>1. Clock /\ Passes /\ operators' = operators
    BY ClockOfTypes DEF Quiet
  <1>2. ASSUME NEW o \in Committee PROVE IsOperatorState(operators[o])'
    <2>1. PICK op : op = operators[o]
      OBVIOUS
    <2>2. IsOperatorState(op)'
      BY <1>1, <2>1, RingPersists DEF RingInv
    <2>. QED
      BY <1>1, <2>1, <2>2, Transfer
  <1>. QED
    BY <1>1, <1>2 DEF RingInv

LEMMA QuietHeard ==
    ASSUME Types, HeardInv, Quiet
    PROVE  HeardInv'
  <1>1. Clock /\ Passes /\ role' = role /\ operators' = operators /\ accepted' = accepted
    BY ClockOfTypes DEF Quiet, Passes
  <1>2. ASSUME NEW i \in DOMAIN accepted, accepted[i] > 0, Limited(message(i)),
               NEW o \in message(i).signers
        PROVE  Kept(operators[o], message(i))'
    <2>1. PICK op, a : op = operators[o] /\ a = message(i)
      OBVIOUS
    <2>2. Kept(op, a) /\ a.slot \in Nat
      BY <1>2, <2>1, MessageFacts DEF HeardInv
    <2>3. Kept(op, a)'
      BY <1>1, <2>2, KeptOverTime
    <2>. QED
      BY <1>1, <2>1, <2>3, TransferKept
  <1>3. \A i : message(i)' = message(i)
    BY <1>1 DEF message
  <1>4. \A i : Limited(message(i))' <=> Limited(message(i))
    BY <1>1 DEF message, Limited
  <1>5. HeardOnce'
    BY <1>1 DEF HeardInv, HeardOnce, Limited, message
  <1>. QED
    BY <1>1, <1>2, <1>3, <1>4, <1>5 DEF HeardInv

LEMMA QuietDuty ==
    ASSUME Types, Types', DutyInv, Quiet
    PROVE  DutyInv'
  <1>1. Clock /\ Passes /\ role' = role /\ operators' = operators /\ accepted' = accepted
    BY ClockOfTypes DEF Quiet, Passes
  <1>2. SUFFICES ASSUME Counted', NEW o \in Committee, NEW e \in Nat
                 PROVE  Bounded(operators[o], e, AcceptedSlots(o, e), current_limit(0))'
    BY DEF DutyInv
  <1>3. Counted /\ current_limit(0) <= current_limit(0)'
    BY <1>1, <1>2, LimitGrows DEF Quiet
  <1>4. current_limit(0) \in Nat
    BY <1>3, LimitFacts
  <1>5. current_limit(0)' \in Nat
    <2>1. (Types /\ Counted => current_limit(0) \in Nat)'
      BY LimitIsNat, PTL
    <2>. QED
      BY <1>2, <2>1
  <1>6. PICK op, A : op = operators[o] /\ A = AcceptedSlots(o, e)
    OBVIOUS
  <1>7. PICK k \in Nat, l \in Nat : k = current_limit(0) /\ l = current_limit(0)'
    BY <1>4, <1>5
  <1>8. Bounded(op, e, A, k) /\ A \subseteq slots_of(e)
    BY <1>3, <1>6, <1>7, AcceptedSlotsFacts DEF DutyInv
  <1>9. Bounded(op, e, A, l)'
    BY <1>1, <1>3, <1>7, <1>8, BoundedOverTime
  <1>10. AcceptedSlots(o, e)' = A
    BY <1>1, <1>6 DEF AcceptedSlots, AcceptedFrom, message
  <1>. QED
    BY <1>1, <1>6, <1>7, <1>9, <1>10, TransferBounded

---------------------------------------------------------------------------
(* A message is validated.                                                 *)

\* A message that fails the checks changes nothing.
LEMMA ValidateFails ==
    ASSUME NEW i \in DOMAIN accepted, Validate(i), check_failure(message(i)) # "none"
    PROVE  UNCHANGED vars
  <1>1. operators' = operators
    BY DEF Validate
  <1>2. ~Accepts(message(i))
    BY DEF Accepts, validation_failure
  <1>3. accepted' = accepted /\ UNCHANGED <<role, now, view, next_clean>>
    BY <1>2 DEF Validate
  <1>. QED
    BY <1>1, <1>3 DEF vars

\* A message that passes them is recorded.
LEMMA ValidatePasses ==
    ASSUME Types, RingInv, NEW i \in DOMAIN accepted, Validate(i),
           check_failure(message(i)) = "none",
           NEW m, m = message(i), NEW ops, ops = operators'
    PROVE  /\ Clock /\ Passes /\ UNCHANGED <<role, now, view>>
           /\ m.slot \in Nat /\ m.round \in Nat /\ Admitted(m)
           /\ DOMAIN ops = Committee
           /\ \A o \in Committee : o \notin m.signers => ops[o] = operators[o]
           /\ \A o \in m.signers :
                 /\ IsOperatorState(ops[o])
                 /\ DiffersAt(operators[o], ops[o], m.slot)
                 /\ Advanced(m, operators[o], ops[o])
                 /\ Limited(m) /\ Accepts(m) => Remembered(get_signer_state(ops[o], m.slot), m)
           /\ accepted' = IF Accepts(m) THEN [accepted EXCEPT ![i] = accepted[i] + 1]
                          ELSE accepted
  <1>1. /\ Clock /\ m.slot \in Nat /\ m.round \in Nat
        /\ m.kind \in {"Consensus", "Partial"}
    BY MessageFacts
  <1>2. Admitted(m)
    BY <1>1, CheckFacts
  <1>3. UNCHANGED <<role, now, view>>
        /\ accepted' = IF Accepts(m) THEN [accepted EXCEPT ![i] = accepted[i] + 1] ELSE accepted
    BY DEF Validate
  <1>4. ops = After(m)
    BY <1>1 DEF Validate, After
  <1>5. /\ DOMAIN ops = Committee
        /\ \A o \in Committee : o \notin m.signers => ops[o] = operators[o]
        /\ \A o \in m.signers :
              /\ IsOperatorState(ops[o])
              /\ DiffersAt(operators[o], ops[o], m.slot)
              /\ Advanced(m, operators[o], ops[o])
              /\ Limited(m) /\ Accepts(m) /\ check_failure(m) = "none" =>
                    Remembered(get_signer_state(ops[o], m.slot), m)
    BY <1>1, <1>2, <1>4, AfterFacts
  <1>6. Passes
    BY <1>3 DEF Passes
  <1>. QED
    BY <1>1, <1>2, <1>3, <1>5, <1>6

LEMMA ValidateRing ==
    ASSUME Types, RingInv, NEW i \in DOMAIN accepted, Validate(i),
           check_failure(message(i)) = "none"
    PROVE  RingInv'
  <1>1. PICK m, ops : m = message(i) /\ ops = operators'
    OBVIOUS
  <1>2. /\ Clock /\ Passes /\ DOMAIN ops = Committee /\ m.signers \subseteq Committee
        /\ \A o \in Committee : o \notin m.signers => ops[o] = operators[o]
        /\ \A o \in m.signers : IsOperatorState(ops[o])
    BY <1>1, ValidatePasses DEF Admitted
  <1>3. ASSUME NEW o \in Committee PROVE IsOperatorState(operators[o])'
    <2>1. PICK op : op = ops[o]
      OBVIOUS
    <2>2. IsOperatorState(op)
      BY <1>2, <2>1 DEF RingInv
    <2>3. IsOperatorState(op)'
      BY <1>2, <2>2, RingPersists
    <2>. QED
      BY <1>1, <2>1, <2>3, Transfer
  <1>. QED
    BY <1>1, <1>2, <1>3 DEF RingInv

LEMMA ValidateHeard ==
    ASSUME Types, RingInv, HeardInv, NEW i \in DOMAIN accepted, Validate(i),
           check_failure(message(i)) = "none"
    PROVE  HeardInv'
  <1>1. PICK m, ops : m = message(i) /\ ops = operators'
    OBVIOUS
  <1>2. /\ Clock /\ Passes /\ UNCHANGED <<role, now, view>>
        /\ m.slot \in Nat /\ m.round \in Nat /\ Admitted(m)
        /\ DOMAIN ops = Committee
        /\ \A o \in Committee : o \notin m.signers => ops[o] = operators[o]
        /\ \A o \in m.signers :
              /\ IsOperatorState(ops[o])
              /\ DiffersAt(operators[o], ops[o], m.slot)
              /\ Advanced(m, operators[o], ops[o])
              /\ Limited(m) /\ Accepts(m) => Remembered(get_signer_state(ops[o], m.slot), m)
        /\ accepted' = IF Accepts(m) THEN [accepted EXCEPT ![i] = accepted[i] + 1]
                       ELSE accepted
    BY <1>1, ValidatePasses
  <1>3. /\ m.signers \subseteq Committee /\ InTime(m.slot) /\ ~Late(m.slot)
        /\ m.kind = "Consensus" => is_qbft_role(role)
    BY <1>2, InTimeFacts DEF Admitted
  <1>4. /\ DOMAIN accepted' = DOMAIN accepted
        /\ \A j \in DOMAIN accepted : accepted'[j] > 0 =>
              accepted[j] > 0 \/ (j = i /\ Accepts(m))
        /\ \A j \in DOMAIN accepted : j # i => accepted'[j] = accepted[j]
    BY <1>2
  \* What was accepted is remembered.
  <1>5. ASSUME NEW j \in DOMAIN accepted, accepted'[j] > 0
        PROVE  /\ message(j).signers \subseteq Committee
               /\ message(j).kind = "Consensus" => is_qbft_role(role)
               /\ Limited(message(j)) =>
                     \A o \in message(j).signers : Kept(ops[o], message(j))
    <2>1. PICK a : a = message(j)
      OBVIOUS
    <2>2. a.slot \in Nat /\ a.round \in Nat
      BY <2>1, MessageFacts
    <2>3. a.signers \subseteq Committee /\ (a.kind = "Consensus" => is_qbft_role(role))
      BY <1>1, <1>3, <1>4, <1>5, <2>1 DEF HeardInv
    <2>4. ASSUME Limited(a), NEW o \in a.signers PROVE Kept(ops[o], a)
      <3>1. CASE accepted[j] > 0
        <4>1. Kept(operators[o], a)
          BY <2>1, <2>4, <3>1 DEF HeardInv
        <4>2. CASE o \notin m.signers
          BY <1>2, <2>3, <2>4, <4>1, <4>2
        <4>3. CASE o \in m.signers
          <5>1. a.kind # "Consensus" => m.kind # "Consensus"
            BY <1>3, <2>4 DEF Limited
          <5>2. IsOperatorState(operators[o]) /\ IsOperatorState(ops[o])
                /\ DiffersAt(operators[o], ops[o], m.slot) /\ Advanced(m, operators[o], ops[o])
            BY <1>2, <1>3, <4>3 DEF RingInv
          <5>. QED
            BY <1>2, <1>3, <2>2, <4>1, <5>1, <5>2, KeptPersists
        <4>. QED
          BY <4>2, <4>3
      <3>2. CASE ~(accepted[j] > 0)
        <4>1. j = i /\ Accepts(m) /\ a = m
          BY <1>1, <1>4, <1>5, <2>1, <3>2
        <4>2. Remembered(get_signer_state(ops[o], m.slot), m) /\ has_signer_state(ops[o], m.slot)
          BY <1>2, <2>4, <4>1 DEF DiffersAt
        <4>. QED
          BY <4>1, <4>2 DEF Kept
      <3>. QED
        BY <3>1, <3>2
    <2>. QED
      BY <2>1, <2>3, <2>4
  \* A message like one that was accepted before is not accepted.
  <1>6. ASSUME Accepts(m), Limited(m), NEW j \in DOMAIN accepted, accepted[j] > 0,
               Limited(message(j)),
               message(j).signers = m.signers, message(j).type = m.type,
               message(j).slot = m.slot, message(j).round = m.round
        PROVE  FALSE
    <2>1. PICK a : a = message(j)
      OBVIOUS
    <2>2. PICK o \in m.signers : TRUE
      BY <1>2 DEF Admitted
    <2>3. Kept(operators[o], a) /\ (a.kind = "Consensus" => is_qbft_role(role))
      BY <1>6, <2>1 DEF HeardInv
    <2>4. has_signer_state(operators[o], m.slot)
          /\ Remembered(get_signer_state(operators[o], m.slot), a)
      BY <1>3, <1>6, <2>1, <2>3 DEF Kept
    <2>5. a.kind \in {"Consensus", "Partial"} /\ m.kind \in {"Consensus", "Partial"}
      BY <1>1, <2>1, MessageFacts
    <2>6. a.kind = m.kind
      BY <1>3, <1>6, <2>1, <2>3, <2>5 DEF Limited
    <2>7. CountersOf(a) = CountersOf(m) /\ CountersOf(m) # {} /\ Cardinality(m.signers) = 1
      BY <1>6, <2>1 DEF CountersOf, Limited
    <2>8. PICK s : s = get_signer_state(operators[o], m.slot)
      OBVIOUS
    <2>9. IsSignerState(s)
      BY <1>2, <1>3, <2>4, <2>8, HasFacts DEF RingInv
    <2>10. s.round \in Nat
           /\ \A c \in CountersOf(m) : s.message_counts[c] \in 0..MAX_MESSAGES_PER_ROUND
      BY <2>9, CountersFacts DEF IsSignerState
    <2>11. CASE m.kind = "Consensus"
      <3>1. ~(m.round < s.round) /\ ~(m.round = s.round /\ OverLimits(s.message_counts, m))
        BY <1>2, <2>4, <2>7, <2>8, <2>11 DEF Admitted
      <3>2. ~(s.round > a.round)
        BY <1>2, <1>6, <2>1, <2>10, <3>1
      <3>3. s.round = a.round
            /\ \A c \in CountersOf(m) : s.message_counts[c] >= MAX_MESSAGES_PER_ROUND
        BY <2>4, <2>6, <2>7, <2>8, <2>11, <3>2 DEF Remembered
      <3>. QED
        BY <1>6, <2>1, <2>7, <3>1, <3>3 DEF OverLimits
    <2>12. CASE m.kind = "Partial"
      <3>1. ~OverLimits(s.message_counts, m)
        BY <1>2, <2>4, <2>8, <2>12 DEF Admitted
      <3>2. \A c \in CountersOf(m) : s.message_counts[c] >= MAX_MESSAGES_PER_ROUND
        BY <2>4, <2>6, <2>7, <2>8, <2>12 DEF Remembered
      <3>. QED
        BY <2>7, <3>1, <3>2 DEF OverLimits
    <2>. QED
      BY <2>5, <2>11, <2>12
  <1>7. \A j : message(j)' = message(j) /\ (Limited(message(j))' <=> Limited(message(j)))
    BY <1>2 DEF message, Limited
  <1>8. ASSUME NEW j \in DOMAIN accepted, accepted'[j] > 0, Limited(message(j)),
               NEW k \in DOMAIN accepted, accepted'[k] > 0, Limited(message(k)),
               message(j).signers = message(k).signers, message(j).type = message(k).type,
               message(j).slot = message(k).slot, message(j).round = message(k).round
        PROVE  j = k /\ accepted'[j] = 1
    <2>1. CASE accepted[j] > 0 /\ accepted[k] > 0
      <3>1. j = k /\ accepted[j] = 1
        BY <1>8, <2>1 DEF HeardInv, HeardOnce
      <3>2. ~(j = i /\ Accepts(m))
        BY <1>1, <1>6, <1>8, <2>1
      <3>. QED
        BY <1>2, <1>4, <3>1, <3>2
    <2>2. CASE ~(accepted[j] > 0) /\ accepted[k] > 0
      BY <1>1, <1>4, <1>6, <1>8, <2>2
    <2>3. CASE accepted[j] > 0 /\ ~(accepted[k] > 0)
      BY <1>1, <1>4, <1>6, <1>8, <2>3
    <2>4. CASE ~(accepted[j] > 0) /\ ~(accepted[k] > 0)
      <3>1. j = i /\ k = i /\ Accepts(m)
        BY <1>4, <1>8, <2>4
      <3>2. accepted[i] \in Nat /\ accepted'[i] = accepted[i] + 1
        BY <1>2, <3>1, MessageFacts DEF Types
      <3>. QED
        BY <2>4, <3>1, <3>2
    <2>. QED
      BY <2>1, <2>2, <2>3, <2>4
  <1>9. HeardOnce'
    BY <1>4, <1>7, <1>8 DEF HeardOnce
  <1>10. ASSUME NEW j \in DOMAIN accepted, accepted'[j] > 0, Limited(message(j)),
                NEW o \in message(j).signers
         PROVE  Kept(operators[o], message(j))'
    <2>1. PICK op, a : op = ops[o] /\ a = message(j)
      OBVIOUS
    <2>2. Kept(op, a) /\ a.slot \in Nat
      BY <1>5, <1>10, <2>1, MessageFacts
    <2>3. Kept(op, a)'
      BY <1>2, <2>2, KeptOverTime
    <2>. QED
      BY <1>1, <1>2, <2>1, <2>3, TransferKept
  <1>. QED
    BY <1>2, <1>4, <1>5, <1>7, <1>9, <1>10 DEF HeardInv

LEMMA ValidateDuty ==
    ASSUME Types, Types', RingInv, DutyInv, NEW i \in DOMAIN accepted, Validate(i),
           check_failure(message(i)) = "none"
    PROVE  DutyInv'
  <1>1. PICK m, ops : m = message(i) /\ ops = operators'
    OBVIOUS
  <1>2. /\ Clock /\ Passes /\ UNCHANGED <<role, now, view>>
        /\ m.slot \in Nat /\ Admitted(m)
        /\ \A o \in Committee : o \notin m.signers => ops[o] = operators[o]
        /\ \A o \in m.signers :
              /\ IsOperatorState(ops[o])
              /\ DiffersAt(operators[o], ops[o], m.slot)
        /\ accepted' = IF Accepts(m) THEN [accepted EXCEPT ![i] = accepted[i] + 1]
                       ELSE accepted
    BY <1>1, ValidatePasses
  <1>3. /\ m.signers \subseteq Committee /\ InTime(m.slot)
        /\ \A o \in m.signers : ~validate_duty_count(o, m.slot)
    BY <1>2 DEF Admitted
  <1>4. SUFFICES ASSUME Counted', NEW o \in Committee, NEW e \in Nat
                 PROVE  Bounded(operators[o], e, AcceptedSlots(o, e), current_limit(0))'
    BY DEF DutyInv
  <1>5. Counted /\ current_limit(0)' = current_limit(0)
    BY <1>2, <1>4, LimitGrows DEF current_limit, duty_limit, validator_indices
  <1>6. PICK limit \in Nat : limit = current_limit(0) /\ \A s \in Nat : current_limit(s) = limit
    BY <1>5, LimitFacts
  <1>7. PICK A, B : A = AcceptedSlots(o, e) /\ B = AcceptedSlots(o, e)'
    OBVIOUS
  <1>8. /\ A \subseteq slots_of(e) /\ B \subseteq slots_of(e)
        /\ B \subseteq A \cup {m.slot}
        /\ o \notin m.signers => B \subseteq A
    <2>1. \A j : message(j)' = message(j)
      BY <1>2 DEF message
    <2>2. \A j \in DOMAIN accepted : accepted'[j] > 0 => accepted[j] > 0 \/ j = i
      BY <1>2
    <2>3. DOMAIN accepted' = DOMAIN accepted
      BY <1>2
    <2>. QED
      BY <1>1, <1>7, <2>1, <2>2, <2>3 DEF AcceptedSlots, AcceptedFrom
  <1>9. Bounded(operators[o], e, A, limit) /\ IsOperatorState(operators[o])
    BY <1>5, <1>6, <1>7 DEF DutyInv, RingInv
  <1>10. PICK op : op = ops[o]
    OBVIOUS
  <1>11. Bounded(op, e, B, limit)
    <2>1. CASE o \in m.signers
      <3>1. DiffersAt(operators[o], op, m.slot)
        BY <1>2, <1>10, <2>1
      <3>2. ~has_signer_state(operators[o], m.slot) /\ m.slot \in slots_of(e) =>
               Cardinality(RingSlots(operators[o], e)) < limit
        <4>1. SUFFICES ASSUME ~has_signer_state(operators[o], m.slot), m.slot \in slots_of(e)
                       PROVE  Cardinality(RingSlots(operators[o], e)) < limit
          OBVIOUS
        <4>2. epoch_of(m.slot) = e
          BY <4>1, EpochOfSlot
        <4>3. ~(get_duty_count(operators[o], e) >= limit)
          BY <1>2, <1>3, <1>5, <1>6, <2>1, <4>1, <4>2 DEF validate_duty_count, Counted
        <4>4. RingSlots(operators[o], e) \subseteq slots_of(e)
          BY DEF RingSlots
        <4>5. get_duty_count(operators[o], e) = Cardinality(RingSlots(operators[o], e))
          BY DEF get_duty_count, RingSlots
        <4>6. Cardinality(RingSlots(operators[o], e)) \in Nat
          BY <4>4, EpochFinite
        <4>. QED
          BY <4>3, <4>5, <4>6
      <3>. QED
        BY <1>2, <1>3, <1>8, <1>9, <3>1, <3>2, BoundedAfter
    <2>2. CASE o \notin m.signers
      <3>1. op = operators[o] /\ B \subseteq A
        BY <1>2, <1>8, <1>10, <2>2
      <3>2. Cardinality(B) \in Nat /\ Cardinality(A) \in Nat /\ Cardinality(B) <= Cardinality(A)
        BY <1>8, <3>1, EpochFinite
      <3>3. CASE A \subseteq RingSlots(op, e) /\ Cardinality(RingSlots(op, e)) <= limit
        BY <3>1, <3>3 DEF Bounded
      <3>4. CASE (\A s \in slots_of(e) : Late(s)) /\ Cardinality(A) <= limit
        <4>1. Cardinality(B) <= limit
          BY <3>2, <3>4
        <4>. QED
          BY <3>4, <4>1 DEF Bounded
      <3>. QED
        BY <1>9, <3>1, <3>3, <3>4 DEF Bounded
    <2>. QED
      BY <2>1, <2>2
  <1>12. Bounded(op, e, B, limit)'
    BY <1>2, <1>8, <1>11, BoundedOverTime
  <1>. QED
    BY <1>1, <1>5, <1>6, <1>7, <1>10, <1>12, TransferBounded

---------------------------------------------------------------------------
(* The cleaner.                                                            *)

\* What the cleaner finds outdated is below the ring by more than its size.
LEMMA OutdatedFacts ==
    ASSUME Clock, RingInv, outdated(operators, current_slot), NEW o \in Committee
    PROVE  operators[o].max_slot \in Nat /\ operators[o].max_slot + Size < current_slot
  <1>0. Size \in Nat \ {0} /\ current_slot \in Nat
    BY SizeOfRing, CurrentFacts DEF Clock
  <1>1. PICK a \in Committee : a = CHOOSE x \in DOMAIN operators : TRUE
    BY DEF RingInv
  <1>2. DOMAIN operators[a].state = 0..(Size - 1) /\ operators[o].max_slot \in Nat
        /\ DOMAIN operators = Committee
    BY DEF RingInv, IsOperatorState
  <1>3. Cardinality(DOMAIN operators[a].state) = Size
    BY <1>0, <1>2, FS_Interval
  <1>4. operators[o].max_slot < IF current_slot > Size THEN current_slot - Size ELSE 0
    BY <1>1, <1>2, <1>3 DEF outdated
  <1>. QED
    BY <1>0, <1>2, <1>4

\* Every slot of the epoch of an entry that the cleaner drops is late.
LEMMA DroppedIsLate ==
    ASSUME Clock, RingInv, outdated(operators, current_slot), NEW o \in Committee,
           NEW s \in Nat, has_signer_state(operators[o], s)
    PROVE  \A x \in slots_of(epoch_of(s)) : Late(x)
  <1>1. Size \in Nat /\ current_slot \in Nat
    BY SizeOfRing, CurrentFacts DEF Clock
  <1>2. operators[o].max_slot \in Nat /\ operators[o].max_slot + Size < current_slot
    BY OutdatedFacts
  <1>3. s <= operators[o].max_slot
    BY HasFacts DEF RingInv
  <1>4. s + Size < current_slot
    BY <1>1, <1>2, <1>3
  <1>. QED
    BY <1>4, LeftBehindIsLate

LEMMA CleanRing ==
    ASSUME Types, RingInv, Clean, outdated(operators, current_slot)
    PROVE  /\ RingInv'
           /\ operators' = [o \in Committee |-> new_operator_state(role)]
           /\ Passes /\ UNCHANGED <<role, now, view, accepted>>
  <1>1. /\ operators' = [o \in Committee |-> new_operator_state(role)]
        /\ UNCHANGED <<role, now, view, accepted>>
    BY DEF Clean
  <1>2. Passes /\ Clock
    BY <1>1, ClockOfTypes DEF Passes
  <1>3. ASSUME NEW o \in Committee PROVE IsOperatorState(operators[o])'
    <2>1. PICK op : op = new_operator_state(role)
      OBVIOUS
    <2>2. IsOperatorState(op)'
      BY <1>2, <2>1, FreshFacts, RingPersists
    <2>. QED
      BY <1>1, <2>1, <2>2, Transfer
  <1>. QED
    BY <1>1, <1>2, <1>3 DEF RingInv

LEMMA CleanHeard ==
    ASSUME Types, RingInv, HeardInv, Clean, outdated(operators, current_slot)
    PROVE  HeardInv'
  <1>1. /\ operators' = [o \in Committee |-> new_operator_state(role)]
        /\ Passes /\ Clock /\ UNCHANGED <<role, now, view, accepted>>
    BY CleanRing, ClockOfTypes
  <1>2. ASSUME NEW i \in DOMAIN accepted, accepted[i] > 0, Limited(message(i)),
               NEW o \in message(i).signers
        PROVE  Kept(operators[o], message(i))'
    <2>1. PICK op, a : op = operators'[o] /\ a = message(i)
      OBVIOUS
    <2>2. Kept(operators[o], a) /\ a.slot \in Nat /\ o \in Committee
      BY <1>2, <2>1, MessageFacts DEF HeardInv
    <2>3. Late(a.slot)
      BY <1>1, <2>2, DroppedIsLate, SlotsOfEpoch DEF Kept
    <2>4. Kept(op, a)
      BY <2>3 DEF Kept
    <2>5. Kept(op, a)'
      BY <1>1, <2>2, <2>4, KeptOverTime
    <2>. QED
      BY <1>1, <2>1, <2>5, TransferKept
  <1>3. \A i : message(i)' = message(i) /\ (Limited(message(i))' <=> Limited(message(i)))
    BY <1>1 DEF message, Limited
  <1>4. HeardOnce'
    BY <1>1 DEF HeardInv, HeardOnce, Limited, message
  <1>. QED
    BY <1>1, <1>2, <1>3, <1>4 DEF HeardInv

LEMMA CleanDuty ==
    ASSUME Types, Types', RingInv, DutyInv, Clean, outdated(operators, current_slot)
    PROVE  DutyInv'
  <1>1. /\ operators' = [o \in Committee |-> new_operator_state(role)]
        /\ Passes /\ Clock /\ UNCHANGED <<role, now, view, accepted>>
    BY CleanRing, ClockOfTypes
  <1>2. SUFFICES ASSUME Counted', NEW o \in Committee, NEW e \in Nat
                 PROVE  Bounded(operators[o], e, AcceptedSlots(o, e), current_limit(0))'
    BY DEF DutyInv
  <1>3. Counted /\ current_limit(0)' = current_limit(0)
    BY <1>1, <1>2, LimitGrows DEF current_limit, duty_limit, validator_indices
  <1>4. PICK limit \in Nat : limit = current_limit(0)
    BY <1>3, LimitFacts
  <1>5. PICK A, op : A = AcceptedSlots(o, e) /\ op = new_operator_state(role)
    OBVIOUS
  <1>6. AcceptedSlots(o, e)' = A /\ A \subseteq slots_of(e)
    BY <1>1, <1>5 DEF AcceptedSlots, AcceptedFrom, message
  <1>7. Bounded(operators[o], e, A, limit)
    BY <1>3, <1>4, <1>5 DEF DutyInv
  <1>8. Cardinality(A) \in Nat
    BY <1>6, EpochFinite
  <1>9. Bounded(op, e, A, limit)
    <2>1. CASE A = {}
      <3>1. RingSlots(op, e) = {}
        BY <1>1, <1>5, FreshFacts, EpochOfSlot DEF RingSlots
      <3>. QED
        BY <2>1, <3>1, FS_EmptySet DEF Bounded
    <2>2. CASE (\A s \in slots_of(e) : Late(s)) /\ Cardinality(A) <= limit
      BY <2>2 DEF Bounded
    <2>3. CASE A # {} /\ A \subseteq RingSlots(operators[o], e)
               /\ Cardinality(RingSlots(operators[o], e)) <= limit
      <3>1. PICK s \in A : TRUE
        BY <2>3
      <3>2. s \in slots_of(e) /\ s \in Nat /\ epoch_of(s) = e /\ has_signer_state(operators[o], s)
        BY <2>3, EpochOfSlot DEF RingSlots
      <3>3. \A x \in slots_of(e) : Late(x)
        BY <1>1, <3>2, DroppedIsLate
      <3>4. RingSlots(operators[o], e) \subseteq slots_of(e)
        BY DEF RingSlots
      <3>5. Cardinality(RingSlots(operators[o], e)) \in Nat
            /\ Cardinality(A) <= Cardinality(RingSlots(operators[o], e))
        BY <2>3, <3>4, EpochFinite
      <3>6. Cardinality(A) <= limit
        BY <1>8, <2>3, <3>5
      <3>. QED
        BY <3>3, <3>6 DEF Bounded
    <2>. QED
      BY <1>7, <2>1, <2>2, <2>3 DEF Bounded
  <1>10. Bounded(op, e, A, limit)'
    BY <1>1, <1>6, <1>9, BoundedOverTime
  <1>11. op = operators'[o]
    BY <1>1, <1>5
  <1>. QED
    BY <1>3, <1>4, <1>6, <1>10, <1>11, TransferBounded

---------------------------------------------------------------------------
(* The invariant.                                                          *)

LEMMA InvInit == Init => ValidatorInv
  <1>1. SUFFICES ASSUME Init PROVE ValidatorInv
    OBVIOUS
  <1>2. Types /\ Clock
    BY <1>1, TypesInit, ClockOfTypes
  <1>3. RingInv
    BY <1>1, <1>2, FreshFacts DEF Init, RingInv
  <1>4. DOMAIN accepted = DOMAIN Traffic[role] /\ \A i \in DOMAIN accepted : ~(accepted[i] > 0)
    BY <1>1 DEF Init
  <1>5. HeardInv
    BY <1>4 DEF HeardInv, HeardOnce
  <1>6. DutyInv
    <2>1. SUFFICES ASSUME Counted, NEW o \in Committee, NEW e \in Nat
                   PROVE  Bounded(operators[o], e, AcceptedSlots(o, e), current_limit(0))
      BY DEF DutyInv
    <2>2. AcceptedSlots(o, e) = {}
      BY <1>4 DEF AcceptedSlots, AcceptedFrom
    <2>3. RingSlots(operators[o], e) = {}
      BY <1>1, <1>2, FreshFacts, EpochOfSlot DEF RingSlots, Init
    <2>4. current_limit(0) \in Nat
      BY <1>2, <2>1, LimitFacts
    <2>. QED
      BY <2>2, <2>3, <2>4, FS_EmptySet DEF Bounded
  <1>. QED
    BY <1>2, <1>3, <1>5, <1>6 DEF ValidatorInv

LEMMA InvStep == ValidatorInv /\ [Next]_vars => ValidatorInv'
  <1>. SUFFICES ASSUME ValidatorInv, [Next]_vars PROVE ValidatorInv'
    OBVIOUS
  <1>0. Types /\ RingInv /\ HeardInv /\ DutyInv /\ Types'
    BY TypesStep DEF ValidatorInv
  <1>1. ASSUME Quiet PROVE ValidatorInv'
    BY <1>0, <1>1, QuietRing, QuietHeard, QuietDuty DEF ValidatorInv
  <1>2. ASSUME UNCHANGED vars PROVE ValidatorInv'
    <2>1. Quiet
      BY <1>2 DEF vars, Quiet, Passes
    <2>. QED
      BY <1>1, <2>1
  <1>3. ASSUME NEW i \in DOMAIN accepted, Validate(i) PROVE ValidatorInv'
    <2>1. CASE check_failure(message(i)) # "none"
      BY <1>2, <1>3, <2>1, ValidateFails
    <2>2. CASE check_failure(message(i)) = "none"
      BY <1>0, <1>3, <2>2, ValidateRing, ValidateHeard, ValidateDuty DEF ValidatorInv
    <2>. QED
      BY <2>1, <2>2
  <1>4. CASE Clean
    <2>1. CASE outdated(operators, current_slot)
      BY <1>0, <1>4, <2>1, CleanRing, CleanHeard, CleanDuty DEF ValidatorInv
    <2>2. CASE ~outdated(operators, current_slot)
      <3>1. Quiet
        BY <1>4, <2>2 DEF Clean, Quiet, Passes
      <3>. QED
        BY <1>1, <3>1
    <2>. QED
      BY <2>1, <2>2
  <1>5. CASE Tick
    <2>1. Quiet
      BY <1>5 DEF Tick, Quiet, Passes
    <2>. QED
      BY <1>1, <2>1
  <1>6. CASE LearnRegistry
    <2>1. view.indices \subseteq view'.indices
      BY <1>0, <1>6 DEF LearnRegistry, Types
    <2>2. Quiet
      BY <1>6, <2>1 DEF LearnRegistry, Quiet, Passes
    <2>. QED
      BY <1>1, <2>2
  <1>7. CASE PollDuties
    <2>1. view.indices \subseteq view'.indices
      BY <1>0, <1>7 DEF PollDuties, Types
    <2>2. Quiet
      BY <1>7, <2>1 DEF PollDuties, Quiet, Passes
    <2>. QED
      BY <1>1, <2>2
  <1>. QED
    BY <1>2, <1>3, <1>4, <1>5, <1>6, <1>7 DEF Next

\* The inductive invariant: the ring, what it remembers of the messages that
\* were accepted, and the bound of every epoch.
THEOREM ValidatorInvariant == Spec => []ValidatorInv
  BY InvInit, InvStep, PTL DEF Spec

\* The types, with the ring: an entry lies at the index of its slot and no
\* counter of message_counts.rs exceeds its limit.
THEOREM ValidatorTypesHold == Spec => []TypeOK
  <1>1. ValidatorInv => TypeOK
    <2>1. SUFFICES ASSUME ValidatorInv PROVE TypeOK
      OBVIOUS
    <2>2. Types /\ RingInv
      BY <2>1 DEF ValidatorInv
    <2>3. /\ role \in Scenarios /\ now \in 0..MaxTime[role]
          /\ view.registered \in BOOLEAN /\ view.indices \subseteq Validators[role]
          /\ accepted \in [DOMAIN Traffic[role] -> 0..MaxAccepted]
          /\ DOMAIN operators = Committee
      BY <2>2 DEF Types, RingInv
    <2>4. ASSUME NEW o \in Committee, NEW i \in DOMAIN operators[o].state,
                 operators[o].state[i] # NoSignerState
          PROVE  LET s == operators[o].state[i]
                 IN  /\ s.slot % stored_slot_count(role) = i
                     /\ s.slot <= operators[o].max_slot
                     /\ \A c \in Counters : s.message_counts[c] <= MAX_MESSAGES_PER_ROUND
      <3>1. i \in 0..(Size - 1) /\ IsEntry(operators[o], i)
        BY <2>2 DEF RingInv, IsOperatorState
      <3>2. IsSignerState(operators[o].state[i])
        BY <2>4, <3>1 DEF IsEntry
      <3>3. \A c \in Counters :
               operators[o].state[i].message_counts[c] <= MAX_MESSAGES_PER_ROUND
        BY <3>2 DEF IsSignerState, MAX_MESSAGES_PER_ROUND
      <3>. QED
        BY <2>4, <3>1, <3>3 DEF IsEntry, Size
    <2>. QED
      BY <2>3, <2>4 DEF TypeOK
  <1>. QED
    BY <1>1, ValidatorInvariant, PTL

\* An operator is heard once, although the ring and the cleaner forget.
THEOREM HeardOnceHolds == Spec => []HeardOnce
  <1>1. ValidatorInv => HeardOnce
    BY DEF ValidatorInv, HeardInv
  <1>. QED
    BY <1>1, ValidatorInvariant, PTL

\* No operator gets messages for more slots of an epoch accepted than its
\* duty limit, in whatever order and however late they arrive.
THEOREM DutyLimitHolds == Spec => []DutyLimit
  <1>1. ValidatorInv => DutyLimit
    <2>1. SUFFICES ASSUME ValidatorInv, Counted, NEW o \in Committee,
                          NEW m \in AcceptedFrom(o), NEW e, e = epoch_of(m.slot)
                   PROVE  Cardinality({s \in slots_of(e) :
                                          \E a \in AcceptedFrom(o) : a.slot = s})
                             <= current_limit(start_slot(e))
      BY DEF DutyLimit, Counted
    <2>2. Types /\ DutyInv
      BY <2>1 DEF ValidatorInv
    <2>3. m.slot \in Nat
      BY <2>2, MessageFacts DEF AcceptedFrom
    <2>4. e \in Nat /\ start_slot(e) \in Nat
      BY <2>1, <2>3, SlotsOfEpoch
    <2>5. PICK limit \in Nat : limit = current_limit(0) /\ current_limit(start_slot(e)) = limit
      BY <2>1, <2>2, <2>4, LimitFacts
    <2>6. PICK A : A = AcceptedSlots(o, e)
      OBVIOUS
    <2>7. Bounded(operators[o], e, A, limit)
      BY <2>1, <2>2, <2>4, <2>5, <2>6 DEF DutyInv
    <2>8. Cardinality(A) <= limit
      <3>1. A \subseteq slots_of(e) /\ RingSlots(operators[o], e) \subseteq slots_of(e)
        BY <2>6, AcceptedSlotsFacts DEF RingSlots
      <3>2. CASE A \subseteq RingSlots(operators[o], e)
                 /\ Cardinality(RingSlots(operators[o], e)) <= limit
        <4>1. Cardinality(A) \in Nat /\ Cardinality(RingSlots(operators[o], e)) \in Nat
              /\ Cardinality(A) <= Cardinality(RingSlots(operators[o], e))
          BY <2>4, <3>1, <3>2, EpochFinite
        <4>. QED
          BY <3>2, <4>1
      <3>. QED
        BY <2>7, <3>2 DEF Bounded
    <2>. QED
      BY <2>5, <2>6, <2>8 DEF AcceptedSlots
  <1>. QED
    BY <1>1, ValidatorInvariant, PTL

---------------------------------------------------------------------------
(* The cleaner changes no verdict of a message in time.                    *)

\* Facts about the verdict that are used in the state after the cleaner.
PassFact == \A m : Clock /\ m.slot \in Nat /\ check_failure(m) = "none" => Admitted(m)
MessageFact == \A i, m : m = message(i) => (Accepts(m) <=> Accepts(message(i)))

LEMMA PassHolds == PassFact
  BY CheckFacts DEF PassFact

LEMMA MessageHolds == MessageFact
  BY DEF MessageFact

\* What the rules read of an operator that is outdated, for a slot in time.
LEMMA OutdatedReads ==
    ASSUME Clock, RingInv, outdated(operators, current_slot), NEW o \in Committee,
           NEW s \in Nat, InTime(s)
    PROVE  /\ ~has_signer_state(operators[o], s)
           /\ ~(operators[o].max_slot > s)
           /\ get_duty_count(operators[o], epoch_of(s)) = 0
  <1>1. ~Late(s) /\ s \in slots_of(epoch_of(s)) /\ epoch_of(s) \in Nat
    BY InTimeFacts, SlotsOfEpoch
  <1>2. ~has_signer_state(operators[o], s)
    BY <1>1, DroppedIsLate
  <1>3. ~(operators[o].max_slot > s)
    <2>1. Size \in Nat /\ current_slot \in Nat
          /\ operators[o].max_slot \in Nat /\ operators[o].max_slot + Size < current_slot
      BY SizeOfRing, CurrentFacts, OutdatedFacts DEF Clock
    <2>2. SUFFICES ASSUME operators[o].max_slot > s PROVE FALSE
      OBVIOUS
    <2>3. s + Size < current_slot
      BY <2>1, <2>2
    <2>. QED
      BY <1>1, <2>3, LeftBehindIsLate
  <1>4. \A x \in slots_of(epoch_of(s)) : ~has_signer_state(operators[o], x)
    BY <1>1, DroppedIsLate, EpochOfSlot
  <1>5. {x \in slots_of(epoch_of(s)) : has_signer_state(operators[o], x)} = {}
    BY <1>4
  <1>. QED
    BY <1>2, <1>3, <1>5, FS_EmptySet DEF get_duty_count

\* And of a fresh one.
LEMMA FreshReads ==
    ASSUME Clock, NEW op, op = new_operator_state(role), NEW s \in Nat
    PROVE  /\ ~has_signer_state(op, s)
           /\ ~(op.max_slot > s)
           /\ get_duty_count(op, epoch_of(s)) = 0
  <1>1. op.max_slot = 0
    BY DEF new_operator_state
  <1>2. \A x \in Nat : ~has_signer_state(op, x)
    BY FreshFacts
  <1>3. {x \in slots_of(epoch_of(s)) : has_signer_state(op, x)} = {}
    BY <1>2, SlotsOfEpoch, EpochOfSlot
  <1>. QED
    BY <1>1, <1>2, <1>3, FS_EmptySet DEF get_duty_count

\* The message is of this committee and in time, and what the rules read of
\* its signers is what they read of an operator that was never heard.
Unheard(m) ==
    /\ m.signers # {} /\ m.signers \subseteq Committee /\ m.slot \in Nat
    /\ \A o \in m.signers :
          /\ ~has_signer_state(operators[o], m.slot)
          /\ ~(operators[o].max_slot > m.slot)
          /\ get_duty_count(operators[o], epoch_of(m.slot)) = 0

LEMMA SameReads ==
    ASSUME NEW m, Unheard(m), Unheard(m)', UNCHANGED <<role, now, view>>
    PROVE  /\ \A o \in m.signers : validate_duty_count(o, m.slot)' <=> validate_duty_count(o, m.slot)
           /\ \A o \in m.signers : single_signer_rules(m, o)' = single_signer_rules(m, o)
           /\ \A o \in m.signers :
                 root_budget_failure(operators[o], m)' = root_budget_failure(operators[o], m)
           /\ validate_beacon_duty(m)' = validate_beacon_duty(m)
           /\ validate_slot_time(m.slot)' = validate_slot_time(m.slot)
           /\ highest_allowed(m.slot)' = highest_allowed(m.slot)
           /\ entry_limit(role, validator_count, m)' = entry_limit(role, validator_count, m)
           /\ current_slot' = current_slot /\ indexed' = indexed
  <1>1. /\ validator_indices' = validator_indices /\ validator_count' = validator_count
        /\ indexed' = indexed /\ current_slot' = current_slot
    BY DEF validator_indices, validator_count, indexed, current_slot
  <1>2. ASSUME NEW o \in m.signers
        PROVE  validate_duty_count(o, m.slot)' <=> validate_duty_count(o, m.slot)
    <2>1. current_limit(m.slot)' = current_limit(m.slot)
      BY <1>1 DEF current_limit, duty_limit
    <2>. QED
      BY <2>1 DEF validate_duty_count, Unheard
  <1>3. ASSUME NEW o \in m.signers
        PROVE  single_signer_rules(m, o)' = single_signer_rules(m, o)
    BY DEF single_signer_rules, When, Unheard
  <1>4. ASSUME NEW o \in m.signers
        PROVE  root_budget_failure(operators[o], m)' = root_budget_failure(operators[o], m)
    BY DEF root_budget_failure, partial_state, Unheard
  <1>5. validate_beacon_duty(m)' = validate_beacon_duty(m)
    BY <1>1 DEF validate_beacon_duty, is_validator_proposer_at_slot, not_assigned
  <1>6. validate_slot_time(m.slot)' = validate_slot_time(m.slot)
    BY DEF validate_slot_time, earliest, slot_start_time, ttl
  <1>7. highest_allowed(m.slot)' = highest_allowed(m.slot)
    BY DEF highest_allowed
  <1>8. entry_limit(role, validator_count, m)' = entry_limit(role, validator_count, m)
    BY <1>1 DEF entry_limit, is_gloas_proposer_post
  <1>. QED
    BY <1>1, <1>2, <1>3, <1>4, <1>5, <1>6, <1>7, <1>8

LEMMA SameVerdict ==
    ASSUME NEW m, Unheard(m), Unheard(m)', UNCHANGED <<role, now, view>>
    PROVE  Accepts(m)' <=> Accepts(m)
  <1>1. PICK a \in m.signers : a = CHOOSE x \in m.signers : TRUE
    BY DEF Unheard
  <1>2. /\ \A o \in m.signers : validate_duty_count(o, m.slot)' <=> validate_duty_count(o, m.slot)
        /\ single_signer_rules(m, a)' = single_signer_rules(m, a)
        /\ root_budget_failure(operators[a], m)' = root_budget_failure(operators[a], m)
        /\ validate_beacon_duty(m)' = validate_beacon_duty(m)
        /\ validate_slot_time(m.slot)' = validate_slot_time(m.slot)
        /\ highest_allowed(m.slot)' = highest_allowed(m.slot)
        /\ entry_limit(role, validator_count, m)' = entry_limit(role, validator_count, m)
        /\ current_slot' = current_slot /\ indexed' = indexed
    BY SameReads
  <1>3. /\ \A o \in m.signers : ~has_signer_state(operators[o], m.slot)
                                 /\ ~(operators[o].max_slot > m.slot)
        /\ \A o \in m.signers : ~has_signer_state(operators'[o], m.slot)
                                 /\ ~(operators'[o].max_slot > m.slot)
    BY DEF Unheard
  <1>4. registry_rules' = registry_rules /\ retirement_rules' = retirement_rules
    BY <1>2 DEF registry_rules, retirement_rules, When
  <1>5. validate_role_for_fork(m.slot)' = validate_role_for_fork(m.slot)
    BY DEF validate_role_for_fork, When
  <1>6. /\ validate_consensus_message_semantics(m)' = validate_consensus_message_semantics(m)
        /\ validate_partial_signature_message_semantics(m)'
             = validate_partial_signature_message_semantics(m)
    BY <1>2, SMTT(60) DEF validate_consensus_message_semantics, When,
           validate_partial_signature_message_semantics, is_gloas_proposer_post
  <1>7. validate_qbft_logic(m)' = validate_qbft_logic(m)
    BY <1>1, <1>2, <1>3 DEF validate_qbft_logic, When
  <1>8. validate_qbft_message_by_duty_logic(m)' = validate_qbft_message_by_duty_logic(m)
    BY <1>2, <1>3 DEF validate_qbft_message_by_duty_logic, When
  <1>9. validate_partial_sig_messages_by_duty_logic(m)'
          = validate_partial_sig_messages_by_duty_logic(m)
    BY <1>1, <1>2, <1>3 DEF validate_partial_sig_messages_by_duty_logic, When, occurrence_limit
  <1>10. consensus_rules(m)' = consensus_rules(m) /\ partial_rules(m)' = partial_rules(m)
    BY <1>4, <1>5, <1>6, <1>7, <1>8, <1>9 DEF consensus_rules, partial_rules
  <1>11. check_failure(m)' = check_failure(m)
    BY <1>4, <1>10 DEF check_failure
  <1>. QED
    BY <1>1, <1>2, <1>11 DEF Accepts, validation_failure

\* The verdict is one of the role, the clock, the view and the duty state.
LEMMA UnchangedVerdict ==
    ASSUME NEW m, UNCHANGED <<role, now, view, operators>>
    PROVE  Accepts(m)' <=> Accepts(m)
  <1>1. /\ validator_indices' = validator_indices /\ validator_count' = validator_count
        /\ indexed' = indexed /\ current_slot' = current_slot
    BY DEF validator_indices, validator_count, indexed, current_slot
  <1>2. current_limit(m.slot)' = current_limit(m.slot)
    BY <1>1 DEF current_limit, duty_limit
  <1>3. \A o : validate_duty_count(o, m.slot)' <=> validate_duty_count(o, m.slot)
    BY <1>2 DEF validate_duty_count
  <1>4. \A o : single_signer_rules(m, o)' = single_signer_rules(m, o)
    BY DEF single_signer_rules, When
  <1>5. /\ validate_beacon_duty(m)' = validate_beacon_duty(m)
        /\ validate_slot_time(m.slot)' = validate_slot_time(m.slot)
    BY <1>1 DEF validate_beacon_duty, is_validator_proposer_at_slot, not_assigned,
                validate_slot_time, earliest, slot_start_time, ttl
  <1>6. /\ highest_allowed(m.slot)' = highest_allowed(m.slot)
        /\ entry_limit(role, validator_count, m)' = entry_limit(role, validator_count, m)
    BY <1>1 DEF highest_allowed, entry_limit, is_gloas_proposer_post
  <1>7. registry_rules' = registry_rules /\ retirement_rules' = retirement_rules
    BY <1>1 DEF registry_rules, retirement_rules
  <1>8. validate_role_for_fork(m.slot)' = validate_role_for_fork(m.slot)
    BY DEF validate_role_for_fork
  <1>9. /\ validate_consensus_message_semantics(m)' = validate_consensus_message_semantics(m)
        /\ validate_partial_signature_message_semantics(m)'
             = validate_partial_signature_message_semantics(m)
    BY <1>1 DEF validate_consensus_message_semantics,
           validate_partial_signature_message_semantics, is_gloas_proposer_post
  <1>10. validate_qbft_logic(m)' = validate_qbft_logic(m)
    <2>1. PICK a : a = CHOOSE x \in m.signers : TRUE
      OBVIOUS
    <2>2. single_signer_rules(m, a)' = single_signer_rules(m, a)
      BY <1>4
    <2>. QED
      BY <1>6, <2>1, <2>2 DEF validate_qbft_logic, When
  <1>11. validate_qbft_message_by_duty_logic(m)' = validate_qbft_message_by_duty_logic(m)
    BY <1>3, <1>5 DEF validate_qbft_message_by_duty_logic, When
  <1>12. validate_partial_sig_messages_by_duty_logic(m)'
           = validate_partial_sig_messages_by_duty_logic(m)
    BY <1>3, <1>5, <1>6 DEF validate_partial_sig_messages_by_duty_logic, When, occurrence_limit
  <1>13. consensus_rules(m)' = consensus_rules(m) /\ partial_rules(m)' = partial_rules(m)
    BY <1>7, <1>8, <1>9, <1>10, <1>11, <1>12 DEF consensus_rules, partial_rules
  <1>14. check_failure(m)' = check_failure(m)
    BY <1>7, <1>13 DEF check_failure
  <1>. QED
    BY <1>14 DEF Accepts, validation_failure

\* The cleaner drops nothing of relevance.
LEMMA CleanKeepsVerdicts ==
    ASSUME ValidatorInv, Types', Clean, NEW i \in DOMAIN accepted, Accepts(message(i))'
    PROVE  Accepts(message(i))
  <1>0. /\ UNCHANGED <<role, now, view, accepted>> /\ Types /\ RingInv /\ Clock
    BY ClockOfTypes DEF Clean, ValidatorInv
  <1>1. PICK m : m = message(i)
    OBVIOUS
  <1>2. message(i)' = m /\ m.slot \in Nat
    BY <1>0, <1>1, MessageFacts DEF message
  <1>3. Accepts(m)'
    <2>1. MessageFact'
      BY MessageHolds, PTL
    <2>. QED
      BY <1>2, <2>1 DEF MessageFact
  <1>4. Admitted(m)'
    <2>1. PassFact'
      BY PassHolds, PTL
    <2>2. check_failure(m)' = "none"
      BY <1>3 DEF Accepts, validation_failure
    <2>3. Clock'
      BY <1>0 DEF Clock
    <2>. QED
      BY <1>2, <2>1, <2>2, <2>3 DEF PassFact
  <1>5. m.signers # {} /\ m.signers \subseteq Committee
    BY <1>4 DEF Admitted
  <1>6. InTime(m.slot)
    BY <1>0, <1>4 DEF Admitted, InTime, earliest, slot_start_time, ttl
  <1>7. CASE ~outdated(operators, current_slot)
    <2>1. operators' = operators
      BY <1>7 DEF Clean
    <2>. QED
      BY <1>0, <1>1, <1>3, <2>1, UnchangedVerdict
  <1>8. CASE outdated(operators, current_slot)
    <2>1. operators' = [o \in Committee |-> new_operator_state(role)]
      BY <1>8 DEF Clean
    <2>2. Unheard(m)
      BY <1>0, <1>2, <1>5, <1>6, <1>8, OutdatedReads DEF Unheard
    <2>3. Unheard(m)'
      <3>1. PICK op : op = new_operator_state(role)
        OBVIOUS
      <3>2. /\ ~has_signer_state(op, m.slot) /\ ~(op.max_slot > m.slot)
            /\ get_duty_count(op, epoch_of(m.slot)) = 0
        BY <1>0, <1>2, <3>1, FreshReads
      <3>3. \A o \in m.signers : operators'[o] = op
        BY <1>5, <2>1, <3>1
      <3>. QED
        BY <1>2, <1>5, <3>2, <3>3 DEF Unheard
    <2>. QED
      BY <1>0, <1>1, <1>3, <2>2, <2>3, SameVerdict
  <1>. QED
    BY <1>7, <1>8

\* No message that would not have been accepted is accepted once the cleaner
\* has run.
THEOREM CleanerForgetsNothingHolds == Spec => CleanerForgetsNothing
  <1>1. ValidatorInv /\ [Next]_vars =>
           [Clean /\ operators' # operators
            => \A i \in DOMAIN accepted :
                  Accepts(message(i))' => Accepts(message(i))]_vars
    <2>1. SUFFICES ASSUME ValidatorInv, [Next]_vars, Clean, NEW i \in DOMAIN accepted,
                          Accepts(message(i))'
                   PROVE  Accepts(message(i))
      OBVIOUS
    <2>2. Types'
      BY <2>1, TypesStep DEF ValidatorInv
    <2>. QED
      BY <2>1, <2>2, CleanKeepsVerdicts
  <1>. QED
    BY <1>1, ValidatorInvariant, PTL DEF Spec, CleanerForgetsNothing

---------------------------------------------------------------------------
(* Where what the ring holds comes from.                                   *)

\* The messages that were accepted.
Heard == {i \in DOMAIN accepted : accepted[i] > 0}

\* Everything in a signer state of an operator comes from messages it signed:
\* the slot from one that verified, a round above the first from an accepted
\* one, and counters, proposals, sets of signers and roots from accepted ones
\* of the slot and round.  A committee has entries only once the index of a
\* validator of it is known.
Sourced(r, H, known, o, s) ==
    /\ \E a \in SignedBy(r, o) : a.slot = s.slot
    /\ is_committee_role(r) => known
    /\ s.round = FIRST_ROUND \/ \E i \in H :
          /\ o \in Traffic[r][i].signers
          /\ Traffic[r][i].slot = s.slot /\ Traffic[r][i].round = s.round
    /\ \A c \in Counters : s.message_counts[c] > 0 => \E i \in H :
          /\ Traffic[r][i].signers = {o} /\ Traffic[r][i].slot = s.slot
          /\ c \in CountersOf(Traffic[r][i])
          /\ Traffic[r][i].kind = "Consensus" => Traffic[r][i].round = s.round
    /\ s.proposal_hash # NoRoot => \E i \in H :
          /\ Traffic[r][i].signers = {o} /\ Traffic[r][i].slot = s.slot
          /\ Traffic[r][i].round = s.round /\ Traffic[r][i].type = "Proposal"
          /\ Traffic[r][i].root = s.proposal_hash
    /\ \A g \in s.seen_signers : \E i \in H :
          Traffic[r][i].signers = g /\ o \in g /\ Traffic[r][i].slot = s.slot
    /\ \A k \in DOMAIN RootBudget : \A x \in s.roots[k] : \E i \in H :
          /\ Traffic[r][i].signers = {o} /\ Traffic[r][i].slot = s.slot
          /\ Traffic[r][i].type = k /\ x \in entry_roots(Traffic[r][i])

\* What was accepted verifies, every entry is sourced, and so is the highest
\* slot, but for the preferences that only failed the root budget.
OriginInv ==
    /\ \A i \in Heard : Verifies(message(i))
    /\ \A o \in Committee : \A x \in Nat : has_signer_state(operators[o], x) =>
          Sourced(role, Heard, indexed, o, get_signer_state(operators[o], x))
    /\ role # "ProposerPreferences" => \A o \in Committee :
          \/ operators[o].max_slot = 0
          \/ \E i \in Heard : o \in message(i).signers /\ message(i).slot = operators[o].max_slot

\* What was sourced stays so while more is accepted and learnt.
LEMMA SourcedGrows ==
    ASSUME NEW r, NEW H, NEW G, H \subseteq G, NEW k \in BOOLEAN, NEW l \in BOOLEAN, k => l,
           NEW o, NEW s, Sourced(r, H, k, o, s)
    PROVE  Sourced(r, G, l, o, s)
  <1>1. \A c \in Counters : s.message_counts[c] > 0 => \E i \in G :
          /\ Traffic[r][i].signers = {o} /\ Traffic[r][i].slot = s.slot
          /\ c \in CountersOf(Traffic[r][i])
          /\ Traffic[r][i].kind = "Consensus" => Traffic[r][i].round = s.round
    BY DEF Sourced
  <1>2. \A g \in s.seen_signers : \E i \in G :
          Traffic[r][i].signers = g /\ o \in g /\ Traffic[r][i].slot = s.slot
    BY DEF Sourced
  <1>3. \A x \in DOMAIN RootBudget : \A y \in s.roots[x] : \E i \in G :
          /\ Traffic[r][i].signers = {o} /\ Traffic[r][i].slot = s.slot
          /\ Traffic[r][i].type = x /\ y \in entry_roots(Traffic[r][i])
    BY DEF Sourced
  <1>. QED
    BY <1>1, <1>2, <1>3 DEF Sourced

\* The highest slot after an entry was set.
LEMMA SetMax ==
    ASSUME NEW op, op.max_slot \in Nat, NEW slot \in Nat, NEW s
    PROVE  set_signer_state(op, slot, s).max_slot \in {op.max_slot, slot}
  BY DEF set_signer_state

\* The fields of a signer state that is new.
LEMMA NewSignerFields ==
    ASSUME NEW slot, NEW round, NEW s, s = new_signer_state(slot, round)
    PROVE  /\ s.slot = slot /\ s.round = round
           /\ \A c \in Counters : s.message_counts[c] = 0
           /\ s.proposal_hash = NoRoot /\ s.seen_signers = {}
           /\ \A k \in DOMAIN RootBudget : s.roots[k] = {}
  BY DEF new_signer_state

\* The signer state after a consensus message, field by field.
LEMMA UpdateFields ==
    ASSUME Clock, NEW op, IsOperatorState(op), NEW m, m.slot \in Nat, m.round \in Nat,
           Begun(m.slot),
           has_signer_state(op, m.slot) /\ m.round <= get_signer_state(op, m.slot).round
              => ~OverLimits(get_signer_state(op, m.slot).message_counts, m),
           NEW s, s = IF has_signer_state(op, m.slot)
                           /\ m.round <= get_signer_state(op, m.slot).round
                      THEN get_signer_state(op, m.slot) ELSE new_signer_state(m.slot, m.round),
           NEW t, t = get_signer_state(update(op, m), m.slot)
    PROVE  /\ update(op, m).max_slot \in {op.max_slot, m.slot}
           /\ s.slot = m.slot /\ t.slot = m.slot /\ t.round = s.round
           /\ s.message_counts \in [Counters -> 0..MAX_MESSAGES_PER_ROUND]
           /\ t.message_counts = record(s.message_counts, m)
           /\ t.proposal_hash = IF m.data # NoRoot /\ m.type = "Proposal"
                                THEN m.root ELSE s.proposal_hash
           /\ t.seen_signers = IF Cardinality(m.signers) > 1
                               THEN s.seen_signers \cup {m.signers} ELSE s.seen_signers
           /\ t.roots = s.roots
  <1>1. IsSignerState(s) /\ s.slot = m.slot
    BY HasFacts, NewSignerFacts
  <1>2. PICK x : x = [s EXCEPT
                !.proposal_hash = IF m.data # NoRoot /\ m.type = "Proposal"
                                  THEN m.root ELSE @,
                !.seen_signers = IF Cardinality(m.signers) > 1
                                 THEN @ \cup {m.signers} ELSE @,
                !.message_counts = record(@, m)]
    OBVIOUS
  <1>3. update(op, m) = set_signer_state(op, m.slot, x)
    BY <1>2 DEF update
  <1>4. /\ DOMAIN x = SignerFields /\ x.slot = s.slot /\ x.round = s.round
        /\ x.message_counts = record(s.message_counts, m)
        /\ x.proposal_hash = IF m.data # NoRoot /\ m.type = "Proposal"
                             THEN m.root ELSE s.proposal_hash
        /\ x.seen_signers = IF Cardinality(m.signers) > 1
                            THEN s.seen_signers \cup {m.signers} ELSE s.seen_signers
        /\ x.roots = s.roots
    BY <1>1, <1>2 DEF IsSignerState, SignerFields
  <1>5. \A c \in CountersOf(m) : s.message_counts[c] < MAX_MESSAGES_PER_ROUND
    <2>. DEFINE old == get_signer_state(op, m.slot)
                stays == has_signer_state(op, m.slot) /\ m.round <= old.round
    <2>1. CASE stays
      <3>1. \A c \in Counters : s.message_counts[c] \in 0..MAX_MESSAGES_PER_ROUND
        BY <1>1 DEF IsSignerState
      <3>. QED
        BY <2>1, <3>1, CountersFacts DEF OverLimits, MAX_MESSAGES_PER_ROUND
    <2>2. CASE ~stays
      BY <2>2, NewSignerFacts, CountersFacts DEF MAX_MESSAGES_PER_ROUND
    <2>. QED
      BY <2>1, <2>2
  <1>6. IsSignerState(x) /\ x.slot = m.slot
    BY <1>1, <1>4, <1>5, RecordFacts DEF IsSignerState
  <1>7. t = x
    BY <1>3, <1>6, SetFacts
  <1>8. update(op, m).max_slot \in {op.max_slot, m.slot}
    BY <1>3, SetMax DEF IsOperatorState
  <1>9. s.message_counts \in [Counters -> 0..MAX_MESSAGES_PER_ROUND]
    BY <1>1 DEF IsSignerState
  <1>. QED
    BY <1>1, <1>4, <1>7, <1>8, <1>9

\* The roots of a packet are added to those of its kind.
RootsAdded(s, t, m) ==
    \A k \in DOMAIN RootBudget :
        t.roots[k] = IF k = m.type THEN s.roots[k] \cup entry_roots(m) ELSE s.roots[k]

\* And after a packet of partial signatures.
LEMMA PartialFields ==
    ASSUME Clock, NEW op, IsOperatorState(op), NEW m, m.slot \in Nat, Begun(m.slot),
           has_signer_state(op, m.slot)
              => ~OverLimits(get_signer_state(op, m.slot).message_counts, m),
           NEW s, s = IF has_signer_state(op, m.slot) THEN get_signer_state(op, m.slot)
                      ELSE new_signer_state(m.slot, FIRST_ROUND),
           NEW t, t = get_signer_state(update_for_partial_signature(op, m), m.slot)
    PROVE  /\ update_for_partial_signature(op, m).max_slot \in {op.max_slot, m.slot}
           /\ s.slot = m.slot
           /\ s.message_counts \in [Counters -> 0..MAX_MESSAGES_PER_ROUND]
           /\ root_budget_failure(op, m) # "none" => t = s
           /\ root_budget_failure(op, m) = "none" =>
                /\ t.slot = m.slot /\ t.round = s.round
                /\ t.message_counts = record(s.message_counts, m)
                /\ t.proposal_hash = s.proposal_hash /\ t.seen_signers = s.seen_signers
                /\ RootsAdded(s, t, m)
  <1>1. IsSignerState(s) /\ s.slot = m.slot
    BY HasFacts, NewSignerFacts DEF FIRST_ROUND
  <1>2. PICK y : y = [s EXCEPT
                    !.roots = [k \in DOMAIN RootBudget |->
                                 IF k = m.type THEN @[k] \cup entry_roots(m) ELSE @[k]],
                    !.message_counts = record(@, m)]
    OBVIOUS
  <1>3. PICK x : x = IF root_budget_failure(op, m) # "none" THEN s ELSE y
    OBVIOUS
  <1>4. update_for_partial_signature(op, m) = set_signer_state(op, m.slot, x)
    BY <1>2, <1>3 DEF update_for_partial_signature, partial_state
  <1>5. /\ DOMAIN y = SignerFields /\ y.slot = s.slot /\ y.round = s.round
        /\ y.message_counts = record(s.message_counts, m)
        /\ y.proposal_hash = s.proposal_hash /\ y.seen_signers = s.seen_signers
        /\ y.roots = [k \in DOMAIN RootBudget |->
                        IF k = m.type THEN s.roots[k] \cup entry_roots(m) ELSE s.roots[k]]
    BY <1>1, <1>2 DEF IsSignerState, SignerFields
  <1>6. \A c \in CountersOf(m) : s.message_counts[c] < MAX_MESSAGES_PER_ROUND
    <2>1. CASE has_signer_state(op, m.slot)
      <3>1. \A c \in Counters : s.message_counts[c] \in 0..MAX_MESSAGES_PER_ROUND
        BY <1>1 DEF IsSignerState
      <3>. QED
        BY <2>1, <3>1, CountersFacts DEF OverLimits, MAX_MESSAGES_PER_ROUND
    <2>2. CASE ~has_signer_state(op, m.slot)
      <3>1. \A c \in Counters : s.message_counts[c] = 0
        BY <2>2, NewSignerFields
      <3>. QED
        BY <3>1, CountersFacts DEF MAX_MESSAGES_PER_ROUND
    <2>. QED
      BY <2>1, <2>2
  <1>7. IsSignerState(y) /\ y.slot = m.slot
    BY <1>1, <1>5, <1>6, RecordFacts DEF IsSignerState
  <1>8. t = x
    BY <1>1, <1>3, <1>4, <1>7, SetFacts
  <1>9. update_for_partial_signature(op, m).max_slot \in {op.max_slot, m.slot}
    BY <1>4, SetMax DEF IsOperatorState
  <1>10. s.message_counts \in [Counters -> 0..MAX_MESSAGES_PER_ROUND]
    BY <1>1 DEF IsSignerState
  <1>11. RootsAdded(s, y, m)
    BY <1>5 DEF RootsAdded
  <1>12. CASE root_budget_failure(op, m) # "none"
    BY <1>1, <1>3, <1>8, <1>9, <1>10, <1>12
  <1>13. CASE root_budget_failure(op, m) = "none"
    <2>1. t = y
      BY <1>3, <1>8, <1>13
    <2>. QED
      BY <1>1, <1>5, <1>7, <1>9, <1>10, <1>11, <1>13, <2>1
  <1>. QED
    BY <1>12, <1>13

\* A new signer state, of a message that verified.
LEMMA SourcedNew ==
    ASSUME NEW r, NEW H, NEW k, NEW o, NEW m \in SignedBy(r, o), is_committee_role(r) => k,
           NEW round, \/ round = FIRST_ROUND
                      \/ \E i \in H : m = Traffic[r][i] /\ round = m.round,
           NEW s, s = new_signer_state(m.slot, round)
    PROVE  Sourced(r, H, k, o, s)
  <1>1. /\ s.slot = m.slot /\ s.round = round
        /\ \A c \in Counters : ~(s.message_counts[c] > 0)
        /\ s.proposal_hash = NoRoot /\ s.seen_signers = {}
        /\ \A x \in DOMAIN RootBudget : s.roots[x] = {}
    BY NewSignerFields
  <1>2. o \in m.signers
    BY DEF SignedBy
  <1>. QED
    BY <1>1, <1>2 DEF Sourced

\* A consensus message that was accepted is the source of what it adds.
LEMMA SourcedConsensus ==
    ASSUME NEW r, NEW H, NEW k, NEW i \in H, NEW m, m = Traffic[r][i], m.kind = "Consensus",
           NEW o \in m.signers,
           m.signers # {o} => CountersOf(m) = {} /\ m.type # "Proposal",
           NEW s, Sourced(r, H, k, o, s), s.slot = m.slot, m.signers = {o} => s.round = m.round,
           s.message_counts \in [Counters -> 0..MAX_MESSAGES_PER_ROUND],
           NEW t, t.slot = m.slot, t.round = s.round,
           t.message_counts = record(s.message_counts, m),
           t.proposal_hash = IF m.data # NoRoot /\ m.type = "Proposal"
                             THEN m.root ELSE s.proposal_hash,
           t.seen_signers = IF Cardinality(m.signers) > 1
                            THEN s.seen_signers \cup {m.signers} ELSE s.seen_signers,
           t.roots = s.roots
    PROVE  Sourced(r, H, k, o, t)
  <1>1. ASSUME NEW c \in Counters, t.message_counts[c] > 0
        PROVE  \E j \in H :
                  /\ Traffic[r][j].signers = {o} /\ Traffic[r][j].slot = t.slot
                  /\ c \in CountersOf(Traffic[r][j])
                  /\ Traffic[r][j].kind = "Consensus" => Traffic[r][j].round = t.round
    <2>1. CASE c \in CountersOf(m)
      BY <2>1
    <2>2. CASE c \notin CountersOf(m)
      <3>1. s.message_counts[c] > 0
        BY <1>1, <2>2 DEF record
      <3>. QED
        BY <3>1 DEF Sourced
    <2>. QED
      BY <2>1, <2>2
  <1>2. ASSUME t.proposal_hash # NoRoot
        PROVE  \E j \in H :
                  /\ Traffic[r][j].signers = {o} /\ Traffic[r][j].slot = t.slot
                  /\ Traffic[r][j].round = t.round /\ Traffic[r][j].type = "Proposal"
                  /\ Traffic[r][j].root = t.proposal_hash
    <2>1. CASE m.data # NoRoot /\ m.type = "Proposal"
      BY <2>1
    <2>2. CASE ~(m.data # NoRoot /\ m.type = "Proposal")
      BY <1>2, <2>2 DEF Sourced
    <2>. QED
      BY <2>1, <2>2
  <1>3. ASSUME NEW g \in t.seen_signers
        PROVE  \E j \in H : Traffic[r][j].signers = g /\ o \in g /\ Traffic[r][j].slot = t.slot
    <2>1. CASE g = m.signers
      BY <2>1
    <2>2. CASE g # m.signers
      BY <2>2 DEF Sourced
    <2>. QED
      BY <2>1, <2>2
  <1>4. \A x \in DOMAIN RootBudget : \A y \in t.roots[x] : \E j \in H :
           /\ Traffic[r][j].signers = {o} /\ Traffic[r][j].slot = t.slot
           /\ Traffic[r][j].type = x /\ y \in entry_roots(Traffic[r][j])
    BY DEF Sourced
  <1>5. /\ \E a \in SignedBy(r, o) : a.slot = t.slot
        /\ is_committee_role(r) => k
        /\ t.round = FIRST_ROUND \/ \E j \in H :
              /\ o \in Traffic[r][j].signers
              /\ Traffic[r][j].slot = t.slot /\ Traffic[r][j].round = t.round
    BY DEF Sourced
  <1>. QED
    BY ONLY <1>1, <1>2, <1>3, <1>4, <1>5 DEF Sourced

\* And so is a packet of partial signatures.
LEMMA SourcedPartial ==
    ASSUME NEW r, NEW H, NEW k, NEW i \in H, NEW m, m = Traffic[r][i], m.kind = "Partial",
           NEW o, m.signers = {o},
           NEW s, Sourced(r, H, k, o, s), s.slot = m.slot,
           s.message_counts \in [Counters -> 0..MAX_MESSAGES_PER_ROUND],
           NEW t, t.slot = m.slot, t.round = s.round,
           t.message_counts = record(s.message_counts, m),
           t.proposal_hash = s.proposal_hash, t.seen_signers = s.seen_signers,
           RootsAdded(s, t, m)
    PROVE  Sourced(r, H, k, o, t)
  <1>1. ASSUME NEW c \in Counters, t.message_counts[c] > 0
        PROVE  \E j \in H :
                  /\ Traffic[r][j].signers = {o} /\ Traffic[r][j].slot = t.slot
                  /\ c \in CountersOf(Traffic[r][j])
                  /\ Traffic[r][j].kind = "Consensus" => Traffic[r][j].round = t.round
    <2>1. CASE c \in CountersOf(m)
      BY <2>1
    <2>2. CASE c \notin CountersOf(m)
      <3>1. s.message_counts[c] > 0
        BY <1>1, <2>2 DEF record
      <3>. QED
        BY <3>1 DEF Sourced
    <2>. QED
      BY <2>1, <2>2
  <1>2. ASSUME NEW x \in DOMAIN RootBudget, NEW y \in t.roots[x]
        PROVE  \E j \in H :
                  /\ Traffic[r][j].signers = {o} /\ Traffic[r][j].slot = t.slot
                  /\ Traffic[r][j].type = x /\ y \in entry_roots(Traffic[r][j])
    <2>1. CASE x = m.type /\ y \in entry_roots(m)
      BY <2>1
    <2>2. CASE ~(x = m.type /\ y \in entry_roots(m))
      <3>1. y \in s.roots[x]
        BY <2>2 DEF RootsAdded
      <3>. QED
        BY <3>1 DEF Sourced
    <2>. QED
      BY <2>1, <2>2
  <1>. QED
    BY <1>1, <1>2 DEF Sourced

\* More of what a message that passes the checks satisfies.
LEMMA SignatureChecked ==
    ASSUME Clock, NEW m, m.slot \in Nat, check_failure(m) = "none"
    PROVE  Verifies(m)
  <1>1. First(IF m.kind = "Consensus" THEN consensus_rules(m) ELSE partial_rules(m)) = "none"
    BY OuterFacts
  <1>2. PICK a \in Rules, b \in Rules, c \in Rules, d \in Rules, e \in Rules :
           /\ e = signature_rules(m)
           /\ (IF m.kind = "Consensus" THEN consensus_rules(m) ELSE partial_rules(m))
                = a \o b \o c \o d \o e
    <2>1. /\ validate_role_for_fork(m.slot) \in Rules /\ signature_rules(m) \in Rules
          /\ validate_consensus_message_semantics(m) \in Rules
          /\ validate_qbft_logic(m) \in Rules
          /\ validate_qbft_message_by_duty_logic(m) \in Rules
          /\ validate_partial_signature_message_semantics(m) \in Rules
          /\ retirement_rules \in Rules
          /\ validate_partial_sig_messages_by_duty_logic(m) \in Rules
      BY ForkFacts, ConsensusSemanticsFacts, QbftLogicFacts, QbftDutyFacts, SignatureFacts,
         PartialSemanticsFacts, RetirementFacts, PartialDutyFacts
    <2>2. CASE m.kind = "Consensus"
      BY <2>1, <2>2 DEF consensus_rules
    <2>3. CASE m.kind # "Consensus"
      BY <2>1, <2>3 DEF partial_rules
    <2>. QED
      BY <2>2, <2>3
  <1>3. /\ a \o b \o c \o d \o e \in Rules
        /\ a \o b \o c \o d \o e = <<>> => e = <<>>
    BY ONLY ConcatFacts5, a \in Rules, b \in Rules, c \in Rules, d \in Rules, e \in Rules
  <1>4. signature_rules(m) = <<>>
    BY <1>1, <1>2, <1>3, FirstFacts
  <1>. QED
    BY <1>4, OneFailure DEF signature_rules, When, Failures, Verifies

LEMMA PartialTypeFacts ==
    ASSUME NEW m, validate_partial_signature_message_semantics(m) = <<>>
    PROVE  m.type \in partial_signature_types(role)
  BY SMTT(60), OneFailure, NoFailure, ConcatFacts
     DEF validate_partial_signature_message_semantics, When, Failures

LEMMA PassedFacts ==
    ASSUME Clock, NEW m, m.slot \in Nat, m.kind \in {"Consensus", "Partial"},
           check_failure(m) = "none"
    PROVE  /\ Verifies(m)
           /\ m.kind = "Consensus" => Cardinality(m.signers) = 1 \/ m.type = "Commit"
           /\ m.kind = "Partial" => m.type \in partial_signature_types(role)
  <1>1. /\ m.signers # {} /\ m.signers \subseteq Committee
        /\ First(IF m.kind = "Consensus" THEN consensus_rules(m)
                 ELSE partial_rules(m)) = "none"
    BY OuterFacts
  <1>2. CASE m.kind = "Consensus"
    <2>1. ~(Cardinality(m.signers) > 1 /\ m.type # "Commit")
      BY <1>1, <1>2, ConsensusRulesFacts, ConsensusSemanticsFacts
    <2>2. Cardinality(m.signers) \in Nat \ {0}
      BY <1>1, SignersFacts
    <2>3. Cardinality(m.signers) = 1 \/ m.type = "Commit"
      BY <2>1, <2>2, SMT
    <2>. QED
      BY <1>2, <2>3, SignatureChecked
  <1>3. CASE m.kind = "Partial"
    BY <1>1, <1>3, PartialRulesFacts, PartialTypeFacts, SignatureChecked
  <1>. QED
    BY <1>2, <1>3

\* Only preferences have a root budget.
LEMMA BudgetedRole ==
    ASSUME NEW r \in Roles, NEW k \in partial_signature_types(r), k \in DOMAIN RootBudget
    PROVE  r = "ProposerPreferences"
  BY DEF Roles, partial_signature_types, RootBudget

\* A committee of which no index is known has no duties.
LEMMA UnknownCommittee ==
    ASSUME Types, is_committee_role(role), ~indexed, NEW slot
    PROVE  current_limit(slot) = 0
  <1>1. validator_indices = {} /\ validator_count = 0
    BY IndicesFacts DEF indexed
  <1>2. current_limit(slot) = CommitteeLimit(validator_indices, validator_count)
    BY CommitteeLimitIs DEF current_limit, validator_count
  <1>3. SLOTS_PER_EPOCH \in Nat \ {0}
    BY ClockFacts
  <1>. QED
    BY <1>1, <1>2, <1>3 DEF CommitteeLimit

LEMMA DutyCountNat ==
    ASSUME NEW op, NEW e \in Nat
    PROVE  get_duty_count(op, e) \in Nat
  <1>1. PICK A \in SUBSET slots_of(e) : A = {s \in slots_of(e) : has_signer_state(op, s)}
    OBVIOUS
  <1>2. A \in SUBSET A
    OBVIOUS
  <1>3. Cardinality(A) \in Nat
    BY <1>2, EpochFinite
  <1>. QED
    BY <1>1, <1>3 DEF get_duty_count

\* What a message that passed the checks leaves behind is sourced.
LEMMA AfterSourced ==
    ASSUME Clock, RingInv, NEW m, m.slot \in Nat, m.round \in Nat,
           m.kind \in {"Consensus", "Partial"}, Admitted(m),
           m.kind = "Consensus" => Cardinality(m.signers) = 1 \/ m.type = "Commit",
           NEW r, NEW G, NEW k, is_committee_role(r) => k,
           NEW i \in DOMAIN Traffic[r], m = Traffic[r][i], Verifies(m),
           NEW o \in m.signers,
           m.kind = "Consensus" \/ root_budget_failure(operators[o], m) = "none" => i \in G,
           has_signer_state(operators[o], m.slot) =>
              Sourced(r, G, k, o, get_signer_state(operators[o], m.slot)),
           NEW op, op = After(m)[o]
    PROVE  /\ Sourced(r, G, k, o, get_signer_state(op, m.slot))
           /\ op.max_slot \in {operators[o].max_slot, m.slot}
  <1>1. /\ DOMAIN operators = Committee /\ o \in Committee /\ IsOperatorState(operators[o])
        /\ m.signers # {} /\ m.signers \subseteq Committee /\ Begun(m.slot)
    BY InTimeFacts DEF RingInv, Admitted
  <1>2. Cardinality(m.signers) = 1 => m.signers = {o} /\ o = CHOOSE x \in m.signers : TRUE
    BY <1>1, SignersFacts
  <1>3. m \in SignedBy(r, o)
    BY DEF SignedBy
  <1>4. PICK old : old = get_signer_state(operators[o], m.slot)
    OBVIOUS
  <1>5. CASE m.kind = "Consensus"
    <2>1. op = update(operators[o], m)
      BY <1>1, <1>5 DEF After, update_for_consensus_message
    <2>2. has_signer_state(operators[o], m.slot) => old.round \in Nat
      BY <1>1, <1>4, HasFacts DEF IsSignerState
    <2>3. Cardinality(m.signers) # 1 => CountersOf(m) = {} /\ ~OverLimits(old.message_counts, m)
      BY <1>5 DEF Admitted, OverLimits
    <2>4. Cardinality(m.signers) = 1 /\ has_signer_state(operators[o], m.slot) =>
             /\ ~(m.round < old.round)
             /\ ~(m.round = old.round /\ OverLimits(old.message_counts, m))
      BY <1>4, <1>5 DEF Admitted
    <2>5. has_signer_state(operators[o], m.slot) /\ m.round <= old.round
            => ~OverLimits(old.message_counts, m)
      BY <2>2, <2>3, <2>4
    <2>6. PICK s : s = IF has_signer_state(operators[o], m.slot) /\ m.round <= old.round
                       THEN old ELSE new_signer_state(m.slot, m.round)
      OBVIOUS
    <2>7. PICK t : t = get_signer_state(op, m.slot)
      OBVIOUS
    <2>8. /\ op.max_slot \in {operators[o].max_slot, m.slot}
          /\ s.slot = m.slot /\ t.slot = m.slot /\ t.round = s.round
          /\ s.message_counts \in [Counters -> 0..MAX_MESSAGES_PER_ROUND]
          /\ t.message_counts = record(s.message_counts, m)
          /\ t.proposal_hash = IF m.data # NoRoot /\ m.type = "Proposal"
                               THEN m.root ELSE s.proposal_hash
          /\ t.seen_signers = IF Cardinality(m.signers) > 1
                              THEN s.seen_signers \cup {m.signers} ELSE s.seen_signers
          /\ t.roots = s.roots
      BY <1>1, <1>4, <2>1, <2>5, <2>6, <2>7, UpdateFields
    <2>9. m.signers = {o} => s.round = m.round
      <3>1. Cardinality({o}) = 1
        BY FS_Singleton
      <3>2. new_signer_state(m.slot, m.round).round = m.round
        BY NewSignerFields
      <3>. QED
        BY <2>2, <2>4, <2>6, <3>1, <3>2
    <2>10. Sourced(r, G, k, o, s)
      <3>1. CASE has_signer_state(operators[o], m.slot) /\ m.round <= old.round
        BY <1>4, <2>6, <3>1
      <3>2. CASE ~(has_signer_state(operators[o], m.slot) /\ m.round <= old.round)
        BY <1>3, <1>5, <2>6, <3>2, SourcedNew
      <3>. QED
        BY <3>1, <3>2
    <2>11. m.signers # {o} => CountersOf(m) = {} /\ m.type # "Proposal"
      BY <1>2, <1>5, <2>3
    <2>12. i \in G
      BY <1>5
    <2>13. Sourced(r, G, k, o, t)
      BY <1>5, <2>8, <2>9, <2>10, <2>11, <2>12, SourcedConsensus, ZenonT(60)
    <2>. QED
      BY <2>7, <2>8, <2>13
  <1>6. CASE m.kind = "Partial"
    <2>1. m.signers = {o} /\ o = CHOOSE x \in m.signers : TRUE
      BY <1>2, <1>6 DEF Admitted
    <2>2. op = update_for_partial_signature(operators[o], m)
      BY <1>1, <1>6, <2>1 DEF After
    <2>3. has_signer_state(operators[o], m.slot) => ~OverLimits(old.message_counts, m)
      BY <1>4, <1>6 DEF Admitted
    <2>4. PICK s : s = IF has_signer_state(operators[o], m.slot) THEN old
                       ELSE new_signer_state(m.slot, FIRST_ROUND)
      OBVIOUS
    <2>5. PICK t : t = get_signer_state(op, m.slot)
      OBVIOUS
    <2>6. /\ op.max_slot \in {operators[o].max_slot, m.slot}
          /\ s.slot = m.slot
          /\ s.message_counts \in [Counters -> 0..MAX_MESSAGES_PER_ROUND]
          /\ root_budget_failure(operators[o], m) # "none" => t = s
          /\ root_budget_failure(operators[o], m) = "none" =>
               /\ t.slot = m.slot /\ t.round = s.round
               /\ t.message_counts = record(s.message_counts, m)
               /\ t.proposal_hash = s.proposal_hash /\ t.seen_signers = s.seen_signers
               /\ RootsAdded(s, t, m)
      BY <1>1, <1>4, <2>2, <2>3, <2>4, <2>5, PartialFields
    <2>7. Sourced(r, G, k, o, s)
      <3>1. CASE has_signer_state(operators[o], m.slot)
        BY <1>4, <2>4, <3>1
      <3>2. CASE ~has_signer_state(operators[o], m.slot)
        BY <1>3, <2>4, <3>2, SourcedNew
      <3>. QED
        BY <3>1, <3>2
    <2>8. Sourced(r, G, k, o, t)
      <3>1. CASE root_budget_failure(operators[o], m) # "none"
        BY <2>6, <2>7, <3>1
      <3>2. CASE root_budget_failure(operators[o], m) = "none"
        <4>1. i \in G
          BY <3>2
        <4>. QED
          BY <1>6, <2>1, <2>6, <2>7, <3>2, <4>1, SourcedPartial
      <3>. QED
        BY <3>1, <3>2
    <2>. QED
      BY <2>5, <2>6, <2>8
  <1>. QED
    BY <1>5, <1>6

\* A committee that a message is admitted for is known.
LEMMA AdmittedKnown ==
    ASSUME Types, OriginInv, NEW m, m.slot \in Nat, Admitted(m), is_committee_role(role)
    PROVE  indexed
  <1>1. PICK o \in m.signers : o \in Committee /\ ~validate_duty_count(o, m.slot)
    BY DEF Admitted
  <1>2. CASE has_signer_state(operators[o], m.slot)
    BY <1>1, <1>2 DEF OriginInv, Sourced
  <1>3. CASE ~has_signer_state(operators[o], m.slot)
    <2>1. SUFFICES ASSUME ~indexed PROVE FALSE
      OBVIOUS
    <2>2. current_limit(m.slot) = 0
      BY <2>1, UnknownCommittee
    <2>3. epoch_of(m.slot) \in Nat
      BY SlotsOfEpoch
    <2>4. get_duty_count(operators[o], epoch_of(m.slot)) \in Nat
      BY <2>3, DutyCountNat
    <2>. QED
      BY <1>1, <1>3, <2>2, <2>4 DEF validate_duty_count, NoLimit
  <1>. QED
    BY <1>2, <1>3

LEMMA OriginInit == Init => OriginInv
  <1>1. SUFFICES ASSUME Init PROVE OriginInv
    OBVIOUS
  <1>2. Clock
    BY <1>1, TypesInit, ClockOfTypes
  <1>3. Heard = {}
    BY <1>1 DEF Init, Heard
  <1>4. PICK op : op = new_operator_state(role)
    OBVIOUS
  <1>5. op.max_slot = 0 /\ \A x \in Nat : ~has_signer_state(op, x)
    BY <1>2, <1>4, FreshFacts DEF new_operator_state
  <1>6. \A o \in Committee : operators[o] = op
    BY <1>1, <1>4 DEF Init
  <1>. QED
    BY <1>3, <1>5, <1>6 DEF OriginInv

LEMMA QuietOrigin ==
    ASSUME Types, Types', OriginInv, Quiet
    PROVE  OriginInv'
  <1>1. role' = role /\ operators' = operators /\ accepted' = accepted
    BY DEF Quiet, Passes
  <1>2. Heard' = Heard
    BY <1>1 DEF Heard
  <1>3. PICK k \in BOOLEAN, l \in BOOLEAN : k = indexed /\ l = indexed' /\ (k => l)
    <2>1. indexed => indexed'
      BY <1>1, IndicesGrow DEF Quiet
    <2>2. indexed \in BOOLEAN /\ indexed' \in BOOLEAN
      BY DEF indexed
    <2>. QED
      BY <2>1, <2>2
  <1>4. PICK r, H : r = role /\ H = Heard
    OBVIOUS
  <1>5. ASSUME NEW o \in Committee, NEW x \in Nat, has_signer_state(operators[o], x)
        PROVE  Sourced(r, H, l, o, get_signer_state(operators[o], x))
    <2>1. Sourced(r, H, k, o, get_signer_state(operators[o], x))
      BY <1>3, <1>4, <1>5 DEF OriginInv
    <2>. QED
      BY <1>3, <2>1, SourcedGrows
  <1>6. \A i \in H : Verifies(message(i))'
    BY <1>1, <1>4 DEF OriginInv, message
  <1>7. role' # "ProposerPreferences" => \A o \in Committee :
          \/ operators'[o].max_slot = 0
          \/ \E i \in H : o \in message(i)'.signers /\ message(i)'.slot = operators'[o].max_slot
    BY <1>1, <1>4 DEF OriginInv, message
  <1>. QED
    BY <1>1, <1>2, <1>3, <1>4, <1>5, <1>6, <1>7 DEF OriginInv

LEMMA CleanOrigin ==
    ASSUME Types, RingInv, OriginInv, Clean, outdated(operators, current_slot)
    PROVE  OriginInv'
  <1>1. /\ operators' = [o \in Committee |-> new_operator_state(role)]
        /\ UNCHANGED <<role, now, view, accepted>>
    BY DEF Clean
  <1>2. Heard' = Heard
    BY <1>1 DEF Heard
  <1>3. PICK op : op = new_operator_state(role)
    OBVIOUS
  <1>4. op.max_slot = 0 /\ \A x \in Nat : ~has_signer_state(op, x)
    BY <1>3, ClockOfTypes, FreshFacts DEF new_operator_state
  <1>5. \A o \in Committee : operators'[o] = op
    BY <1>1, <1>3
  <1>6. \A i \in Heard : Verifies(message(i))'
    BY <1>1 DEF OriginInv, message
  <1>. QED
    BY <1>2, <1>4, <1>5, <1>6 DEF OriginInv

LEMMA ValidateOrigin ==
    ASSUME Types, RingInv, OriginInv, NEW i \in DOMAIN accepted, Validate(i),
           check_failure(message(i)) = "none"
    PROVE  OriginInv'
  <1>1. PICK m, ops, r, H, G, k : /\ m = message(i) /\ ops = operators' /\ r = role
                                  /\ H = Heard /\ G = Heard' /\ k = indexed
    OBVIOUS
  <1>2. /\ Clock /\ UNCHANGED <<role, now, view>> /\ m.slot \in Nat /\ m.round \in Nat
        /\ m.kind \in {"Consensus", "Partial"} /\ Admitted(m)
        /\ \A o \in Committee : o \notin m.signers => ops[o] = operators[o]
        /\ \A o \in m.signers : DiffersAt(operators[o], ops[o], m.slot)
        /\ accepted' = IF Accepts(m) THEN [accepted EXCEPT ![i] = accepted[i] + 1]
                       ELSE accepted
    BY <1>1, ValidatePasses, MessageFacts
  <1>3. ops = After(m)
    BY <1>1, <1>2 DEF Validate, After
  <1>4. /\ m = Traffic[r][i] /\ i \in DOMAIN Traffic[r] /\ k \in BOOLEAN /\ r \in Roles
        /\ \A j : message(j) = Traffic[r][j] /\ message(j)' = Traffic[r][j]
    BY <1>1, <1>2 DEF message, Types, Clock, indexed
  <1>5. H \subseteq G /\ G \subseteq H \cup {i} /\ (Accepts(m) => i \in G)
        /\ (i \in G /\ i \notin H => Accepts(m))
    <2>1. \A j \in DOMAIN accepted : accepted[j] \in Nat
      BY MessageFacts
    <2>2. CASE Accepts(m)
      <3>1. /\ DOMAIN accepted' = DOMAIN accepted /\ accepted'[i] = accepted[i] + 1
            /\ \A j \in DOMAIN accepted : j # i => accepted'[j] = accepted[j]
        BY <1>2, <2>2
      <3>. QED
        BY <1>1, <2>1, <2>2, <3>1 DEF Heard
    <2>3. CASE ~Accepts(m)
      BY <1>1, <1>2, <2>3 DEF Heard
    <2>. QED
      BY <2>2, <2>3
  <1>6. /\ Verifies(m)
        /\ m.kind = "Consensus" => Cardinality(m.signers) = 1 \/ m.type = "Commit"
        /\ m.kind = "Partial" => m.type \in partial_signature_types(r)
    BY <1>1, <1>2, PassedFacts
  <1>7. \A j \in G : Verifies(Traffic[r][j])
    BY <1>1, <1>4, <1>5, <1>6 DEF OriginInv
  <1>8. is_committee_role(r) => k
    BY <1>1, <1>2, AdmittedKnown
  <1>9. m.signers \subseteq Committee /\ m.signers # {}
    BY <1>2 DEF Admitted
  <1>10. \A o \in m.signers :
            m.kind = "Consensus" \/ root_budget_failure(operators[o], m) = "none" => i \in G
    <2>1. m.kind = "Consensus" => Accepts(m)
      BY <1>1 DEF Accepts, validation_failure
    <2>2. ASSUME NEW o \in m.signers, m.kind = "Partial",
                 root_budget_failure(operators[o], m) = "none"
          PROVE  Accepts(m)
      <3>1. Cardinality(m.signers) = 1
        BY <1>2, <2>2 DEF Admitted
      <3>2. o = CHOOSE x \in m.signers : TRUE
        BY <1>9, <3>1, SignersFacts
      <3>. QED
        BY <1>1, <2>2, <3>2 DEF Accepts, validation_failure
    <2>. QED
      BY <1>2, <1>5, <2>1, <2>2
  <1>11. ASSUME NEW o \in Committee, NEW x \in Nat, has_signer_state(operators[o], x)
         PROVE  Sourced(r, G, k, o, get_signer_state(operators[o], x))
    <2>1. Sourced(r, H, k, o, get_signer_state(operators[o], x))
      BY <1>1, <1>11 DEF OriginInv
    <2>. QED
      BY <1>4, <1>5, <2>1, SourcedGrows
  <1>12. ASSUME NEW o \in m.signers
         PROVE  /\ Sourced(r, G, k, o, get_signer_state(ops[o], m.slot))
                /\ ops[o].max_slot \in {operators[o].max_slot, m.slot}
    <2>1. m.kind = "Consensus" \/ root_budget_failure(operators[o], m) = "none" => i \in G
      BY <1>10
    <2>2. has_signer_state(operators[o], m.slot) =>
             Sourced(r, G, k, o, get_signer_state(operators[o], m.slot))
      BY <1>2, <1>9, <1>11
    <2>3. PICK op : op = After(m)[o]
      OBVIOUS
    <2>4. /\ Sourced(r, G, k, o, get_signer_state(op, m.slot))
          /\ op.max_slot \in {operators[o].max_slot, m.slot}
      BY <1>2, <1>4, <1>6, <1>8, <2>1, <2>2, <2>3, AfterSourced
    <2>. QED
      BY <1>3, <2>3, <2>4
  <1>13. ASSUME NEW o \in Committee, NEW x \in Nat, has_signer_state(ops[o], x)
         PROVE  Sourced(r, G, k, o, get_signer_state(ops[o], x))
    <2>1. CASE o \notin m.signers
      BY <1>2, <1>11, <1>13, <2>1
    <2>2. CASE o \in m.signers
      <3>1. CASE x = m.slot
        BY <1>12, <2>2, <3>1
      <3>2. CASE x # m.slot
        <4>1. /\ get_signer_state(ops[o], x) = get_signer_state(operators[o], x)
              /\ has_signer_state(operators[o], x)
          BY <1>2, <1>13, <2>2, <3>2 DEF DiffersAt
        <4>. QED
          BY <1>11, <4>1
      <3>. QED
        BY <3>1, <3>2
    <2>. QED
      BY <2>1, <2>2
  <1>14. ASSUME r # "ProposerPreferences", NEW o \in Committee
         PROVE  \/ ops[o].max_slot = 0
                \/ \E j \in G : o \in Traffic[r][j].signers /\ Traffic[r][j].slot = ops[o].max_slot
    <2>1. \/ operators[o].max_slot = 0
          \/ \E j \in G : o \in Traffic[r][j].signers /\ Traffic[r][j].slot = operators[o].max_slot
      BY <1>1, <1>4, <1>5, <1>14 DEF OriginInv
    <2>2. CASE o \notin m.signers
      BY <1>2, <2>1, <2>2
    <2>3. CASE o \in m.signers
      <3>1. m.kind = "Partial" => m.type \notin DOMAIN RootBudget
        BY <1>4, <1>6, <1>14, BudgetedRole
      <3>2. m.kind = "Partial" => root_budget_failure(operators[o], m) = "none"
        BY <3>1 DEF root_budget_failure
      <3>3. i \in G
        BY <1>2, <1>10, <2>3, <3>2
      <3>. QED
        BY <1>4, <1>12, <2>1, <2>3, <3>3
    <2>. QED
      BY <2>2, <2>3
  <1>15. role' = r /\ indexed' = k /\ operators' = ops /\ Heard' = G
    BY <1>1, <1>2 DEF indexed, validator_indices
  <1>. QED
    BY <1>4, <1>7, <1>13, <1>14, <1>15 DEF OriginInv

LEMMA OriginStep == ValidatorInv /\ OriginInv /\ [Next]_vars => OriginInv'
  <1>. SUFFICES ASSUME ValidatorInv, OriginInv, [Next]_vars PROVE OriginInv'
    OBVIOUS
  <1>0. Types /\ RingInv /\ Types'
    BY TypesStep DEF ValidatorInv
  <1>1. ASSUME Quiet PROVE OriginInv'
    BY <1>0, <1>1, QuietOrigin
  <1>2. ASSUME UNCHANGED vars PROVE OriginInv'
    <2>1. Quiet
      BY <1>2 DEF vars, Quiet, Passes
    <2>. QED
      BY <1>1, <2>1
  <1>3. ASSUME NEW i \in DOMAIN accepted, Validate(i) PROVE OriginInv'
    <2>1. CASE check_failure(message(i)) # "none"
      BY <1>2, <1>3, <2>1, ValidateFails
    <2>2. CASE check_failure(message(i)) = "none"
      BY <1>0, <1>3, <2>2, ValidateOrigin
    <2>. QED
      BY <2>1, <2>2
  <1>4. CASE Clean
    <2>1. CASE outdated(operators, current_slot)
      BY <1>0, <1>4, <2>1, CleanOrigin
    <2>2. CASE ~outdated(operators, current_slot)
      <3>1. Quiet
        BY <1>4, <2>2 DEF Clean, Quiet, Passes
      <3>. QED
        BY <1>1, <3>1
    <2>. QED
      BY <2>1, <2>2
  <1>5. CASE Tick
    <2>1. Quiet
      BY <1>5 DEF Tick, Quiet, Passes
    <2>. QED
      BY <1>1, <2>1
  <1>6. CASE LearnRegistry
    <2>1. view.indices \subseteq view'.indices
      BY <1>0, <1>6 DEF LearnRegistry, Types
    <2>2. Quiet
      BY <1>6, <2>1 DEF LearnRegistry, Quiet, Passes
    <2>. QED
      BY <1>1, <2>2
  <1>7. CASE PollDuties
    <2>1. view.indices \subseteq view'.indices
      BY <1>0, <1>7 DEF PollDuties, Types
    <2>2. Quiet
      BY <1>7, <2>1 DEF PollDuties, Quiet, Passes
    <2>. QED
      BY <1>1, <2>2
  <1>. QED
    BY <1>2, <1>3, <1>4, <1>5, <1>6, <1>7 DEF Next

\* Whatever the duty state says of an operator, the operator said.
THEOREM OriginInvariant == Spec => []OriginInv
  <1>1. Init => OriginInv
    BY OriginInit
  <1>2. ValidatorInv /\ OriginInv /\ [Next]_vars => OriginInv'
    BY OriginStep
  <1>. QED
    BY <1>1, <1>2, ValidatorInvariant, PTL DEF Spec

---------------------------------------------------------------------------
(* What honest messages meet.                                              *)

\* The first failure, if there is one, is not a reason to reject.
Harmless(a) == First(a) \in IgnoredFailures \cup {"none"}

LEMMA HarmlessEmpty == Harmless(<<>>)
  BY DEF Harmless, First

LEMMA HarmlessConcat ==
    ASSUME NEW a \in Rules, NEW b \in Rules, Harmless(a), a = <<>> => Harmless(b)
    PROVE  a \o b \in Rules /\ Harmless(a \o b)
  <1>1. a \o b \in Rules
    BY ConcatFacts
  <1>2. CASE a = <<>>
    <2>1. a \o b = b
      BY <1>2 DEF Rules
    <2>. QED
      BY <1>1, <1>2, <2>1
  <1>3. CASE a # <<>>
    <2>1. a \o b # <<>>
      BY <1>3, ConcatFacts
    <2>2. Head(a \o b) = Head(a)
      BY <1>3 DEF Rules
    <2>. QED
      BY <1>1, <1>3, <2>1, <2>2 DEF Harmless, First
  <1>. QED
    BY <1>2, <1>3

LEMMA HarmlessConcat5 ==
    ASSUME NEW a \in Rules, NEW b \in Rules, NEW c \in Rules, NEW d \in Rules, NEW e \in Rules,
           Harmless(a), Harmless(b), Harmless(c), Harmless(d), Harmless(e)
    PROVE  Harmless(a \o b \o c \o d \o e)
  <1>1. PICK x \in Rules : x = a \o b /\ Harmless(x)
    BY HarmlessConcat
  <1>2. PICK y \in Rules : y = x \o c /\ Harmless(y)
    BY <1>1, HarmlessConcat
  <1>3. PICK z \in Rules : z = y \o d /\ Harmless(z)
    BY <1>2, HarmlessConcat
  <1>4. Harmless(z \o e)
    BY <1>3, HarmlessConcat
  <1>. QED
    BY <1>1, <1>2, <1>3, <1>4

\* A rule of one failure.
LEMMA WhenFacts ==
    ASSUME NEW c, NEW f \in Failures
    PROVE  /\ When(c, f) \in Rules
           /\ ~c => When(c, f) = <<>>
           /\ ~c \/ f \in IgnoredFailures => Harmless(When(c, f))
  <1>1. When(c, f) \in Rules /\ (~c => When(c, f) = <<>>)
    BY OneFailure, NoFailure DEF When
  <1>2. Head(<<f>>) = f /\ <<f>> # <<>>
    BY OneFailure
  <1>. QED
    BY <1>1, <1>2, HarmlessEmpty DEF When, Harmless, First

LEMMA WhenEmpty ==
    ASSUME NEW c, NEW f
    PROVE  When(c, f) = <<>> <=> ~c
  BY DEF When

\* The registry, the clock and the duties are reasons to ignore, at most.
LEMMA RegistryHarmless == Harmless(registry_rules)
  <1>1. PICK a \in Rules, b \in Rules :
           /\ a = When(is_committee_role(role) /\ ~view.registered, "NonExistentCommitteeID")
           /\ b = When(~view.registered, "UnknownValidator")
           /\ Harmless(a) /\ Harmless(b)
    BY WhenFacts DEF Failures, IgnoredFailures
  <1>. QED
    BY <1>1, HarmlessConcat DEF registry_rules

LEMMA BeaconHarmless ==
    ASSUME NEW m
    PROVE  Harmless(validate_beacon_duty(m))
  <1>. DEFINE tolerated == /\ m.type = "RandaoPartialSig"
                           /\ start_slot(epoch_of(m.slot)) = m.slot
                           /\ current_slot <= m.slot
                           /\ epoch_of(m.slot) \notin view.fetched
  <1>0. /\ "NoShareMetadata" \in Failures \cap IgnoredFailures
        /\ "NoDuty" \in Failures \cap IgnoredFailures
    BY DEF Failures, IgnoredFailures
  <1>1. PICK a \in Rules, b \in Rules, c \in Rules, d \in Rules, e \in Rules, f \in Rules :
           /\ a = When(role = "Proposer" /\ ~tolerated /\ ~indexed, "NoShareMetadata")
           /\ b = When(role = "Proposer" /\ ~tolerated /\ ~is_validator_proposer_at_slot(m.slot),
                       "NoDuty")
           /\ c = When(role = "ProposerPreferences" /\ not_assigned(m.slot)
                         /\ m.slot \notin view.local, "NoDuty")
           /\ d = When(role = "PTCAttester" /\ indexed /\ not_assigned(m.slot), "NoDuty")
           /\ e = When(role = "SyncCommittee" /\ ~indexed, "NoShareMetadata")
           /\ f = When(role = "SyncCommittee" /\ 1 \notin SyncValidators, "NoDuty")
           /\ Harmless(a) /\ Harmless(b) /\ Harmless(c) /\ Harmless(d) /\ Harmless(e) /\ Harmless(f)
    BY <1>0, WhenFacts
  <1>2. validate_beacon_duty(m) = a \o b \o c \o d \o e \o f
    BY <1>1 DEF validate_beacon_duty
  <1>. HIDE DEF tolerated
  <1>3. a \o b \o c \o d \o e \in Rules /\ Harmless(a \o b \o c \o d \o e)
    <2>1. Harmless(a) /\ Harmless(b) /\ Harmless(c) /\ Harmless(d) /\ Harmless(e)
      BY <1>1
    <2>2. a \o b \o c \o d \o e \in Rules
      BY ONLY ConcatFacts5, a \in Rules, b \in Rules, c \in Rules, d \in Rules, e \in Rules
    <2>3. Harmless(a \o b \o c \o d \o e)
      BY ONLY <2>1, HarmlessConcat5, a \in Rules, b \in Rules, c \in Rules, d \in Rules,
              e \in Rules
    <2>. QED
      BY <2>2, <2>3
  <1>5. PICK x \in Rules : x = a \o b \o c \o d \o e /\ Harmless(x)
    BY <1>3, Zenon
  <1>4. Harmless(x \o f)
    BY <1>1, <1>5, HarmlessConcat
  <1>. QED
    BY <1>2, <1>4, <1>5, Zenon

LEMMA SlotTimeHarmless ==
    ASSUME NEW slot
    PROVE  Harmless(validate_slot_time(slot))
  <1>1. PICK a \in Rules, b \in Rules :
           /\ a = When(now < earliest(slot) - EARLY_MESSAGE_MARGIN, "EarlySlotMessage")
           /\ b = When(now > slot_start_time(slot + ttl) + LATE_MESSAGE_MARGIN, "LateSlotMessage")
           /\ Harmless(a) /\ Harmless(b)
    BY WhenFacts DEF Failures, IgnoredFailures
  <1>. QED
    BY <1>1, HarmlessConcat DEF validate_slot_time

LEMMA QbftDutyHarmless ==
    ASSUME Clock, NEW m, m.slot \in Nat
    PROVE  Harmless(validate_qbft_message_by_duty_logic(m))
  <1>1. PICK a \in Rules, b \in Rules, c \in Rules, d \in Rules :
           /\ a = When(~is_committee_role(role) /\ \E o \in m.signers : operators[o].max_slot > m.slot,
                       "SlotAlreadyAdvanced")
           /\ b = validate_beacon_duty(m) /\ c = validate_slot_time(m.slot)
           /\ d = When(\E o \in m.signers : validate_duty_count(o, m.slot), "ExcessiveDutyCount")
           /\ Harmless(a) /\ Harmless(b) /\ Harmless(c) /\ Harmless(d)
    <2>1. "SlotAlreadyAdvanced" \in Failures \cap IgnoredFailures
          /\ "ExcessiveDutyCount" \in Failures \cap IgnoredFailures
      BY DEF Failures, IgnoredFailures
    <2>. QED
      BY <2>1, WhenFacts, BeaconFacts, SlotTimeFacts, BeaconHarmless, SlotTimeHarmless
  <1>3. PICK x \in Rules : x = a \o b /\ Harmless(x)
    BY <1>1, HarmlessConcat
  <1>4. PICK y \in Rules : y = x \o c /\ Harmless(y)
    BY <1>1, <1>3, HarmlessConcat
  <1>5. Harmless(y \o d)
    BY <1>1, <1>4, HarmlessConcat
  <1>. QED
    BY <1>1, <1>3, <1>4, <1>5 DEF validate_qbft_message_by_duty_logic

LEMMA HonestFacts ==
    ASSUME Types, NEW i \in DOMAIN accepted, message(i).honest, NEW m, m = message(i)
    PROVE  /\ Clock /\ role \in Scenarios /\ m.slot \in Nat /\ m.round \in Nat
           /\ m = Traffic[role][i] /\ i \in DOMAIN Traffic[role]
           /\ m.kind \in {"Consensus", "Partial"}
           /\ m.flaws = {} /\ m.signers # {} /\ m.signers \subseteq Committee
           /\ m.topic = fork_at(m.slot) /\ m.domain = fork_at(m.slot)
           /\ m.kind = "Consensus" => ProtocolConsensus(role, m)
           /\ m.kind = "Partial" => ProtocolPartial(role, m)
           /\ ProtocolDuty(role, m)
           /\ \A o \in m.signers : ProtocolSlots(role, o, m.slot)
           /\ Cardinality(m.signers) = 1 => ProtocolOnce(role, i)
  <1>1. /\ Clock /\ role \in Scenarios /\ m.slot \in Nat /\ m.round \in Nat
        /\ m = Traffic[role][i] /\ i \in DOMAIN Traffic[role]
        /\ m.kind \in {"Consensus", "Partial"}
    BY MessageFacts DEF Types, message
  <1>. QED
    BY <1>1, HonestAssumption

\* The encoding, the topic, the domain and the committee are right.
LEMMA OuterEmpty ==
    ASSUME NEW m, m.flaws = {}, m.signers # {}, m.signers \subseteq Committee,
           m.topic = fork_at(m.slot), m.domain = fork_at(m.slot)
    PROVE  check_failure(m) =
              IF First(registry_rules) # "none" THEN First(registry_rules)
              ELSE First(IF m.kind = "Consensus" THEN consensus_rules(m) ELSE partial_rules(m))
  <1>1. structure_rules(m) = <<>>
    BY NoFailure, ConcatFacts DEF structure_rules, When
  <1>2. validate_topic_and_domain(m) = <<>>
    BY NoFailure, ConcatFacts DEF validate_topic_and_domain, When
  <1>3. /\ When(~(m.signers \subseteq Committee), "SignerNotInCommittee") = <<>>
        /\ When("UndecodableMessageData" \in m.flaws, "UndecodableMessageData") = <<>>
    BY DEF When
  <1>4. PICK y \in Rules : y = registry_rules
    BY RegistryFacts
  <1>5. <<>> \o y \o <<>> \o <<>> \o <<>> = y
    BY DEF Rules
  <1>6. First(structure_rules(m) \o registry_rules \o validate_topic_and_domain(m)
              \o When(~(m.signers \subseteq Committee), "SignerNotInCommittee")
              \o When("UndecodableMessageData" \in m.flaws, "UndecodableMessageData"))
          = First(registry_rules)
    BY <1>1, <1>2, <1>3, <1>4, <1>5
  <1>. QED
    BY <1>6 DEF check_failure

\* The role is active.
LEMMA ForkEmpty ==
    ASSUME NEW m, ProtocolDuty(role, m)
    PROVE  validate_role_for_fork(m.slot) = <<>>
  BY NoFailure, ConcatFacts DEF validate_role_for_fork, ProtocolDuty, When

LEMMA SignatureEmpty ==
    ASSUME NEW m, m.flaws = {}
    PROVE  signature_rules(m) = <<>>
  BY DEF signature_rules, When

\* The content is what the protocol says.
LEMMA ConsensusEmpty ==
    ASSUME Clock, NEW m, m.round \in Nat, m.flaws = {}, m.signers # {},
           m.signers \subseteq Committee, ProtocolConsensus(role, m)
    PROVE  validate_consensus_message_semantics(m) = <<>>
  <1> DEFINE signers == Cardinality(m.signers)
             r1 == When(signers > 1 /\ m.type # "Commit", "NonDecidedWithMultipleSigners")
             r2 == When(signers > 1 /\ signers < quorum_size, "DecidedNotEnoughSigners")
             r3 == When(m.data # NoRoot /\ (m.type = "Prepare" \/ (m.type = "Commit" /\ signers = 1)),
                        "PrepareOrCommitWithFullData")
             r4 == When(m.data # NoRoot /\ m.data # m.root, "InvalidHash")
             r5 == When(m.round = 0, "ZeroRound")
             r6 == When(~is_qbft_role(role), "UnexpectedConsensusMessage")
             r7 == When(m.round > max_round(role), "RoundTooHigh")
             r8 == When("MismatchedIdentifier" \in m.flaws, "MismatchedIdentifier")
             r9 == When("prepares" \in m.carries /\ m.type # "Proposal",
                        "UnexpectedPrepareJustifications")
             r10 == When("justifications" \in m.carries /\ m.type \notin {"Proposal", "RoundChange"},
                         "UnexpectedRoundChangeJustifications")
             r11 == When("MalformedJustifications" \in m.flaws, "MalformedJustifications")
  <1>1. signers \in Nat \ {0} /\ \A x : Cardinality({x}) = 1
    BY SignersFacts, FS_Singleton
  <1>2. quorum_size \in Int
    <2>1. PICK n \in Nat : n = Cardinality(Committee)
      BY ValidatorAssumption, FS_CardinalityType
    <2>2. (n - 1) \div 3 \in Int
      OBVIOUS
    <2>. QED
      BY <2>1, <2>2 DEF quorum_size
  <1>3. max_round(role) \in Nat
    BY DEF max_round
  <1>4. m.round # 0 /\ ~(m.round > max_round(role)) /\ is_qbft_role(role)
    BY <1>3 DEF ProtocolConsensus, FIRST_ROUND
  <1>5. ~(signers > 1 /\ m.type # "Commit")
    BY <1>1 DEF ProtocolConsensus
  <1>6. ~(signers > 1 /\ signers < quorum_size)
    BY <1>1, <1>2 DEF ProtocolConsensus
  <1>7. /\ ~(m.data # NoRoot /\ (m.type = "Prepare" \/ (m.type = "Commit" /\ signers = 1)))
        /\ ~(m.data # NoRoot /\ m.data # m.root)
    BY <1>1 DEF ProtocolConsensus
  <1>8. /\ ~("prepares" \in m.carries /\ m.type # "Proposal")
        /\ ~("justifications" \in m.carries /\ m.type \notin {"Proposal", "RoundChange"})
    BY DEF ProtocolConsensus
  <1>9. /\ r1 = <<>> /\ r2 = <<>> /\ r3 = <<>> /\ r4 = <<>> /\ r5 = <<>> /\ r6 = <<>>
        /\ r7 = <<>> /\ r8 = <<>> /\ r9 = <<>> /\ r10 = <<>> /\ r11 = <<>>
    BY <1>4, <1>5, <1>6, <1>7, <1>8 DEF When
  <1>10. validate_consensus_message_semantics(m) =
           r1 \o r2 \o r3 \o r4 \o r5 \o r6 \o r7 \o r8 \o r9 \o r10 \o r11
    BY DEF validate_consensus_message_semantics
  <1> HIDE DEF r1, r2, r3, r4, r5, r6, r7, r8, r9, r10, r11
  <1>11. <<>> \o <<>> = <<>>
    OBVIOUS
  <1>. QED
    BY <1>9, <1>10, <1>11

LEMMA PartialEmpty ==
    ASSUME NEW m, m.flaws = {}, ProtocolPartial(role, m)
    PROVE  validate_partial_signature_message_semantics(m) = <<>>
  <1>1. /\ ~(Cardinality(m.signers) # 1) /\ ~(m.data # NoRoot)
        /\ ~(m.type \notin partial_signature_types(role)) /\ ~(m.entries = <<>>)
        /\ "InconsistentSigners" \notin m.flaws
    BY DEF ProtocolPartial
  <1>2. ~(~is_committee_role(role) /\ indexed /\ entry_validators(m) # {1})
    BY DEF ProtocolPartial
  <1>3. ~((m.type = "RequestAuth" \/ is_gloas_proposer_post(role, m))
            /\ Cardinality(entry_validators(m)) > 1)
    <2>1. SUFFICES ASSUME m.type = "RequestAuth" \/ is_gloas_proposer_post(role, m)
                   PROVE  ~(Cardinality(entry_validators(m)) > 1)
      OBVIOUS
    <2>2. ~is_committee_role(role)
      BY <1>1, <2>1 DEF is_committee_role, is_gloas_proposer_post, partial_signature_types
    <2>3. entry_validators(m) = {1}
      BY <2>2 DEF ProtocolPartial
    <2>4. Cardinality({1}) = 1
      BY FS_Singleton
    <2>. QED
      BY <2>3, <2>4
  <1>4. <<>> \o <<>> = <<>>
    OBVIOUS
  <1>5. /\ When(Cardinality(m.signers) # 1, "PartialSigOneSigner") = <<>>
        /\ When(m.data # NoRoot, "FullDataNotInConsensusMessage") = <<>>
        /\ When(m.type \notin partial_signature_types(role), "PartialSignatureTypeRoleMismatch") = <<>>
        /\ When(m.entries = <<>>, "NoPartialSignatureMessages") = <<>>
        /\ When("InconsistentSigners" \in m.flaws, "InconsistentSigners") = <<>>
        /\ When((m.type = "RequestAuth" \/ is_gloas_proposer_post(role, m))
                  /\ Cardinality(entry_validators(m)) > 1, "InconsistentValidatorIndices") = <<>>
        /\ When(~is_committee_role(role) /\ indexed /\ entry_validators(m) # {1},
                "ValidatorIndexMismatch") = <<>>
    BY <1>1, <1>2, <1>3 DEF When
  <1>. QED
    BY <1>4, <1>5 DEF validate_partial_signature_message_semantics

\* What was accepted of the signers of a message that was not accepted yet is
\* what else they sent.
LEMMA BesideFacts ==
    ASSUME Types, OriginInv, NEW i \in DOMAIN accepted, accepted[i] = 0, NEW j \in Heard,
           NEW m, m = message(i), NEW a, a = Traffic[role][j],
           a.signers = m.signers, a.slot = m.slot
    PROVE  a \in SentBeside(role, i)
  <1>1. /\ j \in DOMAIN Traffic[role] /\ j # i /\ m = Traffic[role][i]
    BY DEF Types, Heard, message
  <1>2. Verifies(a)
    BY DEF OriginInv, message
  <1>. QED
    BY <1>1, <1>2 DEF SentBeside

LEMMA ProposalCounter ==
    ASSUME NEW m, m.type = "Proposal"
    PROVE  CountersOf(m) = {"proposal"}
  BY DEF CountersOf, RootBudget

\* What the duty state says of the signer of an honest message that was not
\* accepted yet.
LEMMA HonestReads ==
    ASSUME Types, RingInv, OriginInv, NEW i \in DOMAIN accepted, accepted[i] = 0,
           message(i).honest, NEW m, m = message(i), NEW o \in Committee, m.signers = {o},
           has_signer_state(operators[o], m.slot),
           NEW s, s = get_signer_state(operators[o], m.slot)
    PROVE  /\ m.kind = "Partial" => ~OverLimits(s.message_counts, m)
           /\ m.kind = "Consensus" /\ m.round = s.round => ~OverLimits(s.message_counts, m)
           /\ m.kind = "Consensus" /\ ~Contradicted(m) /\ m.round = s.round /\ m.data # NoRoot =>
                 s.proposal_hash \in {NoRoot, m.root}
           /\ m.type \in DOMAIN RootBudget =>
                 s.roots[m.type] \subseteq RootsOf(SentBeside(role, i), m.type)
  <1>0. PICK r : r = role
    OBVIOUS
  <1>1. /\ Clock /\ m.slot \in Nat /\ m.kind \in {"Consensus", "Partial"} /\ m = Traffic[r][i]
        /\ m.kind = "Consensus" => ProtocolConsensus(r, m)
        /\ Cardinality(m.signers) = 1 => ProtocolOnce(r, i)
    BY <1>0, HonestFacts
  <1>2. Cardinality(m.signers) = 1 /\ ProtocolOnce(r, i)
    BY <1>1, FS_Singleton
  <1>3. Sourced(r, Heard, indexed, o, s)
    BY <1>0, <1>1 DEF OriginInv
  <1>4. s.slot = m.slot /\ s.message_counts \in [Counters -> 0..MAX_MESSAGES_PER_ROUND]
    BY <1>1, HasFacts DEF RingInv, IsSignerState
  <1>5. ASSUME NEW j \in Heard, Traffic[r][j].signers = {o}, Traffic[r][j].slot = m.slot
        PROVE  Traffic[r][j] \in SentBeside(r, i)
    BY <1>0, <1>5, BesideFacts
  <1>6. ASSUME OverLimits(s.message_counts, m)
        PROVE  m.kind = "Consensus" /\ m.round # s.round
    <2>1. PICK c \in CountersOf(m) : s.message_counts[c] >= MAX_MESSAGES_PER_ROUND
      BY <1>6 DEF OverLimits
    <2>2. c \in Counters
      BY CountersFacts
    <2>3. s.message_counts[c] > 0
      BY <1>4, <2>1, <2>2 DEF MAX_MESSAGES_PER_ROUND
    <2>4. PICK j \in Heard :
             /\ Traffic[r][j].signers = {o} /\ Traffic[r][j].slot = m.slot
             /\ c \in CountersOf(Traffic[r][j])
             /\ Traffic[r][j].kind = "Consensus" => Traffic[r][j].round = s.round
      BY <1>3, <1>4, <2>2, <2>3 DEF Sourced
    <2>5. Traffic[r][j] \in SentBeside(r, i)
      BY <1>5, <2>4
    <2>6. CountersOf(Traffic[r][j]) \cap CountersOf(m) # {}
      BY <2>4
    <2>7. m.kind = "Consensus" /\ Traffic[r][j].kind = "Consensus" /\ Traffic[r][j].round # m.round
      BY <1>1, <1>2, <2>5, <2>6 DEF ProtocolOnce
    <2>. QED
      BY <2>4, <2>7
  <1>7. ASSUME m.kind = "Consensus", ~Contradicted(m), m.round = s.round, m.data # NoRoot,
               s.proposal_hash # NoRoot
        PROVE  s.proposal_hash = m.root
    <2>1. PICK j \in Heard :
             /\ Traffic[r][j].signers = {o} /\ Traffic[r][j].slot = m.slot
             /\ Traffic[r][j].round = s.round /\ Traffic[r][j].type = "Proposal"
             /\ Traffic[r][j].root = s.proposal_hash
      BY <1>3, <1>4, <1>7 DEF Sourced
    <2>2. m.type \in {"Proposal", "RoundChange"}
      BY <1>1, <1>2, <1>7 DEF ProtocolConsensus
    <2>3. CASE m.type = "Proposal"
      <3>1. Traffic[r][j] \in SentBeside(r, i)
        BY <1>5, <2>1
      <3>2. CountersOf(Traffic[r][j]) = {"proposal"} /\ CountersOf(m) = {"proposal"}
        BY <2>1, <2>3, ProposalCounter
      <3>. QED
        BY <1>1, <1>2, <1>7, <2>1, <3>1, <3>2 DEF ProtocolOnce
    <2>4. CASE m.type = "RoundChange"
      <3>1. o \in m.signers /\ Traffic[r][j] \in AcceptedFrom(o)
        BY <1>0, <2>1 DEF AcceptedFrom, Heard, message
      <3>. QED
        BY <1>7, <2>1, <2>4, <3>1 DEF Contradicted
    <2>. QED
      BY <2>2, <2>3, <2>4
  <1>8. ASSUME m.type \in DOMAIN RootBudget, NEW x \in s.roots[m.type]
        PROVE  x \in RootsOf(SentBeside(r, i), m.type)
    <2>1. PICK j \in Heard :
             /\ Traffic[r][j].signers = {o} /\ Traffic[r][j].slot = m.slot
             /\ Traffic[r][j].type = m.type /\ x \in entry_roots(Traffic[r][j])
      BY <1>3, <1>4, <1>8, SMTT(30) DEF Sourced
    <2>2. Traffic[r][j] \in SentBeside(r, i)
      BY <1>5, <2>1
    <2>. QED
      BY <2>1, <2>2 DEF RootsOf
  <1>. QED
    BY <1>0, <1>1, <1>6, <1>7, <1>8

\* The rules that read the duty state, for a consensus message.
LEMMA QbftLogicHarmless ==
    ASSUME Types, RingInv, OriginInv, NEW i \in DOMAIN accepted, accepted[i] = 0,
           message(i).honest, NEW m, m = message(i), m.kind = "Consensus",
           ~Contradicted(m)
    PROVE  Harmless(validate_qbft_logic(m))
  <1>. DEFINE o == CHOOSE x \in m.signers : TRUE
              single == Cardinality(m.signers) = 1
              heard == has_signer_state(operators[o], m.slot)
              s == get_signer_state(operators[o], m.slot)
              same == \E x \in m.signers :
                        /\ has_signer_state(operators[x], m.slot)
                        /\ m.signers \in get_signer_state(operators[x], m.slot).seen_signers
  <1>1. /\ Clock /\ m.slot \in Nat /\ m.signers # {} /\ m.signers \subseteq Committee
        /\ ProtocolConsensus(role, m)
    BY HonestFacts
  <1>2. o \in Committee /\ (single => m.signers = {o})
    BY <1>1, SignersFacts
  <1>3. m.type = "Proposal" => o = round_robin_proposer(m.slot, m.round)
    <2>1. m.type = "Proposal" => m.signers = {round_robin_proposer(m.slot, m.round)}
      BY <1>1 DEF ProtocolConsensus
    <2>2. \A y : (CHOOSE x \in {y} : TRUE) = y
      OBVIOUS
    <2>. QED
      BY <2>1, <2>2
  <1>4. ASSUME single, heard
        PROVE  /\ ~(m.round = s.round /\ m.data # NoRoot /\ s.proposal_hash \notin {NoRoot, m.root})
               /\ ~(m.round = s.round /\ OverLimits(s.message_counts, m))
    BY <1>2, <1>4, HonestReads
  <1>5. single_signer_rules(m, o) =
             When(heard /\ m.round < s.round, "RoundAlreadyAdvanced")
             \o When(heard /\ m.round = s.round /\ m.data # NoRoot
                       /\ s.proposal_hash \notin {NoRoot, m.root}, "DifferentProposalData")
             \o When(heard /\ m.round = s.round /\ OverLimits(s.message_counts, m),
                     "DuplicatedMessage")
    BY DEF single_signer_rules
  <1>6. validate_qbft_logic(m) =
             When(m.type = "Proposal" /\ o # round_robin_proposer(m.slot, m.round),
                  "SignerNotLeader")
             \o (IF single THEN single_signer_rules(m, o)
                 ELSE When(same, "DecidedWithSameSigners"))
             \o When(single /\ m.round > highest_allowed(m.slot),
                     "EstimatedRoundNotInAllowedSpread")
    BY DEF validate_qbft_logic
  <1>7. {"SignerNotLeader", "RoundAlreadyAdvanced", "DifferentProposalData", "DuplicatedMessage",
         "DecidedWithSameSigners", "EstimatedRoundNotInAllowedSpread"} \subseteq Failures
        /\ {"RoundAlreadyAdvanced", "DecidedWithSameSigners",
            "EstimatedRoundNotInAllowedSpread"} \subseteq IgnoredFailures
    BY DEF Failures, IgnoredFailures
  <1>. HIDE DEF o, single, heard, s, same
  <1>8. PICK x \in Rules : /\ x = IF single THEN single_signer_rules(m, o)
                                  ELSE When(same, "DecidedWithSameSigners")
                           /\ Harmless(x)
    <2>1. CASE single
      <3>1. PICK a \in Rules, b \in Rules, c \in Rules :
               /\ a = When(heard /\ m.round < s.round, "RoundAlreadyAdvanced")
               /\ b = When(heard /\ m.round = s.round /\ m.data # NoRoot
                             /\ s.proposal_hash \notin {NoRoot, m.root}, "DifferentProposalData")
               /\ c = When(heard /\ m.round = s.round /\ OverLimits(s.message_counts, m),
                           "DuplicatedMessage")
               /\ Harmless(a) /\ Harmless(b) /\ Harmless(c)
        BY <1>4, <1>7, <2>1, WhenFacts, ZenonT(60)
      <3>2. PICK d \in Rules : d = a \o b /\ Harmless(d)
        BY <3>1, HarmlessConcat
      <3>3. d \o c \in Rules /\ Harmless(d \o c)
        BY <3>1, <3>2, HarmlessConcat
      <3>. QED
        BY <1>5, <2>1, <3>1, <3>2, <3>3
    <2>2. CASE ~single
      BY <1>7, <2>2, WhenFacts
    <2>. QED
      BY <2>1, <2>2
  <1>9. PICK a \in Rules, b \in Rules :
           /\ a = When(m.type = "Proposal" /\ o # round_robin_proposer(m.slot, m.round),
                       "SignerNotLeader")
           /\ b = When(single /\ m.round > highest_allowed(m.slot),
                       "EstimatedRoundNotInAllowedSpread")
           /\ Harmless(a) /\ Harmless(b)
    BY <1>3, <1>7, WhenFacts
  <1>10. PICK d \in Rules : d = a \o x /\ Harmless(d)
    BY <1>8, <1>9, HarmlessConcat
  <1>11. Harmless(d \o b)
    BY <1>9, <1>10, HarmlessConcat
  <1>. QED
    BY <1>6, <1>8, <1>9, <1>10, <1>11

\* More indices never make the limit of the entries fall.
LEMMA EntryLimitGrows ==
    ASSUME NEW r, NEW m, NEW v \in Nat, NEW w \in Nat, v <= w
    PROVE  /\ entry_limit(r, v, m) \in Nat /\ entry_limit(r, w, m) \in Nat
           /\ entry_limit(r, v, m) <= entry_limit(r, w, m)
  <1>1. /\ SyncCommitteeSize \in Nat
        /\ MAX_REQUEST_AUTH_DISTINCT_ROOTS \in Nat /\ SYNC_COMMITTEE_SUBNET_COUNT = 4
    BY ValidatorAssumption, DutyStateAssumption DEF SYNC_COMMITTEE_SUBNET_COUNT
  <1>. QED
    BY <1>1, SMT DEF entry_limit

\* The packet of an operator that follows the protocol is not too large for a
\* node that knows the validators in it, and no validator occurs too often.
LEMMA EntriesFit ==
    ASSUME Types, NEW m, ProtocolPartial(role, m)
    PROVE  /\ entry_validators(m) \subseteq view.indices \/ ~is_committee_role(role) =>
                ~(Len(m.entries) > entry_limit(role, validator_count, m))
           /\ ~(is_committee_role(role)
                  /\ \E v \in entry_validators(m) : occurrences(m, v) > occurrence_limit(role))
  <1>1. PICK c \in Nat : c = Cardinality(entry_validators(m))
    <2>1. IsFiniteSet(entry_validators(m))
      <3>1. CASE is_committee_role(role)
        BY <3>1, ValidatorAssumption, FS_Subset DEF ProtocolPartial, Types
      <3>2. CASE ~is_committee_role(role)
        BY <3>2, FS_Singleton DEF ProtocolPartial
      <3>. QED
        BY <3>1, <3>2
    <2>. QED
      BY <2>1, FS_CardinalityType
  <1>2. PICK n \in Nat : n = entry_limit(role, c, m) /\ Len(m.entries) \in 1..n
    BY <1>1, EntryLimitGrows DEF ProtocolPartial
  <1>3. PICK k \in Nat : k = entry_limit(role, validator_count, m)
    BY IndicesFacts, EntryLimitGrows
  <1>4. ~(is_committee_role(role)
            /\ \E v \in entry_validators(m) : occurrences(m, v) > occurrence_limit(role))
    <2>1. PICK l \in Nat : l = occurrence_limit(role)
      BY DEF occurrence_limit
    <2>2. is_committee_role(role) => \A v \in entry_validators(m) : occurrences(m, v) \in 1..l
      BY <2>1 DEF ProtocolPartial
    <2>. QED
      BY <2>1, <2>2
  <1>5. ASSUME is_committee_role(role), entry_validators(m) \subseteq view.indices
        PROVE  ~(Len(m.entries) > k)
    <2>1. entry_validators(m) \subseteq validator_indices
      BY <1>5 DEF validator_indices
    <2>2. c <= validator_count /\ validator_count \in Nat
      BY <1>1, <2>1, IndicesFacts, FS_Subset DEF validator_count
    <2>3. n <= k
      BY <1>1, <1>2, <1>3, <2>2, EntryLimitGrows
    <2>. QED
      BY <1>2, <1>3, <2>3
  <1>6. ASSUME ~is_committee_role(role) PROVE ~(Len(m.entries) > k)
    <2>1. role \notin {"Committee", "AggregatorCommittee"}
      BY <1>6 DEF is_committee_role
    <2>2. n = k
      BY <1>2, <1>3, <2>1 DEF entry_limit
    <2>. QED
      BY <1>2, <1>3, <2>2
  <1>. QED
    BY <1>3, <1>4, <1>5, <1>6

\* A packet for a committee of which no index is known is ignored.
LEMMA UnknownCounted ==
    ASSUME Types, OriginInv, is_committee_role(role), ~indexed,
           NEW o \in Committee, NEW slot \in Nat
    PROVE  validate_duty_count(o, slot)
  <1>1. ~has_signer_state(operators[o], slot)
    BY DEF OriginInv, Sourced
  <1>2. current_limit(slot) = 0
    BY UnknownCommittee
  <1>3. epoch_of(slot) \in Nat
    BY SlotsOfEpoch
  <1>4. get_duty_count(operators[o], epoch_of(slot)) \in Nat
    BY <1>3, DutyCountNat
  <1>. QED
    BY <1>1, <1>2, <1>4 DEF validate_duty_count, NoLimit

LEMMA PartialDutyHarmless ==
    ASSUME Types, RingInv, OriginInv, NEW i \in DOMAIN accepted, accepted[i] = 0,
           message(i).honest, NEW m, m = message(i), m.kind = "Partial", ~PartlyIndexed(m)
    PROVE  Harmless(validate_partial_sig_messages_by_duty_logic(m))
  <1>. DEFINE o == CHOOSE x \in m.signers : TRUE
              op == operators[o]
              over == has_signer_state(op, m.slot)
                        /\ OverLimits(get_signer_state(op, m.slot).message_counts, m)
              large == Len(m.entries) > entry_limit(role, validator_count, m)
              often == is_committee_role(role)
                        /\ \E v \in entry_validators(m) : occurrences(m, v) > occurrence_limit(role)
  <1>1. /\ Clock /\ m.slot \in Nat /\ m.signers # {} /\ m.signers \subseteq Committee
        /\ ProtocolPartial(role, m)
    BY HonestFacts
  <1>2. o \in Committee /\ m.signers = {o}
    BY <1>1, SignersFacts DEF ProtocolPartial
  <1>3. ~over
    BY <1>2, HonestReads
  <1>4. ~often /\ (indexed \/ ~is_committee_role(role) => ~large)
    BY <1>1, EntriesFit DEF PartlyIndexed
  <1>5. ~(indexed \/ ~is_committee_role(role)) => validate_duty_count(o, m.slot)
    BY <1>1, <1>2, UnknownCounted
  <1>6. {"SlotAlreadyAdvanced", "InvalidPartialSignatureTypeCount", "ExcessiveDutyCount",
         "TooManyPartialSignatureMessages", "TooManyValidatorIndexOccurrences"}
            \subseteq Failures
        /\ {"SlotAlreadyAdvanced", "ExcessiveDutyCount"} \subseteq IgnoredFailures
    BY DEF Failures, IgnoredFailures
  <1>7. validate_partial_sig_messages_by_duty_logic(m) =
           When(monotonic_slot_role(role) /\ op.max_slot # 0 /\ op.max_slot > m.slot,
                "SlotAlreadyAdvanced")
           \o validate_beacon_duty(m)
           \o When(over, "InvalidPartialSignatureTypeCount")
           \o validate_slot_time(m.slot)
           \o When(validate_duty_count(o, m.slot), "ExcessiveDutyCount")
           \o When(large, "TooManyPartialSignatureMessages")
           \o When(often, "TooManyValidatorIndexOccurrences")
    BY DEF validate_partial_sig_messages_by_duty_logic
  <1>. HIDE DEF o, op, over, large, often
  <1>8. PICK a \in Rules, x \in Rules, b \in Rules, y \in Rules, c \in Rules :
           /\ a = When(monotonic_slot_role(role) /\ op.max_slot # 0 /\ op.max_slot > m.slot,
                       "SlotAlreadyAdvanced")
           /\ x = validate_beacon_duty(m) /\ y = validate_slot_time(m.slot)
           /\ b = When(over, "InvalidPartialSignatureTypeCount")
           /\ c = When(validate_duty_count(o, m.slot), "ExcessiveDutyCount")
           /\ Harmless(a) /\ Harmless(x) /\ Harmless(b) /\ Harmless(y) /\ Harmless(c)
    BY <1>1, <1>3, <1>6, WhenFacts, BeaconFacts, SlotTimeFacts, BeaconHarmless,
       SlotTimeHarmless
  <1>9. PICK d \in Rules, e \in Rules :
           /\ d = When(large, "TooManyPartialSignatureMessages")
           /\ e = When(often, "TooManyValidatorIndexOccurrences")
           /\ Harmless(e) /\ (~large => Harmless(d))
    BY <1>4, <1>6, WhenFacts
  <1>10. PICK p \in Rules : /\ p = a \o x \o b \o y \o c /\ Harmless(p)
                            /\ p = <<>> => c = <<>>
    <2>1. Harmless(a) /\ Harmless(x) /\ Harmless(b) /\ Harmless(y) /\ Harmless(c)
      BY <1>8
    <2>2. /\ a \o x \o b \o y \o c \in Rules
          /\ a \o x \o b \o y \o c = <<>> => c = <<>>
      BY ONLY ConcatFacts5, a \in Rules, x \in Rules, b \in Rules, y \in Rules, c \in Rules
    <2>3. Harmless(a \o x \o b \o y \o c)
      BY ONLY <2>1, HarmlessConcat5, a \in Rules, x \in Rules, b \in Rules, y \in Rules,
              c \in Rules
    <2>. QED
      BY <2>2, <2>3, Zenon
  <1>11. p = <<>> => Harmless(d)
    BY <1>4, <1>5, <1>8, <1>9, <1>10, WhenEmpty
  <1>12. PICK q \in Rules : q = p \o d /\ Harmless(q)
    BY <1>10, <1>11, HarmlessConcat
  <1>13. Harmless(q \o e)
    BY <1>9, <1>12, HarmlessConcat
  <1>14. validate_partial_sig_messages_by_duty_logic(m) = q \o e
    BY <1>7, <1>8, <1>9, <1>10, <1>12, Zenon
  <1>. QED
    BY <1>13, <1>14

LEMMA RetirementHarmless == Harmless(retirement_rules)
  BY WhenFacts DEF retirement_rules, Failures, IgnoredFailures

\* The checks of a first copy of an honest message.
LEMMA ChecksHarmless ==
    ASSUME Types, RingInv, OriginInv, NEW i \in DOMAIN accepted, accepted[i] = 0,
           message(i).honest, NEW m, m = message(i), ~Contradicted(m), ~PartlyIndexed(m)
    PROVE  check_failure(m) \in IgnoredFailures \cup {"none"}
  <1>1. /\ Clock /\ m.slot \in Nat /\ m.round \in Nat /\ m.kind \in {"Consensus", "Partial"}
        /\ m.flaws = {} /\ m.signers # {} /\ m.signers \subseteq Committee
        /\ m.topic = fork_at(m.slot) /\ m.domain = fork_at(m.slot)
        /\ m.kind = "Consensus" => ProtocolConsensus(role, m)
        /\ m.kind = "Partial" => ProtocolPartial(role, m)
        /\ ProtocolDuty(role, m)
    BY HonestFacts
  <1>2. PICK a \in Rules, e \in Rules :
           /\ a = validate_role_for_fork(m.slot) /\ e = signature_rules(m)
           /\ Harmless(a) /\ Harmless(e)
    BY <1>1, ForkEmpty, SignatureEmpty, HarmlessEmpty, NoFailure
  <1>3. m.kind = "Consensus" => Harmless(consensus_rules(m))
    <2>1. SUFFICES ASSUME m.kind = "Consensus" PROVE Harmless(consensus_rules(m))
      OBVIOUS
    <2>2. PICK b \in Rules, c \in Rules, d \in Rules :
             /\ b = validate_consensus_message_semantics(m) /\ c = validate_qbft_logic(m)
             /\ d = validate_qbft_message_by_duty_logic(m)
             /\ Harmless(b) /\ Harmless(c) /\ Harmless(d)
      <3>1. Harmless(validate_consensus_message_semantics(m))
        BY <1>1, <2>1, ConsensusEmpty, HarmlessEmpty
      <3>2. Harmless(validate_qbft_logic(m))
        BY <2>1, QbftLogicHarmless
      <3>3. Harmless(validate_qbft_message_by_duty_logic(m))
        BY <1>1, QbftDutyHarmless
      <3>. QED
        BY <1>1, <3>1, <3>2, <3>3, ConsensusSemanticsFacts, QbftLogicFacts, QbftDutyFacts
    <2>3. Harmless(a) /\ Harmless(b) /\ Harmless(c) /\ Harmless(d) /\ Harmless(e)
      BY <1>2, <2>2
    <2>4. Harmless(a \o b \o c \o d \o e)
      BY ONLY <2>3, HarmlessConcat5, a \in Rules, b \in Rules, c \in Rules, d \in Rules,
              e \in Rules
    <2>. QED
      BY <1>2, <2>2, <2>4 DEF consensus_rules
  <1>4. m.kind = "Partial" => Harmless(partial_rules(m))
    <2>1. SUFFICES ASSUME m.kind = "Partial" PROVE Harmless(partial_rules(m))
      OBVIOUS
    <2>2. PICK b \in Rules, c \in Rules, d \in Rules :
             /\ b = validate_partial_signature_message_semantics(m) /\ c = retirement_rules
             /\ d = validate_partial_sig_messages_by_duty_logic(m)
             /\ Harmless(b) /\ Harmless(c) /\ Harmless(d)
      <3>1. Harmless(validate_partial_signature_message_semantics(m))
        BY <1>1, <2>1, PartialEmpty, HarmlessEmpty
      <3>2. Harmless(retirement_rules)
        BY RetirementHarmless
      <3>3. Harmless(validate_partial_sig_messages_by_duty_logic(m))
        BY <2>1, PartialDutyHarmless
      <3>. QED
        BY <1>1, <3>1, <3>2, <3>3, PartialSemanticsFacts, RetirementFacts, PartialDutyFacts
    <2>3. Harmless(a) /\ Harmless(b) /\ Harmless(c) /\ Harmless(d) /\ Harmless(e)
      BY <1>2, <2>2
    <2>4. Harmless(a \o b \o c \o d \o e)
      BY ONLY <2>3, HarmlessConcat5, a \in Rules, b \in Rules, c \in Rules, d \in Rules,
              e \in Rules
    <2>. QED
      BY <1>2, <2>2, <2>4 DEF partial_rules
  <1>5. check_failure(m) =
           IF First(registry_rules) # "none" THEN First(registry_rules)
           ELSE First(IF m.kind = "Consensus" THEN consensus_rules(m) ELSE partial_rules(m))
    BY <1>1, OuterEmpty
  <1>. QED
    BY <1>1, <1>3, <1>4, <1>5, RegistryHarmless DEF Harmless

\* The first copy of an honest message is never rejected (acceptance of the
\* verdict, lib.rs and the rules of consensus_message.rs and
\* partial_signature.rs), whatever was sent before it and however many indices of
\* the committee are known, but for the round change of a leader that has proposed
\* another value and a packet that is larger than the indices known allow.
THEOREM HonestNotRejectedHolds == Spec => []HonestNotRejected
  <1>1. ValidatorInv /\ OriginInv => HonestNotRejected
    <2>1. SUFFICES ASSUME ValidatorInv, OriginInv, NEW i \in DOMAIN accepted, accepted[i] = 0,
                          message(i).honest, NEW m, m = message(i), ~Contradicted(m),
                          ~PartlyIndexed(m)
                   PROVE  acceptance(validation_failure(m)) # "Reject"
      BY DEF HonestNotRejected, FreshHonest
    <2>2. check_failure(m) \in IgnoredFailures \cup {"none"}
      BY <2>1, ChecksHarmless DEF ValidatorInv
    <2>3. \A op : root_budget_failure(op, m)
                    \in {"none", "RelayedDuplicateMessage", "TooManyDistinctSigningRoots"}
      BY DEF root_budget_failure
    <2>4. validation_failure(m) \in IgnoredFailures \cup {"none"}
      BY <2>2, <2>3 DEF validation_failure, IgnoredFailures
    <2>5. "none" \notin IgnoredFailures
      BY DEF IgnoredFailures
    <2>. QED
      BY <2>4, <2>5 DEF acceptance
  <1>. QED
    BY <1>1, ValidatorInvariant, OriginInvariant, PTL

---------------------------------------------------------------------------
(* When an honest message is accepted.                                     *)

\* What was accepted of one of the signers does not overtake the message.
LEMMA OvertakenFacts ==
    ASSUME NEW m, ~Overtaken(m), NEW o \in m.signers, NEW j \in Heard,
           NEW a, a = Traffic[role][j], o \in a.signers
    PROVE  /\ ~(a.slot = m.slot /\ a.round > m.round)
           /\ role \notin {"Committee", "AggregatorCommittee", "ProposerPreferences"} =>
                ~(a.slot > m.slot)
           /\ ~(a.slot = m.slot /\ a.signers = m.signers /\ Cardinality(m.signers) > 1)
  <1>1. a \in AcceptedFrom(o)
    BY DEF AcceptedFrom, Heard, message
  <1>. QED
    BY <1>1 DEF Overtaken

\* No signer is above the slot of the message, but for the roles in which that
\* stops nothing.
LEMMA SlotNotAdvanced ==
    ASSUME Types, OriginInv, NEW m, m.slot \in Nat, m.signers \subseteq Committee, ~Overtaken(m),
           ~is_committee_role(role), role # "ProposerPreferences", NEW o \in m.signers
    PROVE  ~(operators[o].max_slot > m.slot)
  <1>1. CASE operators[o].max_slot = 0
    BY <1>1
  <1>2. CASE operators[o].max_slot # 0
    <2>1. PICK j \in Heard : /\ o \in Traffic[role][j].signers
                             /\ Traffic[role][j].slot = operators[o].max_slot
      BY <1>2 DEF OriginInv, message
    <2>2. role \notin {"Committee", "AggregatorCommittee", "ProposerPreferences"}
      BY DEF is_committee_role
    <2>. QED
      BY <2>1, <2>2, OvertakenFacts
  <1>. QED
    BY <1>1, <1>2

LEMMA LimitInt ==
    ASSUME NEW r \in Scenarios, NEW slot
    PROVE  duty_limit(r, Validators[r], slot) \in Int
  <1>1. PICK v \in Nat : v = Cardinality(Validators[r])
    BY ValidatorAssumption, FS_CardinalityType
  <1>2. SLOTS_PER_EPOCH \in Nat /\ 2 * v \in Int
    BY DutyStateAssumption
  <1>. QED
    BY <1>1, <1>2 DEF duty_limit, NoLimit

\* The slots the ring counts are slots the signer signed for, and so is that of
\* the message, which is not among them.
LEMMA DutiesLeft ==
    ASSUME Types, RingInv, OriginInv, NEW i \in DOMAIN accepted, message(i).honest,
           NEW m, m = message(i), NEW o \in m.signers, view.indices = Validators[role]
    PROVE  ~validate_duty_count(o, m.slot)
  <1>1. /\ Clock /\ m.slot \in Nat /\ m.signers \subseteq Committee /\ m.flaws = {}
        /\ m = Traffic[role][i] /\ i \in DOMAIN Traffic[role] /\ ProtocolSlots(role, o, m.slot)
    BY HonestFacts
  <1>2. SUFFICES ASSUME validate_duty_count(o, m.slot) PROVE FALSE
    OBVIOUS
  <1>3. PICK limit \in Int : limit = duty_limit(role, Validators[role], m.slot)
    BY LimitInt DEF Types
  <1>4. current_limit(m.slot) = limit
    <2>1. CASE is_committee_role(role)
      BY <1>3, <2>1 DEF current_limit, validator_indices
    <2>2. CASE ~is_committee_role(role)
      BY <1>3, <2>2 DEF current_limit, duty_limit
    <2>. QED
      BY <2>1, <2>2
  <1>5. PICK e \in Nat : e = epoch_of(m.slot) /\ m.slot \in slots_of(e)
    BY <1>1, SlotsOfEpoch
  <1>6. PICK A \in SUBSET slots_of(e) : A = {s \in slots_of(e) : has_signer_state(operators[o], s)}
    OBVIOUS
  <1>7. PICK B \in SUBSET slots_of(e) :
           B = {s \in slots_of(e) : \E a \in SignedBy(role, o) : a.slot = s}
    OBVIOUS
  <1>8. limit # NoLimit /\ ~has_signer_state(operators[o], m.slot) /\ Cardinality(A) >= limit
    BY <1>2, <1>4, <1>5, <1>6 DEF validate_duty_count, get_duty_count
  <1>9. Cardinality(B) <= limit
    BY <1>1, <1>3, <1>5, <1>7, <1>8 DEF ProtocolSlots
  <1>10. slots_of(e) \subseteq Nat
    <2>1. start_slot(e) \in Nat /\ SLOTS_PER_EPOCH \in Nat
      BY ClockFacts, SMT DEF start_slot
    <2>. QED
      BY <2>1 DEF slots_of
  <1>11. A \subseteq B
    <2>1. SUFFICES ASSUME NEW s \in A PROVE s \in B
      OBVIOUS
    <2>2. s \in Nat /\ s \in slots_of(e) /\ has_signer_state(operators[o], s)
      BY <1>6, <1>10, <2>1
    <2>3. get_signer_state(operators[o], s).slot = s
      BY <2>2 DEF has_signer_state
    <2>4. \E a \in SignedBy(role, o) : a.slot = s
      BY <1>1, <2>2, <2>3 DEF OriginInv, Sourced
    <2>. QED
      BY <1>7, <2>2, <2>4
  <1>12. m.slot \in B /\ m.slot \notin A
    <2>1. m \in SignedBy(role, o)
      BY <1>1 DEF SignedBy, Verifies
    <2>. QED
      BY <1>5, <1>6, <1>7, <1>8, <2>1
  <1>13. A \in SUBSET B
    BY <1>11
  <1>14. /\ IsFiniteSet(A) /\ IsFiniteSet(B)
         /\ Cardinality(A) \in Nat /\ Cardinality(B) \in Nat
    BY <1>13, EpochFinite
  <1>15. Cardinality(A) < Cardinality(B)
    <2>1. A # B
      BY <1>12
    <2>2. Cardinality(A) <= Cardinality(B) /\ (Cardinality(A) = Cardinality(B) => A = B)
      BY <1>11, <1>14, FS_Subset
    <2>. QED
      BY <1>14, <2>1, <2>2
  <1>. QED
    BY <1>8, <1>9, <1>14, <1>15

\* The node knows the validator and its duties.
LEMMA BeaconEmpty ==
    ASSUME Types, NEW m, ViewComplete(m), ProtocolDuty(role, m)
    PROVE  validate_beacon_duty(m) = <<>>
  <1>0. indexed
    BY ValidatorAssumption DEF Types, ViewComplete, indexed, validator_indices
  <1>1. /\ indexed
        /\ role \in {"Proposer", "PTCAttester", "ProposerPreferences"} =>
              is_validator_proposer_at_slot(m.slot) /\ ~not_assigned(m.slot)
        /\ role = "SyncCommittee" => 1 \in SyncValidators
    BY <1>0 DEF ViewComplete, ProtocolDuty, is_validator_proposer_at_slot, not_assigned
  <1>2. <<>> \o <<>> = <<>>
    OBVIOUS
  <1>. QED
    BY <1>1, <1>2 DEF validate_beacon_duty, When

LEMMA SlotTimeEmpty ==
    ASSUME Clock, NEW slot \in Nat, InTime(slot)
    PROVE  validate_slot_time(slot) = <<>>
  <1>0. earliest(slot) \in Int
    BY EarliestInt
  <1>1. PICK a \in Int : a = earliest(slot) - EARLY_MESSAGE_MARGIN
    BY <1>0, ClockFacts
  <1>2. PICK b \in Int : b = slot_start_time(slot + ttl) + LATE_MESSAGE_MARGIN
    BY ClockFacts, SizeOfRing, SMT DEF slot_start_time, Clock
  <1>3. ~(now < a) /\ ~(now > b)
    BY <1>1, <1>2 DEF InTime, Clock
  <1>4. <<>> \o <<>> = <<>>
    OBVIOUS
  <1>. QED
    BY <1>1, <1>2, <1>3, <1>4 DEF validate_slot_time, When

\* The round a message may be in is a number.
LEMMA AllowedInt ==
    ASSUME Clock, NEW slot \in Nat
    PROVE  highest_allowed(slot) \in Int
  <1>1. /\ TicksPerSlot \in Nat \ {0} /\ QUICK_TIMEOUT \in Nat \ {0} /\ SLOW_TIMEOUT \in Nat \ {0}
        /\ QUICK_TIMEOUT_THRESHOLD \in Nat
    BY ValidatorAssumption
  <1>2. PICK since \in Int : since = now - slot_start_time(slot)
    <2>1. slot * TicksPerSlot \in Int
      BY <1>1
    <2>. QED
      BY <2>1 DEF slot_start_time, Clock
  <1>3. current_estimated_round(since) \in Int
    <2>1. PICK a \in Int : a = since \div QUICK_TIMEOUT
      BY <1>1
    <2>2. PICK b \in Int : b = QUICK_TIMEOUT * QUICK_TIMEOUT_THRESHOLD
      BY <1>1
    <2>3. PICK c \in Int : c = (since - b) \div SLOW_TIMEOUT
      BY <1>1
    <2>. QED
      BY <1>1, <2>1, <2>2, <2>3 DEF current_estimated_round, FIRST_ROUND
  <1>. QED
    BY <1>2, <1>3 DEF highest_allowed, MAX_ALLOWED_ROUNDS_FUTURE, FIRST_ROUND

\* The rules that read the duty state, for a consensus message.
LEMMA QbftLogicEmpty ==
    ASSUME Types, RingInv, OriginInv, NEW i \in DOMAIN accepted, accepted[i] = 0,
           message(i).honest, NEW m, m = message(i), m.kind = "Consensus",
           ~Overtaken(m), ~Contradicted(m), m.round <= highest_allowed(m.slot)
    PROVE  validate_qbft_logic(m) = <<>>
  <1>. DEFINE o == CHOOSE x \in m.signers : TRUE
              single == Cardinality(m.signers) = 1
              heard == has_signer_state(operators[o], m.slot)
              s == get_signer_state(operators[o], m.slot)
              same == \E x \in m.signers :
                        /\ has_signer_state(operators[x], m.slot)
                        /\ m.signers \in get_signer_state(operators[x], m.slot).seen_signers
  <1>1. /\ Clock /\ m.slot \in Nat /\ m.round \in Nat
        /\ m.signers # {} /\ m.signers \subseteq Committee /\ ProtocolConsensus(role, m)
    BY HonestFacts
  <1>2. /\ o \in Committee /\ o \in m.signers /\ (single => m.signers = {o})
        /\ Cardinality(m.signers) \in Nat \ {0}
    BY <1>1, SignersFacts
  <1>3. m.type = "Proposal" => o = round_robin_proposer(m.slot, m.round)
    <2>1. m.type = "Proposal" => m.signers = {round_robin_proposer(m.slot, m.round)}
      BY <1>1 DEF ProtocolConsensus
    <2>2. \A y : (CHOOSE x \in {y} : TRUE) = y
      OBVIOUS
    <2>. QED
      BY <2>1, <2>2
  <1>4. ASSUME single, heard
        PROVE  /\ ~(m.round < s.round)
               /\ ~(m.round = s.round /\ m.data # NoRoot /\ s.proposal_hash \notin {NoRoot, m.root})
               /\ ~(m.round = s.round /\ OverLimits(s.message_counts, m))
    <2>1. /\ ~(m.round = s.round /\ m.data # NoRoot /\ s.proposal_hash \notin {NoRoot, m.root})
          /\ ~(m.round = s.round /\ OverLimits(s.message_counts, m))
      BY <1>2, <1>4, HonestReads
    <2>2. s.slot = m.slot /\ s.round \in Nat
      BY <1>1, <1>2, <1>4, HasFacts DEF RingInv, IsSignerState
    <2>3. Sourced(role, Heard, indexed, o, s)
      BY <1>1, <1>2, <1>4 DEF OriginInv
    <2>4. CASE s.round = FIRST_ROUND
      BY <1>1, <2>1, <2>4 DEF ProtocolConsensus, FIRST_ROUND
    <2>5. CASE s.round # FIRST_ROUND
      <3>1. PICK j \in Heard : /\ o \in Traffic[role][j].signers
                               /\ Traffic[role][j].slot = m.slot
                               /\ Traffic[role][j].round = s.round
        BY <2>2, <2>3, <2>5 DEF Sourced
      <3>2. ~(s.round > m.round)
        BY <1>2, <3>1, OvertakenFacts
      <3>. QED
        BY <1>1, <2>1, <2>2, <3>2
    <2>. QED
      BY <2>4, <2>5
  <1>5. ASSUME ~single PROVE ~same
    <2>1. SUFFICES ASSUME NEW x \in m.signers, has_signer_state(operators[x], m.slot),
                          m.signers \in get_signer_state(operators[x], m.slot).seen_signers
                   PROVE  FALSE
      OBVIOUS
    <2>2. PICK t : t = get_signer_state(operators[x], m.slot)
      OBVIOUS
    <2>3. t.slot = m.slot /\ Sourced(role, Heard, indexed, x, t)
      BY <1>1, <2>1, <2>2 DEF OriginInv, has_signer_state
    <2>4. PICK j \in Heard : /\ Traffic[role][j].signers = m.signers
                             /\ Traffic[role][j].slot = m.slot
      BY <2>1, <2>2, <2>3 DEF Sourced
    <2>5. Cardinality(m.signers) > 1
      BY <1>2, <1>5
    <2>. QED
      BY <2>1, <2>4, <2>5, OvertakenFacts
  <1>6. ~(m.round > highest_allowed(m.slot))
    <2>1. highest_allowed(m.slot) \in Int
      BY <1>1, AllowedInt
    <2>. QED
      BY <1>1, <2>1
  <1>7. single_signer_rules(m, o) =
             When(heard /\ m.round < s.round, "RoundAlreadyAdvanced")
             \o When(heard /\ m.round = s.round /\ m.data # NoRoot
                       /\ s.proposal_hash \notin {NoRoot, m.root}, "DifferentProposalData")
             \o When(heard /\ m.round = s.round /\ OverLimits(s.message_counts, m),
                     "DuplicatedMessage")
    BY DEF single_signer_rules
  <1>8. validate_qbft_logic(m) =
             When(m.type = "Proposal" /\ o # round_robin_proposer(m.slot, m.round),
                  "SignerNotLeader")
             \o (IF single THEN single_signer_rules(m, o)
                 ELSE When(same, "DecidedWithSameSigners"))
             \o When(single /\ m.round > highest_allowed(m.slot),
                     "EstimatedRoundNotInAllowedSpread")
    BY DEF validate_qbft_logic
  <1>. HIDE DEF o, single, heard, s, same
  <1>9. <<>> \o <<>> = <<>>
    OBVIOUS
  <1>10. /\ When(m.type = "Proposal" /\ o # round_robin_proposer(m.slot, m.round),
                 "SignerNotLeader") = <<>>
         /\ When(single /\ m.round > highest_allowed(m.slot),
                 "EstimatedRoundNotInAllowedSpread") = <<>>
    BY <1>3, <1>6 DEF When
  <1>11. single => single_signer_rules(m, o) = <<>>
    BY <1>4, <1>7, <1>9 DEF When
  <1>12. ~single => When(same, "DecidedWithSameSigners") = <<>>
    BY <1>5 DEF When
  <1>. QED
    BY <1>8, <1>9, <1>10, <1>11, <1>12

LEMMA QbftDutyEmpty ==
    ASSUME Types, RingInv, OriginInv, NEW i \in DOMAIN accepted, message(i).honest,
           NEW m, m = message(i), m.kind = "Consensus",
           InTime(m.slot), ViewComplete(m), ~Overtaken(m)
    PROVE  validate_qbft_message_by_duty_logic(m) = <<>>
  <1>1. /\ Clock /\ m.slot \in Nat /\ m.signers \subseteq Committee
        /\ ProtocolConsensus(role, m) /\ ProtocolDuty(role, m)
    BY HonestFacts
  <1>2. role # "ProposerPreferences"
    BY <1>1 DEF ProtocolConsensus, is_qbft_role, max_round
  <1>3. ~(~is_committee_role(role) /\ \E o \in m.signers : operators[o].max_slot > m.slot)
    BY <1>1, <1>2, SlotNotAdvanced
  <1>4. ~\E o \in m.signers : validate_duty_count(o, m.slot)
    BY DutiesLeft DEF ViewComplete
  <1>5. validate_beacon_duty(m) = <<>> /\ validate_slot_time(m.slot) = <<>>
    BY <1>1, BeaconEmpty, SlotTimeEmpty
  <1>6. <<>> \o <<>> = <<>>
    OBVIOUS
  <1>. QED
    BY <1>3, <1>4, <1>5, <1>6 DEF validate_qbft_message_by_duty_logic, When

LEMMA PartialDutyEmpty ==
    ASSUME Types, RingInv, OriginInv, NEW i \in DOMAIN accepted, accepted[i] = 0,
           message(i).honest, NEW m, m = message(i), m.kind = "Partial",
           InTime(m.slot), ViewComplete(m), ~Overtaken(m)
    PROVE  validate_partial_sig_messages_by_duty_logic(m) = <<>>
  <1>. DEFINE o == CHOOSE x \in m.signers : TRUE
              op == operators[o]
              over == has_signer_state(op, m.slot)
                        /\ OverLimits(get_signer_state(op, m.slot).message_counts, m)
              large == Len(m.entries) > entry_limit(role, validator_count, m)
              often == is_committee_role(role)
                        /\ \E v \in entry_validators(m) : occurrences(m, v) > occurrence_limit(role)
              passed == monotonic_slot_role(role) /\ op.max_slot # 0 /\ op.max_slot > m.slot
  <1>1. /\ Clock /\ m.slot \in Nat /\ m.signers # {} /\ m.signers \subseteq Committee
        /\ ProtocolPartial(role, m) /\ ProtocolDuty(role, m)
    BY HonestFacts
  <1>2. o \in Committee /\ o \in m.signers /\ m.signers = {o}
    BY <1>1, SignersFacts DEF ProtocolPartial
  <1>3. ~over
    BY <1>2, HonestReads
  <1>4. ~often /\ ~large
    BY <1>1, EntriesFit DEF ViewComplete, ProtocolPartial
  <1>5. ~validate_duty_count(o, m.slot)
    BY <1>2, DutiesLeft DEF ViewComplete
  <1>6. ~passed
    BY <1>1, <1>2, SlotNotAdvanced DEF monotonic_slot_role
  <1>7. validate_beacon_duty(m) = <<>> /\ validate_slot_time(m.slot) = <<>>
    BY <1>1, BeaconEmpty, SlotTimeEmpty
  <1>8. validate_partial_sig_messages_by_duty_logic(m) =
           When(passed, "SlotAlreadyAdvanced")
           \o validate_beacon_duty(m)
           \o When(over, "InvalidPartialSignatureTypeCount")
           \o validate_slot_time(m.slot)
           \o When(validate_duty_count(o, m.slot), "ExcessiveDutyCount")
           \o When(large, "TooManyPartialSignatureMessages")
           \o When(often, "TooManyValidatorIndexOccurrences")
    BY DEF validate_partial_sig_messages_by_duty_logic
  <1>. HIDE DEF o, op, over, large, often, passed
  <1>9. <<>> \o <<>> = <<>>
    OBVIOUS
  <1>. QED
    BY <1>3, <1>4, <1>5, <1>6, <1>7, <1>8, <1>9 DEF When

\* The root budget is not spent, and the packet is not a duplicate.
LEMMA BudgetLeft ==
    ASSUME Types, RingInv, OriginInv, NEW i \in DOMAIN accepted, accepted[i] = 0,
           message(i).honest, NEW m, m = message(i), m.kind = "Partial",
           NEW o \in Committee, m.signers = {o}
    PROVE  root_budget_failure(operators[o], m) = "none"
  <1>1. SUFFICES ASSUME m.type \in DOMAIN RootBudget
                 PROVE  root_budget_failure(operators[o], m) = "none"
    BY DEF root_budget_failure
  <1>2. /\ Clock /\ m.slot \in Nat /\ m = Traffic[role][i]
        /\ Cardinality(m.signers) = 1 => ProtocolOnce(role, i)
    BY HonestFacts
  <1>3. ProtocolOnce(role, i)
    BY <1>2, FS_Singleton
  <1>4. PICK beside, roots : /\ beside = RootsOf(SentBeside(role, i), m.type)
                             /\ roots = RootsOf(SentBeside(role, i) \cup {m}, m.type)
    OBVIOUS
  <1>5. /\ ~(entry_roots(m) \subseteq beside)
        /\ IsFiniteSet(roots) /\ Cardinality(roots) <= RootBudget[m.type]
    BY <1>1, <1>2, <1>3, <1>4 DEF ProtocolOnce
  <1>6. beside \cup entry_roots(m) \subseteq roots
    BY <1>4 DEF RootsOf
  <1>7. PICK seen : seen = partial_state(operators[o], m).roots[m.type]
    OBVIOUS
  <1>8. seen \subseteq beside
    <2>1. CASE has_signer_state(operators[o], m.slot)
      BY <1>1, <1>4, <1>7, <2>1, HonestReads DEF partial_state
    <2>2. CASE ~has_signer_state(operators[o], m.slot)
      <3>1. partial_state(operators[o], m) = new_signer_state(m.slot, FIRST_ROUND)
        BY <2>2 DEF partial_state
      <3>2. seen = {}
        BY <1>1, <1>7, <3>1, NewSignerFields
      <3>. QED
        BY <3>2
    <2>. QED
      BY <2>1, <2>2
  <1>9. ~(Cardinality(seen \cup entry_roots(m)) > RootBudget[m.type])
    <2>1. seen \cup entry_roots(m) \subseteq roots
      BY <1>6, <1>8
    <2>2. /\ IsFiniteSet(seen \cup entry_roots(m))
          /\ Cardinality(seen \cup entry_roots(m)) <= Cardinality(roots)
      BY <1>5, <2>1, FS_Subset
    <2>3. Cardinality(roots) \in Nat /\ Cardinality(seen \cup entry_roots(m)) \in Nat
      BY <1>5, <2>2, FS_CardinalityType
    <2>4. RootBudget[m.type] \in Nat
      BY <1>1, DutyStateAssumption DEF RootBudget
    <2>. QED
      BY <1>5, <2>2, <2>3, <2>4
  <1>10. ~(entry_roots(m) \subseteq seen)
    BY <1>5, <1>8
  <1>. QED
    BY <1>7, <1>9, <1>10 DEF root_budget_failure

\* No rule fails.
LEMMA HonestPasses ==
    ASSUME Types, RingInv, OriginInv, NEW i \in DOMAIN accepted, accepted[i] = 0,
           message(i).honest, NEW m, m = message(i),
           InTime(m.slot), ViewComplete(m), ~Overtaken(m), ~Contradicted(m), ~Retired,
           m.kind = "Consensus" => m.round <= highest_allowed(m.slot)
    PROVE  check_failure(m) = "none"
  <1>1. /\ Clock /\ m.slot \in Nat /\ m.round \in Nat /\ m.kind \in {"Consensus", "Partial"}
        /\ m.flaws = {} /\ m.signers # {} /\ m.signers \subseteq Committee
        /\ m.topic = fork_at(m.slot) /\ m.domain = fork_at(m.slot)
        /\ m.kind = "Consensus" => ProtocolConsensus(role, m)
        /\ m.kind = "Partial" => ProtocolPartial(role, m)
        /\ ProtocolDuty(role, m)
    BY HonestFacts
  <1>2. <<>> \o <<>> = <<>>
    OBVIOUS
  <1>3. validate_role_for_fork(m.slot) = <<>> /\ signature_rules(m) = <<>>
    BY <1>1, ForkEmpty, SignatureEmpty
  <1>4. m.kind = "Consensus" => consensus_rules(m) = <<>>
    <2>1. SUFFICES ASSUME m.kind = "Consensus" PROVE consensus_rules(m) = <<>>
      OBVIOUS
    <2>2. validate_consensus_message_semantics(m) = <<>>
      BY <1>1, <2>1, ConsensusEmpty
    <2>3. validate_qbft_logic(m) = <<>>
      BY <2>1, QbftLogicEmpty
    <2>4. validate_qbft_message_by_duty_logic(m) = <<>>
      BY <2>1, QbftDutyEmpty
    <2>. QED
      BY <1>2, <1>3, <2>2, <2>3, <2>4 DEF consensus_rules
  <1>5. m.kind = "Partial" => partial_rules(m) = <<>>
    <2>1. SUFFICES ASSUME m.kind = "Partial" PROVE partial_rules(m) = <<>>
      OBVIOUS
    <2>2. validate_partial_signature_message_semantics(m) = <<>>
      BY <1>1, <2>1, PartialEmpty
    <2>3. retirement_rules = <<>>
      BY DEF retirement_rules, Retired, When
    <2>4. validate_partial_sig_messages_by_duty_logic(m) = <<>>
      BY <2>1, PartialDutyEmpty
    <2>. QED
      BY <1>2, <1>3, <2>2, <2>3, <2>4 DEF partial_rules
  <1>6. registry_rules = <<>>
    BY <1>2 DEF registry_rules, ViewComplete, When
  <1>7. First(<<>>) = "none"
    BY DEF First
  <1>8. check_failure(m) =
           IF First(registry_rules) # "none" THEN First(registry_rules)
           ELSE First(IF m.kind = "Consensus" THEN consensus_rules(m) ELSE partial_rules(m))
    BY <1>1, OuterEmpty
  <1>. QED
    BY <1>1, <1>4, <1>5, <1>6, <1>7, <1>8

\* The first copy of an honest message that arrives in time is accepted by a
\* node that knows the duties, unless its signer itself has moved on or has
\* proposed another value (Validator::validate with every rule it calls and the root budget).
THEOREM HonestAcceptedHolds == Spec => []HonestAccepted
  <1>1. ValidatorInv /\ OriginInv => HonestAccepted
    <2>1. SUFFICES ASSUME ValidatorInv, OriginInv, NEW i \in DOMAIN accepted, accepted[i] = 0,
                          message(i).honest, NEW m, m = message(i),
                          InTime(m.slot), ViewComplete(m), ~Overtaken(m),
                          ~Contradicted(m), ~Retired,
                          m.kind = "Consensus" => m.round <= highest_allowed(m.slot)
                   PROVE  Accepts(m)
      BY DEF HonestAccepted, FreshHonest
    <2>2. Types /\ RingInv
      BY <2>1 DEF ValidatorInv
    <2>3. check_failure(m) = "none"
      BY <2>1, <2>2, HonestPasses
    <2>4. CASE m.kind = "Partial"
      <3>1. PICK o : o = CHOOSE x \in m.signers : TRUE
        OBVIOUS
      <3>2. m.signers # {} /\ m.signers \subseteq Committee /\ ProtocolPartial(role, m)
        BY <2>1, <2>2, <2>4, HonestFacts
      <3>3. o \in Committee /\ m.signers = {o}
        BY <3>1, <3>2, SignersFacts DEF ProtocolPartial
      <3>4. root_budget_failure(operators[o], m) = "none"
        BY <2>1, <2>2, <2>4, <3>3, BudgetLeft
      <3>. QED
        BY <2>3, <2>4, <3>1, <3>4 DEF Accepts, validation_failure
    <2>5. CASE m.kind # "Partial"
      BY <2>3, <2>5 DEF Accepts, validation_failure
    <2>. QED
      BY <2>4, <2>5
  <1>. QED
    BY <1>1, ValidatorInvariant, OriginInvariant, PTL
=============================================================================
