-------------------------- MODULE StateTransition --------------------------
(***************************************************************************)
(* The state-transition function of crates/protocol/src/state.rs, as       *)
(* operators on a state record.  A block root stands for the hash of the   *)
(* block: distinct blocks have distinct roots.                             *)
(*                                                                         *)
(*  - header.sealed says whether latest_block_header.state_root has been   *)
(*    filled in; only then does hashing the header give the block's root.  *)
(*  - historical_block_hashes is a function on 0 .. length - 1, and        *)
(*    justified_slots, a bitlist of the same length, is the set of slots   *)
(*    whose bit is set.                                                    *)
(*  - tally[r] is the set of validators whose bit is set for target root r *)
(*    in justifications_roots / justifications_validators.  An entry       *)
(*    exists in the code exactly when some bit of it is set.               *)
(***************************************************************************)
EXTENDS Slot, FiniteSets

CONSTANTS
    NumValidators,          \* length of the validator registry
    Roots,                  \* block roots, ZeroRoot included
    ZeroRoot,               \* Bytes32::zero()
    GenesisRoot,            \* root of the anchor block
    HistoricalRootsLimit    \* HISTORICAL_ROOTS_LIMIT

ASSUME StfAssumption ==
    /\ NumValidators \in Nat \ {0}
    /\ ZeroRoot \in Roots
    /\ GenesisRoot \in Roots \ {ZeroRoot}
    /\ HistoricalRootsLimit \in Nat

Validators == 0 .. NumValidators - 1
Checkpoint == [root: Roots, slot: Nat]

Zero == [root |-> ZeroRoot, slot |-> 0]
Empty == [i \in {} |-> i]

\* genesis_state: every list empty, both checkpoints zero.
GenesisState ==
    [slot |-> 0,
     header |-> [slot |-> 0, root |-> GenesisRoot, sealed |-> FALSE],
     latest_justified |-> Zero,
     latest_finalized |-> Zero,
     historical_block_hashes |-> Empty,
     justified_slots |-> {},
     tally |-> [r \in Roots |-> {}]]

\* The slots that historical_block_hashes and justified_slots have an entry
\* for: the two grow together, up to the slot of the latest header.
History(s) == DOMAIN s.historical_block_hashes

-----------------------------------------------------------------------------
(* process_slots and process_block_header *)

CanProcessSlots(s, target) == target > s.slot

\* The first iteration seals the header, the others only count slots.
ProcessSlots(s, target) ==
    [s EXCEPT !.slot = target, !.header.sealed = TRUE]

\* A block as the header checks see it: its own root, its slot, proposer and
\* parent, and whether its state_root will match the post-state.
BlockHeaderOk(s, b) ==
    /\ b.slot = s.slot
    /\ b.slot > s.header.slot
    /\ b.proposer_index = s.slot % NumValidators
    /\ s.header.sealed
    /\ b.parent_root = s.header.root
    /\ b.slot <= HistoricalRootsLimit

ProcessBlockHeader(s, b) ==
    LET was_genesis == s.header.slot = 0
        parent == b.parent_root
        len == s.header.slot
        Root0(cp) == IF was_genesis THEN [cp EXCEPT !.root = parent] ELSE cp
    IN  [s EXCEPT
           !.latest_justified = Root0(@),
           !.latest_finalized = Root0(@),
           !.historical_block_hashes =
               [i \in 0 .. b.slot - 1 |->
                   IF i < len THEN @[i] ELSE IF i = len THEN parent ELSE ZeroRoot],
           !.justified_slots = IF was_genesis THEN @ \cup {len} ELSE @,
           !.header = [slot |-> b.slot, root |-> b.root, sealed |-> FALSE]]

-----------------------------------------------------------------------------
(* process_attestations: one iteration of its loop *)

\* The range checks: a vote that fails one aborts the whole call.
AttestationInRange(s, att) ==
    /\ att.source.slot \in History(s)
    /\ att.target.slot \in History(s)
    /\ att.validator_id \in Validators

\* MUTANT of Acceptable: the source root is not compared with history.
AcceptableAnySourceRoot(s, att) ==
    /\ att.source.slot \in s.justified_slots
    /\ att.target.slot \notin s.justified_slots
    /\ att.target.root = s.historical_block_hashes[att.target.slot]
    /\ att.target.slot > att.source.slot
    /\ IsJustifiableAfter(att.target.slot, s.latest_finalized.slot)

\* MUTANT of Acceptable: the target may lie below the source.
AcceptableUnordered(s, att) ==
    /\ att.source.slot \in s.justified_slots
    /\ att.target.slot \notin s.justified_slots
    /\ att.source.root = s.historical_block_hashes[att.source.slot]
    /\ att.target.root = s.historical_block_hashes[att.target.slot]
    /\ IsJustifiableAfter(att.target.slot, s.latest_finalized.slot)

\* The semantic filters: a vote that fails one is skipped.
Acceptable(s, att) ==
    /\ att.source.slot \in s.justified_slots
    /\ att.target.slot \notin s.justified_slots
    /\ att.source.root = s.historical_block_hashes[att.source.slot]
    /\ att.target.root = s.historical_block_hashes[att.target.slot]
    /\ att.target.slot > att.source.slot
    /\ IsJustifiableAfter(att.target.slot, s.latest_finalized.slot)

\* MUTANT of HasSupermajority: a third of the validators is enough.
HasSupermajorityThird(votes) == 3 * Cardinality(votes) >= NumValidators

HasSupermajority(votes) == 3 * Cardinality(votes) >= 2 * NumValidators

\* MUTANT of NoIntermediate: the slot next to the source is not looked at.
NoIntermediateSkipsFirst(s, att) ==
    \A mid \in att.source.slot + 2 .. att.target.slot - 1 :
        ~IsJustifiableAfter(mid, s.latest_finalized.slot)

\* MUTANT of NoIntermediate: the finalized slot itself is not a candidate.
NoIntermediateAfterFinalized(s, att) ==
    \A mid \in att.source.slot + 1 .. att.target.slot - 1 :
        mid > s.latest_finalized.slot => ~IsJustifiableAfter(mid, s.latest_finalized.slot)

\* No slot strictly between source and target could be justified after the
\* live finalized slot.
NoIntermediate(s, att) ==
    \A mid \in att.source.slot + 1 .. att.target.slot - 1 :
        ~IsJustifiableAfter(mid, s.latest_finalized.slot)

Tally(s, att) ==
    [s EXCEPT !.tally[att.target.root] = @ \cup {att.validator_id}]

Justify(s, att) ==
    [s EXCEPT !.latest_justified = att.target,
              !.justified_slots = @ \cup {att.target.slot},
              !.tally[att.target.root] = {},
              !.latest_finalized = IF NoIntermediate(s, att) THEN att.source ELSE @]

\* MUTANT of ProcessAttestation: the quorum is tested before the vote counts.
ProcessAttestationTestsFirst(s, att) ==
    IF ~Acceptable(s, att) THEN s
    ELSE IF HasSupermajority(s.tally[att.target.root])
         THEN Justify(s, att)
         ELSE Tally(s, att)

ProcessAttestation(s, att) ==
    IF ~Acceptable(s, att) THEN s
    ELSE IF HasSupermajority(s.tally[att.target.root] \cup {att.validator_id})
         THEN Justify(s, att)
         ELSE Tally(s, att)
=============================================================================
