------------------------ MODULE StateTransitionLoop ------------------------
(***************************************************************************)
(* A state advancing block by block: state_transition with the loop of     *)
(* process_attestations unrolled, one step per vote of the body.  The      *)
(* votes are chosen as the loop meets them, so every body of at most       *)
(* MaxAttestations votes is covered.  "work" is the local copy that        *)
(* state_transition mutates; the state only changes when it is swapped in. *)
(* A block refused before its votes are looked at leaves everything        *)
(* unchanged, which is a stuttering step.                                  *)
(***************************************************************************)
EXTENDS StateTransition

CONSTANTS
    Blocks,             \* the block headers offered to the state
    Attestations,       \* the votes a body may hold
    MaxAttestations     \* bound on the votes of one body

ASSUME LoopAssumption ==
    /\ Blocks \subseteq [slot: Nat, root: Roots \ {ZeroRoot},
                         parent_root: Roots, proposer_index: Nat]
    /\ Attestations \subseteq [validator_id: Nat, source: Checkpoint, target: Checkpoint]
    /\ MaxAttestations \in Nat

VARIABLES
    state,      \* the committed state
    work,       \* the working copy; equal to state between blocks
    phase,      \* "idle" or "attestations"
    applied     \* votes of the current body looked at so far

vars == <<state, work, phase, applied>>

Init ==
    /\ state = GenesisState
    /\ work = GenesisState
    /\ phase = "idle"
    /\ applied = 0

\* A root is a hash, so a new block's root occurs nowhere in the chain yet.
Fresh(b) ==
    /\ b.root # state.header.root
    /\ \A i \in History(state) : b.root # state.historical_block_hashes[i]

Begin(b) ==
    /\ phase = "idle"
    /\ Fresh(b)
    /\ CanProcessSlots(state, b.slot)
    /\ BlockHeaderOk(ProcessSlots(state, b.slot), b)
    /\ work' = ProcessBlockHeader(ProcessSlots(state, b.slot), b)
    /\ phase' = "attestations"
    /\ applied' = 0
    /\ UNCHANGED state

ApplyVote(att) ==
    /\ phase = "attestations"
    /\ applied < MaxAttestations
    /\ AttestationInRange(work, att)
    /\ work' = ProcessAttestation(work, att)
    /\ applied' = applied + 1
    /\ UNCHANGED <<state, phase>>

\* An Err return drops the working copy: a vote failed a range check, or the
\* post-state's root is not the block's state_root.
Abort(att) ==
    /\ phase = "attestations"
    /\ applied < MaxAttestations
    /\ ~AttestationInRange(work, att)
    /\ work' = state
    /\ phase' = "idle"
    /\ applied' = 0
    /\ UNCHANGED state

StateRootMismatch ==
    /\ phase = "attestations"
    /\ work' = state
    /\ phase' = "idle"
    /\ applied' = 0
    /\ UNCHANGED state

Commit ==
    /\ phase = "attestations"
    /\ state' = work
    /\ phase' = "idle"
    /\ applied' = 0
    /\ UNCHANGED work

Next ==
    \/ \E b \in Blocks : Begin(b)
    \/ \E att \in Attestations : ApplyVote(att) \/ Abort(att)
    \/ StateRootMismatch
    \/ Commit

Spec == Init /\ [][Next]_vars
-----------------------------------------------------------------------------
(* Properties *)

StateOfLength(n) ==
    [slot: Nat,
     header: [slot: {n}, root: Roots \ {ZeroRoot}, sealed: BOOLEAN],
     latest_justified: Checkpoint,
     latest_finalized: Checkpoint,
     historical_block_hashes: [0 .. n - 1 -> Roots],
     justified_slots: SUBSET (0 .. n - 1),
     tally: [Roots -> SUBSET Validators]]

\* Both states are well formed: one history entry for every slot below the
\* latest header's, and justified bits for those slots only.
TypeOK ==
    /\ state.header.slot \in Nat /\ state \in StateOfLength(state.header.slot)
    /\ work.header.slot \in Nat /\ work \in StateOfLength(work.header.slot)
    /\ phase \in {"idle", "attestations"}
    /\ applied \in 0 .. MaxAttestations

OnChain(s, cp) ==
    /\ cp.slot \in s.justified_slots
    /\ s.historical_block_hashes[cp.slot] = cp.root

Started(s) == s.header.slot > 0

\* Once a block has been applied, latest_justified and latest_finalized each
\* name a justified slot of the state's own history, with the root recorded
\* there.  A vote only moves them to checkpoints that process_attestations has
\* compared with historical_block_hashes, and history is never rewritten.
CheckpointsOnChain ==
    \A s \in {state, work} :
        IF Started(s)
        THEN OnChain(s, s.latest_justified) /\ OnChain(s, s.latest_finalized)
        ELSE s.latest_justified = Zero /\ s.latest_finalized = Zero

\* The finalized slot never overtakes the justified slot, although
\* process_attestations lets latest_justified move to an earlier slot.
FinalizedNotAboveJustified ==
    \A s \in {state, work} : s.latest_finalized.slot <= s.latest_justified.slot

\* A target root whose votes reach two thirds leaves the tally in the same
\* step, so no supermajority is ever carried from one block to the next.
NoQuorumLeftInTally ==
    \A s \in {state, work} : \A r \in Roots : ~HasSupermajority(s.tally[r])

\* Votes are only pending for targets that are not justified yet: no block
\* root of a justified slot has an entry in the tally.  (The all-zero root,
\* which stands for every empty slot at once, is not covered.)
PendingTargetsUnjustified ==
    \A s \in {state, work} : \A i \in s.justified_slots :
        LET r == s.historical_block_hashes[i]
        IN  r # ZeroRoot => s.tally[r] = {}

F == INSTANCE Finality WITH
        chain <- state.historical_block_hashes,
        justified <- state.justified_slots,
        finalized <- state.latest_finalized

\* The committed state implements the abstract promise of finality: whatever
\* votes the blocks carry, in whatever order, finality never moves back, never
\* leaves the chain and justification is never withdrawn.
ImplementsFinality == F!Spec
=============================================================================
