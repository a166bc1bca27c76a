----------------------------- MODULE OtsSigner ------------------------------
(***************************************************************************)
(* The one-time-signature guard: the key wrapper of crates/crypto (key_    *)
(* state.rs, record.rs), LocalSigner and OtsSigner of crates/runtime       *)
(* (duties/signer.rs, duties/ots_signer.rs) and the watermarks in storage. *)
(* A leaf is one epoch of one key.  Signing is in three steps, with a      *)
(* crash possible between any two: the key signs and advances in memory,   *)
(* the watermark is saved, the signature is released.                      *)
(*                                                                         *)
(* A key's next_index is its last_signed + 1, and 0 if it has not signed.  *)
(***************************************************************************)
EXTENDS Integers

CONSTANTS
    Validators,     \* the validators this node runs
    Seeds,          \* the seeds the offline key generator may have written
    NoSeed,         \* no watermark in storage
    FirstEpoch,     \* first active epoch of a key
    NumActive,      \* number of active epochs
    Step,           \* how far leanSig moves the prepared window at a time
    Slots           \* the slots of the votes to sign

End == FirstEpoch + NumActive
Active == FirstEpoch .. End - 1
Leaf == [validator: Validators, seed: Seeds, epoch: Active]

ASSUME OtsAssumption ==
    /\ NoSeed \notin Seeds
    /\ FirstEpoch \in Nat /\ NumActive \in Nat /\ Step \in Nat \ {0}
    /\ 2 * Step <= NumActive /\ NumActive % Step = 0
    /\ Slots \subseteq Nat

VARIABLES
    up,         \* the process runs
    file,       \* the seed in each validator's secret file
    stored,     \* each validator's watermark in storage: [seed, next_index]
    keys,       \* the keys in memory: [next_index, prepared]
    unsaved,    \* the leaf just signed, before its watermark is saved
    unreleased, \* the leaf whose watermark is saved, before its release
    signed,     \* how often each leaf was signed, counted up to 2
    released,   \* how often each leaf's signature was released, counted up to 2
    asked       \* the highest active epoch each key was asked to sign

signer_vars == <<up, file, stored, keys, unsaved, unreleased, signed, released, asked>>

FreshKey == [next_index |-> 0, prepared |-> FirstEpoch]
Count(n) == IF n = 0 THEN 1 ELSE 2

SignerInit ==
    /\ up = FALSE
    /\ file \in [Validators -> Seeds]
    /\ stored = [v \in Validators |-> [seed |-> NoSeed, next_index |-> 0]]
    /\ keys = [v \in Validators |-> FreshKey]
    /\ unsaved = {}
    /\ unreleased = {}
    /\ signed = [l \in Leaf |-> 0]
    /\ released = [l \in Leaf |-> 0]
    /\ asked = [v \in Validators |-> FirstEpoch]
-----------------------------------------------------------------------------
(* The key *)

\* MUTANT of Prepare: an epoch behind the window is not refused first, and the
\* window runs to the end of the key's life.
PrepareAnyEpoch(p, e) ==
    IF e < p THEN End - 2 * Step
    ELSE IF e < p + 2 * Step THEN p
    ELSE p + Step * ((e - p) \div Step - 1)

\* prepare: the window [p, p + 2 * Step) moves right, a step at a time, until
\* it covers epoch e; it is left alone if e is behind it.
Prepare(p, e) ==
    IF e < p + 2 * Step THEN p ELSE p + Step * ((e - p) \div Step - 1)

Covers(p, e) == p <= e /\ e < p + 2 * Step

\* MUTANT of FromRecordOk: an exhausted key is refused.
FromRecordOkUnexhausted(next_index) ==
    next_index = 0 \/ (FirstEpoch < next_index /\ next_index < End)

\* from_record accepts the watermark.
FromRecordOk(next_index) ==
    next_index = 0 \/ (FirstEpoch < next_index /\ next_index <= End)

\* MUTANT of ResolveRecord: the watermark in storage is ignored.
ResolveRecordFileOnly(v) == 0

\* The next_index a start resumes from.  The one in the secret file is 0: the
\* key generator writes the file, and nothing rewrites it.
ResolveRecord(v) == stored[v].next_index

\* resolve_record refuses a watermark of another key.
SameKey(v) == stored[v].seed \in {NoSeed, file[v]}
-----------------------------------------------------------------------------
(* Actions *)

\* load_resuming loads all keys or none.
Load ==
    /\ ~up
    /\ \A v \in Validators : SameKey(v) /\ FromRecordOk(ResolveRecord(v))
    /\ up' = TRUE
    /\ keys' = [v \in Validators |-> [next_index |-> ResolveRecord(v), prepared |-> FirstEpoch]]
    /\ UNCHANGED <<file, stored, unsaved, unreleased, signed, released, asked>>

\* LocalSigner::sign_attestation for a vote of slot e, behind the signer's
\* mutex: the key is prepared and signs an epoch it has not passed.
SignAttestation(v, e) ==
    LET leaf == [validator |-> v, seed |-> file[v], epoch |-> e]
        p == Prepare(keys[v].prepared, e)
    IN  /\ up /\ unsaved = {} /\ unreleased = {}
        /\ e \in Active
        /\ asked' = [asked EXCEPT ![v] = IF e > @ THEN e ELSE @]
        /\ Covers(p, e)
        /\ e >= keys[v].next_index
        /\ keys' = [keys EXCEPT ![v] = [next_index |-> e + 1, prepared |-> p]]
        /\ unsaved' = {leaf}
        /\ signed' = [signed EXCEPT ![leaf] = Count(@)]
        /\ UNCHANGED <<up, file, stored, unreleased, released>>

\* The same call refused: behind the window, reused, or an error of leanSig.
\* The window may have moved.
SignAttestationFails(v, e) ==
    /\ up /\ unsaved = {} /\ unreleased = {}
    /\ e \in Active
    /\ asked' = [asked EXCEPT ![v] = IF e > @ THEN e ELSE @]
    /\ keys' = [keys EXCEPT ![v].prepared = Prepare(@, e)]
    /\ UNCHANGED <<up, file, stored, unsaved, unreleased, signed, released>>

\* save_ots_key_state overwrites the watermark with the advanced one.
SaveOtsKeyState(l) ==
    /\ l \in unsaved
    /\ stored' = [stored EXCEPT ![l.validator] =
                     [seed |-> l.seed, next_index |-> keys[l.validator].next_index]]
    /\ unsaved' = {}
    /\ unreleased' = {l}
    /\ UNCHANGED <<up, file, keys, signed, released, asked>>

\* The save fails, or the signature does not fit the wire: it is withheld.
Withhold(l) ==
    /\ l \in unsaved
    /\ unsaved' = {}
    /\ UNCHANGED <<up, file, stored, keys, unreleased, signed, released, asked>>

\* sign_attestation returns the signature to the chain service.
Release(l) ==
    /\ l \in unreleased
    /\ released' = [released EXCEPT ![l] = Count(@)]
    /\ unreleased' = {}
    /\ UNCHANGED <<up, file, stored, keys, unsaved, signed, asked>>

\* The process dies at any moment; files and storage survive.
Crash ==
    /\ up
    /\ up' = FALSE
    /\ keys' = [v \in Validators |-> FreshKey]
    /\ unsaved' = {}
    /\ unreleased' = {}
    /\ asked' = [v \in Validators |-> FirstEpoch]
    /\ UNCHANGED <<file, stored, signed, released>>

\* The operator puts another secret file, or an old one, in place.
ReplaceSecret(v, seed) ==
    /\ ~up
    /\ file' = [file EXCEPT ![v] = seed]
    /\ UNCHANGED <<up, stored, keys, unsaved, unreleased, signed, released, asked>>

SignerNext ==
    \/ Load
    \/ \E v \in Validators, e \in Slots : SignAttestation(v, e) \/ SignAttestationFails(v, e)
    \/ \E l \in unsaved : SaveOtsKeyState(l) \/ Withhold(l)
    \/ \E l \in unreleased : Release(l)
    \/ Crash
    \/ \E v \in Validators, seed \in Seeds : ReplaceSecret(v, seed)

SignerSpec == SignerInit /\ [][SignerNext]_signer_vars
-----------------------------------------------------------------------------
(* Properties *)

\* Keys and watermarks are well formed; the prepared window never leaves the
\* active epochs.
SignerTypeOK ==
    /\ up \in BOOLEAN
    /\ file \in [Validators -> Seeds]
    /\ stored \in [Validators -> [seed: Seeds \cup {NoSeed}, next_index: 0 .. End]]
    /\ keys \in [Validators -> [next_index: 0 .. End, prepared: FirstEpoch .. End - 2 * Step]]
    /\ unsaved \subseteq Leaf
    /\ unreleased \subseteq Leaf
    /\ signed \in [Leaf -> 0 .. 2]
    /\ released \in [Leaf -> 0 .. 2]
    /\ asked \in [Validators -> Active]

\* sign_attestation never releases two signatures of one leaf, whatever
\* crashes, failed saves and exchanged secret files lie between them.
ReleasedOnce == \A l \in Leaf : released[l] <= 1

\* A watermark that the guard saved is one that the next start accepts, the
\* one of an exhausted key included, unless the secret file was exchanged.
ResumeAccepted == \A v \in Validators : SameKey(v) => FromRecordOk(ResolveRecord(v))

\* The prepared window always covers the highest epoch asked for: no request,
\* accepted or refused, moves the window past a later epoch's reach.
WindowCoversAsked == up => \A v \in Validators : Covers(keys[v].prepared, asked[v])

\* No leaf is signed twice.  Stated of OtsSigner; but a leaf that was signed
\* and not saved can be signed again after a restart.
SignedOnce == \A l \in Leaf : signed[l] <= 1
=============================================================================
