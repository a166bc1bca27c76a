------------------------------ MODULE MCDevnet ------------------------------
(* Small instances of Devnet.  Root 0 is the all-zero root, root 1 the       *)
(* anchor; later blocks have larger roots, or smaller ones.                  *)
EXTENDS Devnet

Ascending == [n \in Slots |-> n + 1]
Descending == [n \in Slots |-> IF n = 0 THEN 1 ELSE MaxSlot + 2 - n]
MCHashes == {Ascending, Descending}

\* Two early changes of the network or stalls of a slot, and time to recover.
Disturbed == [slots |-> 9, faults |-> 2, times |-> {0, 2}, stalls |-> {4}, delay |-> 0,
              ahead |-> {Validators, {1, 2}}, up |-> {{}, {0, 1}, {1, 2}, Validators}]

\* Node 0 is cut off in slot 1.  It stays alone, or it comes back in slot 3,
\* behind in blocks only, and syncs or stays on its branch.
Early == [slots |-> 19, faults |-> 2, times |-> {1, 3}, stalls |-> {}, delay |-> 2,
          ahead |-> {Validators, {0}, {1, 2}}, up |-> {{1, 2}, Validators}]

\* It comes back in slot 14, when the others have finalized a block without it.
Finalized == [slots |-> 21, faults |-> 2, times |-> {1, 14}, stalls |-> {}, delay |-> 2,
              ahead |-> {Validators, {0}}, up |-> {{1, 2}, Validators}]

\* Two changes of the network at any time.
Late == [slots |-> 10, faults |-> 2, times |-> 0 .. 10, stalls |-> {}, delay |-> 1,
         ahead |-> SUBSET Validators, up |-> {c \in SUBSET Validators : Cardinality(c) # 1}]

MCBounds == {Disturbed, Early, Finalized}
MCLateBounds == {Late}
=============================================================================
