----------------------------- MODULE MCApConfig -----------------------------
(***************************************************************************)
(* A small instance of ApConfig for TLC.                                   *)
(***************************************************************************)
EXTENDS ApConfig, TLC

CONSTANTS m1, m2, z1, u1, u2

Dev(manual, A, D, C) == [manual |-> manual, adapters |-> A, domains |-> D, controls |-> C]

\* Two devices that are not in conflict, and one that is with both of them.
MCRequests == {Dev(FALSE, {1}, {1}, {}), Dev(FALSE, {2}, {1}, {}), Dev(TRUE, {1, 2}, {1}, {})}

Assign(S) == [assign |-> TRUE, on |-> S, off |-> {}]
Change(S, T) == [assign |-> FALSE, on |-> S, off |-> T]

MCApInput == {Assign({1, 2}), Change({}, {1})}
MCAqInput == {Assign({2}), Change({1}, {})}

\* The representation of masks and lists, with two digits: ApConfig may take them
\* for sets of ids.
Hex == INSTANCE ApMasks WITH AP_MAX_MASK_VALUE <- 7, INVALID <- NONE

ASSUME MasksAreSets == Hex!SettingsReadBack /\ Hex!InputsExact /\ Hex!ConflictsExact

Symmetry == Permutations({u1, u2}) \cup Permutations({m1, m2})
=============================================================================
