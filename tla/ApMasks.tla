------------------------------- MODULE ApMasks -------------------------------
(***************************************************************************)
(* The masks and lists of AP adapters and domains as they are represented: *)
(* a mask is a string of hex digits (here the sequence of their values)    *)
(* with bit 0 on the left, a setting of chzdev is a list of numbers and    *)
(* ranges, and conflicts are found by walking along two sorted lists       *)
(* (libap/ap.c, zdev/src/ap.c, ap_tools/ap-check.c).  The properties say   *)
(* that ApConfig may take all of these for sets of ids.                    *)
(***************************************************************************)
EXTENDS Integers, Sequences, SequencesExt

CONSTANTS
    AP_MAX_MASK_VALUE, \* bound: the last bit of a mask
    INVALID            \* not a mask

Bit == 0..AP_MAX_MASK_VALUE
Mask == [1..(AP_MAX_MASK_VALUE + 1) \div 4 -> 0..15]
default_mask == [i \in DOMAIN CHOOSE m \in Mask : TRUE |-> 0]

Weight(n) == 2^(3 - (n % 4))

ap_test_bit(n, mask) == (mask[n \div 4 + 1] \div Weight(n)) % 2 = 1

ap_set_bit(n, mask, val) ==
    IF ap_test_bit(n, mask) = val THEN mask
    ELSE [mask EXCEPT ![n \div 4 + 1] = IF val THEN @ + Weight(n) ELSE @ - Weight(n)]

ap_mask_to_list(mask) == SelectSeq([i \in 1..AP_MAX_MASK_VALUE + 1 |-> i - 1],
                                   LAMBDA n : ap_test_bit(n, mask))

ap_mask_list_changes(source, target) ==
    [adds |-> {n \in Bit : ~ap_test_bit(n, source) /\ ap_test_bit(n, target)},
     subs |-> {n \in Bit : ap_test_bit(n, source) /\ ~ap_test_bit(n, target)}]

-----------------------------------------------------------------------------
(***************************************************************************)
(* From a mask to a setting and back. An entry of a setting is a range (of *)
(* one number, perhaps), an entry of an input has an operator as well:     *)
(* "=" stands for none.                                                    *)
(***************************************************************************)
Entry(op, from, to) == [op |-> op, from |-> from, to |-> to]

\* The range being built is the last one.
ap_mask_to_setting(mask) ==
    LET Extended(acc, n) ==
            IF acc # <<>> /\ Last(acc).to = n - 1
            THEN [acc EXCEPT ![Len(acc)].to = n]
            ELSE Append(acc, Entry("=", n, n))
    IN  FoldLeft(Extended, <<>>, ap_mask_to_list(mask))

\* A number that is too large, or an operator where there must be none, is an
\* error. A range that ends before it starts is not: parse_mask_entry_range
\* compares the addresses of the numbers (taken to be in the order of their
\* declarations), and the loop is not entered.
parse_mask_entry(entry, assign, mask) ==
    IF \/ assign # (entry.op = "=")
       \/ entry.from \notin Bit
       \/ entry.to \notin Bit
    THEN INVALID
    ELSE FoldLeft(LAMBDA m, n : ap_set_bit(n, m, entry.op # "-"), mask,
                  [i \in 1..entry.to - entry.from + 1 |-> entry.from + i - 1])

ap_validate_mask_input(mask, input) ==
    LET assign == Head(input).op = "="
    IN  IF input = <<>> THEN INVALID
        ELSE FoldLeft(LAMBDA m, entry : IF m = INVALID THEN INVALID
                                        ELSE parse_mask_entry(entry, assign, m),
                      IF assign THEN default_mask ELSE mask, input)

-----------------------------------------------------------------------------
(***************************************************************************)
(* The conflict analysis on sorted lists. Walk is the loop over adapters,  *)
(* and the one over domains inside of it: it yields the common elements.   *)
(***************************************************************************)
Rest(l) == SubSeq(l, 2, Len(l))

RECURSIVE Walk(_, _)
Walk(a, b) ==
    IF a = <<>> \/ b = <<>> THEN {}
    ELSE IF Head(a) = Head(b) THEN {Head(a)} \cup Walk(Rest(a), Rest(b))
    ELSE IF Head(a) > Head(b) THEN Walk(a, Rest(b))
    ELSE Walk(Rest(a), b)

find_apqn_conflicts(adapters, domains, adapters2, domains2) ==
    Walk(adapters, adapters2) \X Walk(domains, domains2)

-----------------------------------------------------------------------------
(***************************************************************************)
(* Properties.                                                             *)
(***************************************************************************)
Bits(mask) == {n \in Bit : ap_test_bit(n, mask)}

\* What chzdev shows of a mask is, as an input, that mask again: the ranges of
\* ap_mask_to_setting cover its bits and no others, across digits and at both
\* ends. Only the mask without bits cannot be specified in this way.
SettingsReadBack ==
    \A mask \in Mask :
        ap_validate_mask_input(default_mask, ap_mask_to_setting(mask)) =
            IF Bits(mask) = {} THEN INVALID ELSE mask

\* An input of chzdev means what ap_validate_mask_input's callers compute with
\* it: a bit is on if the last entry that names it turns it on, or if none does
\* and the input is a list of changes to a mask where it is on; and the lists of
\* additions and removals are the differences that are checked for conflicts.
Numbers == {0, 3, 4, AP_MAX_MASK_VALUE, AP_MAX_MASK_VALUE + 1}
Entries == [op : {"=", "+", "-"}, from : Numbers, to : Numbers]
Inputs == {<<e>> : e \in Entries} \cup (Entries \X Entries)
Means(mask, input) ==
    LET Named(n) == {k \in DOMAIN input : n \in input[k].from..input[k].to}
        On(n) == IF Named(n) = {} THEN input[1].op # "=" /\ ap_test_bit(n, mask)
                 ELSE \E k \in Named(n) : input[k].op # "-" /\ \A j \in Named(n) : j <= k
    IN  {n \in Bit : On(n)}
Accepted(input) ==
    /\ \A k \in DOMAIN input : {input[k].from, input[k].to} \subseteq Bit
    /\ \A j, k \in DOMAIN input : input[j].op = "=" => input[k].op = "="
SomeMasks == {m \in Mask : \A n \in Bit : ap_test_bit(n, m) => n \in Numbers}
InputsExact ==
    \A input \in Inputs, mask \in SomeMasks :
        LET result == ap_validate_mask_input(mask, input)
        IN  /\ (result # INVALID) = Accepted(input)
            /\ result # INVALID =>
                  /\ Bits(result) = Means(mask, input)
                  /\ LET diff == ap_mask_list_changes(mask, result)
                     IN  /\ diff.adds = Bits(result) \ Bits(mask)
                         /\ diff.subs = Bits(mask) \ Bits(result)

\* Walking along two sorted lists finds exactly the common queues, so that a
\* conflict is never missed, wherever in the lists it is.
ConflictsExact ==
    \A a, b \in Mask :
        LET l == ap_mask_to_list(a)
            m == ap_mask_to_list(b)
        IN  find_apqn_conflicts(l, l, m, m) = (Bits(a) \cap Bits(b)) \X (Bits(a) \cap Bits(b))
=============================================================================
