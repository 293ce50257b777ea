------------------------------- MODULE Words --------------------------------
(***************************************************************************)
(* Words of byte lanes and the write port of a RAM with byte strobes       *)
(* (vsrc/ram/RAM_SinglePort.sv; CBusDevice::sync masks in the same way).   *)
(***************************************************************************)
EXTENDS Naturals

CONSTANTS
    Lanes,          \* the byte lanes of a word, 8 in the code
    Bytes,          \* the values of a byte lane
    ZeroByte

ASSUME ByteAssumption == ZeroByte \in Bytes

Word     == [Lanes -> Bytes]
ZeroWord == [l \in Lanes |-> ZeroByte]

\* The definitions named Bug_..., here and in the other modules, are not the
\* code: each is the definition that follows it with a plausible mistake, and
\* some run must notice the swap.

Bug_MergeWholeWord(old, strobe, new) == IF strobe = {} THEN old ELSE new
\* What the RAM holds after a write under a strobe, a set of lanes.
Merge(old, strobe, new) ==
    [l \in Lanes |-> IF l \in strobe THEN new[l] ELSE old[l]]

\* A response on the cache bus, and the wires when nothing is said or asked.
Response   == [ready : BOOLEAN, last : BOOLEAN, data : Word]
NoResponse == [ready |-> FALSE, last |-> FALSE, data |-> ZeroWord]
Silent     == [valid |-> FALSE]
=============================================================================
