----------------------------- MODULE BlockMemory -----------------------------
(***************************************************************************)
(* The memory of the simulation with the loader of its image: BlockMemory  *)
(* of verilate/vsrc/memory.cpp, as the runner builds it from the file that *)
(* --memfile names.  The next state relation is that of the bus device:    *)
(* stores under a mask, and the reset that brings the image back.          *)
(***************************************************************************)
EXTENDS Words, Sequences

CONSTANTS
    WordBytes,      \* 8, sizeof(word_t)
    IntBytes,       \* 4, sizeof(unsigned)
    Size,           \* _size in words
    Images          \* the images a file may hold, sequences of bytes

Indices == 0 .. Size - 1

VARIABLES
    mem, saved_mem,
    shift,          \* what this build's 0xffu << n yields for n >= 32
    image,          \* the bytes of the file: kept by no variable of the code
    flat            \* what the image and the stores since make of memory, byte by byte

vars == <<mem, saved_mem, shift, image, flat>>

Load(index) == mem[index]

\* ~(0xffu << shamt), as the lanes of a word it keeps.  The shift is made in 32
\* bits and is undefined from 32 on: the instruction takes it modulo 32, the
\* vector one yields 0.  Widened to a word, the mask has zeros above.
MaskKeeps(lane) ==
    LET int == 0 .. IntBytes - 1
    IN  IF lane < IntBytes \/ shift = "modulo"
          THEN int \ {lane % IntBytes}
          ELSE int

\* One turn of the loop of BlockMemory::map.
Mapped(m, i, byte) ==
    LET lane == i % WordBytes
    IN  [m EXCEPT ![i \div WordBytes] =
            [l \in Lanes |-> IF l = lane THEN byte
                             ELSE IF l \in MaskKeeps(lane) THEN @[l] ELSE ZeroByte]]

\* BlockMemory::map of the image at address 0.
Map(m, data) ==
    LET turns[n \in 0 .. Len(data)] ==
            IF n = 0 THEN m ELSE Mapped(turns[n - 1], n - 1, data[n])
    IN  turns[Len(data)]

Zeros == [index \in Indices |-> ZeroWord]
Flat(data) ==
    [index \in Indices |-> [l \in Lanes |->
        LET i == index * WordBytes + l IN IF i < Len(data) THEN data[i + 1] ELSE ZeroByte]]

\* The constructor: the loaded image is also what reset restores.
Init ==
    /\ shift \in {"modulo", "zero"}
    /\ image \in Images
    /\ mem = Map(Zeros, image)
    /\ saved_mem = mem
    /\ flat = Flat(image)

Store(index, mask, data) ==
    /\ mem' = [mem EXCEPT ![index] = Merge(@, mask, data)]
    /\ flat' = [flat EXCEPT ![index] = Merge(@, mask, data)]
    /\ UNCHANGED <<saved_mem, shift, image>>

Reset ==
    /\ mem' = saved_mem
    /\ flat' = Flat(image)
    /\ UNCHANGED <<saved_mem, shift, image>>

Next ==
    \/ \E index \in Indices, mask \in SUBSET Lanes, data \in Word : Store(index, mask, data)
    \/ Reset
Spec == Init /\ [][Next]_vars
-----------------------------------------------------------------------------
\* The --memfile option initialises memory (runner.h:71): a program reads the
\* bytes of its image and of its own stores.
ReadsImage == \A index \in Indices : Load(index) = flat[index]
=============================================================================
