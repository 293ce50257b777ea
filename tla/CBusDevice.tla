----------------------------- MODULE CBusDevice -----------------------------
(***************************************************************************)
(* The memory of the simulation: CBusDevice (verilate/vsrc/cbus_device.cpp)*)
(* over AXITransaction (verilate/include/axi.h).  It takes up a request in *)
(* one cycle and serves a beat in each following cycle in which it is      *)
(* enabled; it is disabled at random (p_disable).  An address is a record  *)
(* with a field word; a burst wraps inside an aligned window of len words, *)
(* which is what AXITransaction::sync does whatever the burst type.        *)
(***************************************************************************)
EXTENDS Words

VARIABLES
    tx,         \* the transaction in progress
    enable,
    mem

NoTransaction == [busy |-> FALSE]

DeviceInit == tx = NoTransaction /\ enable = TRUE

\* AXITransaction::last, AXITransaction::init and AXITransaction::sync.
Bug_LastEarly == tx.N + 1 >= tx.len
Last == tx.N = tx.len
Start(req) == [busy |-> TRUE, is_write |-> req.write, N |-> 1,
               addr |-> req.addr, start |-> req.addr, len |-> req.len]

Bug_NoWrap(addr, len) == [addr EXCEPT !.word = @ + 1]
NextAddr(addr, len) ==
    LET lower == (addr.word \div len) * len
    IN  [addr EXCEPT !.word = IF @ + 1 >= lower + len THEN lower ELSE @ + 1]

\* CBusDevice::eval_resp.
DeviceResp ==
    IF enable /\ tx.busy
      THEN [ready |-> TRUE, last |-> Last,
            data  |-> IF tx.is_write THEN ZeroWord ELSE mem[tx.addr]]
      ELSE NoResponse

\* CBusDevice::eval_req and CBusDevice::sync: one clock cycle.
DeviceEdge(req, strobe, data) ==
    /\ enable' \in BOOLEAN
    /\ CASE ~enable -> UNCHANGED <<tx, mem>>
         [] enable /\ tx.busy ->
              /\ tx' = IF Last THEN NoTransaction
                       ELSE [tx EXCEPT !.N = @ + 1, !.addr = NextAddr(tx.addr, tx.len)]
              /\ mem' = IF tx.is_write
                          THEN [mem EXCEPT ![tx.addr] = Merge(@, strobe, data)]
                          ELSE mem
         [] enable /\ ~tx.busy ->
              /\ tx' = IF req.valid THEN Start(req) ELSE tx
              /\ UNCHANGED mem

\* The sanity checks of eval_req (cbus_device.cpp:39-43); the size of a beat
\* is not modelled.
Checks(req) ==
    enable /\ tx.busy =>
        /\ req.valid
        /\ req.write = tx.is_write
        /\ req.addr = tx.start
        /\ req.len = tx.len
=============================================================================
