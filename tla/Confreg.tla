------------------------------- MODULE Confreg -------------------------------
(***************************************************************************)
(* The configuration registers and the two consoles of the simulated SoC:  *)
(* verilate/vsrc/confreg.cpp, checkout_confreg of model.cpp and            *)
(* notify_char of common.cpp.  The simulation thread makes one cycle after *)
(* another: the loads and at most one store of the bus, then sync, then    *)
(* checkout_confreg.  A detached thread reads the terminal and fills the   *)
(* input queue meanwhile.                                                  *)
(***************************************************************************)
EXTENDS Integers, Sequences, FiniteSets

CONSTANTS
    Typed,          \* the bytes the terminal sends
    Text,           \* the bytes a program writes to the virtual UART
    Newline,        \* "\n", one of Text
    High,           \* the bytes of Text above 0x7f
    BufferLimit,    \* LOG_MAX_BUFFER_SIZE
    Regs, Values,   \* the plain registers and what is stored there
    Zero,
    MaxTyped, MaxSaid,  \* bounds: bytes typed, bytes written to the screen,
    MaxNum              \* and the numbers a program shows

VARIABLES
    (* Confreg *)
    ctx,        \* uart_avail, uart_fetched, vuart_written, vuart_data, v_num
    ctx0,       \* ctx as it was at the last sync
    ififo,      \* the input queue of the UART
    mem,        \* the registers
    changes,    \* the stores of this cycle
    (* the console thread *)
    held,       \* the byte fgetc has returned, not yet in the queue
    (* the model and the log *)
    stage,      \* how far the cycle is
    status,     \* _ctx.status_enabled
    current,    \* _current_num
    buffer,     \* _ctx.char_buffer
    screen,     \* what has been put on stderr
    (* used by no code *)
    typed,      \* all the terminal has sent since the last reset
    rxd,        \* what RXD has returned in this cycle
    got,        \* what RXD has returned in the cycles before
    said        \* the 7 bit characters the program has written

Silent == "no byte"

ASSUME ConfregAssumption ==
    /\ Silent \notin Typed \cup Text
    /\ Newline \in Text /\ High \subseteq Text
    /\ BufferLimit \in Nat \ {0} /\ MaxNum \in Nat

device == <<ctx, ctx0, ififo, mem, changes>>
log    == <<current, buffer, screen>>
consolevars == <<device, held, stage, status, log, typed, rxd, got, said>>

Stages == {"access", "stored", "popped", "synced", "panic"}

\* A program in the right order writes n << 24 | n for n = 1, 2, ...
Num == [num : 0 .. MaxNum, ack : 0 .. MaxNum]

ConsoleTypeOK ==
    /\ ctx \in [avail : BOOLEAN, fetched : BOOLEAN, written : BOOLEAN,
                data : Text \cup {Silent}, num : Num, monitor : BOOLEAN]
    /\ ctx0 \in [written : BOOLEAN, data : Text \cup {Silent}, num : Num, monitor : BOOLEAN]
    /\ ififo \in Seq(Typed) /\ typed \in Seq(Typed) /\ got \in Seq(Typed)
    /\ held \in Seq(Typed) /\ Len(held) <= 1
    /\ mem \in [Regs -> Values \cup {Zero}]
    /\ changes \in Seq(Regs \X Values) /\ Len(changes) <= 1
    /\ stage \in Stages /\ status \in BOOLEAN
    /\ current \in 0 .. MaxNum
    /\ buffer \in Seq(Text) /\ screen \in Seq(Text) /\ said \in Seq(Text)
    /\ rxd \in Typed \cup {Silent}

ResetContext == [avail |-> FALSE, fetched |-> FALSE, written |-> FALSE, data |-> Silent,
                 num |-> [num |-> 0, ack |-> 0], monitor |-> TRUE]
Shown(c) == [written |-> c.written, data |-> c.data, num |-> c.num, monitor |-> c.monitor]

\* After Confreg::reset, with a pty that is open.
ConsoleInit ==
    /\ ctx = ResetContext /\ ctx0 = Shown(ResetContext)
    /\ ififo = <<>> /\ held = <<>>
    /\ mem = [r \in Regs |-> Zero] /\ changes = <<>>
    /\ stage = "access" /\ status \in BOOLEAN
    /\ current = 0 /\ buffer = <<>> /\ screen = <<>>
    /\ typed = <<>> /\ rxd = Silent /\ got = <<>> /\ said = <<>>

-----------------------------------------------------------------------------
(* The console thread, started by uart_open_pty.                           *)

Fgetc ==
    /\ held = <<>> /\ Len(typed) < MaxTyped
    /\ \E c \in Typed :
          /\ held' = <<c>>
          /\ typed' = Append(typed, c)
    /\ UNCHANGED <<device, stage, status, log, rxd, got, said>>

\* Under the lock.
PushBack ==
    /\ held # <<>>
    /\ ififo' = ififo \o held
    /\ held' = <<>>
    /\ UNCHANGED <<ctx, ctx0, mem, changes, stage, status, log, typed, rxd, got, said>>

-----------------------------------------------------------------------------
(* The accesses of a cycle.  CBusDevice loads whenever the response is     *)
(* evaluated, so any number of times, and stores when the clock rises.     *)

\* _uart_get_char: the queue is read here without the lock and popped by sync.
\* front() (here) and empty() (sync) are one step each although PushBack may run
\* at the same moment: pop_front and clear, which move the first byte, are calls
\* of this thread; a push_back leaves that byte and the start of the deque alone,
\* and moves its end by one assignment, which empty() sees or does not see.
LoadRxd ==
    /\ stage = "access" /\ ctx.avail
    /\ rxd' = Head(ififo)
    /\ ctx' = [ctx EXCEPT !.fetched = TRUE]
    /\ UNCHANGED <<ctx0, ififo, mem, changes, held, stage, status, log, typed, got, said>>

StoreVirtualUart ==
    /\ stage = "access" /\ Len(said) < MaxSaid
    /\ \E c \in Text :
          /\ ctx' = [ctx EXCEPT !.written = TRUE, !.data = c]
          /\ said' = IF c \in High THEN said ELSE Append(said, c)
    /\ stage' = "stored"
    /\ UNCHANGED <<ctx0, ififo, mem, changes, held, status, log, typed, rxd, got>>

StoreNum ==
    /\ stage = "access"
    /\ \E n \in Num : ctx' = [ctx EXCEPT !.num = n]
    /\ stage' = "stored"
    /\ UNCHANGED <<ctx0, ififo, mem, changes, held, status, log, typed, rxd, got, said>>

StoreNumMonitor ==
    /\ stage = "access"
    /\ \E on \in BOOLEAN : ctx' = [ctx EXCEPT !.monitor = on]
    /\ stage' = "stored"
    /\ UNCHANGED <<ctx0, ififo, mem, changes, held, status, log, typed, rxd, got, said>>

\* A plain register changes at the end of the cycle.
StoreRegister ==
    /\ stage = "access"
    /\ \E r \in Regs, v \in Values : changes' = Append(changes, <<r, v>>)
    /\ stage' = "stored"
    /\ UNCHANGED <<ctx, ctx0, ififo, mem, held, status, log, typed, rxd, got, said>>

-----------------------------------------------------------------------------
(* Confreg::sync.  Between its two halves the console thread may push.     *)

Popped == IF ctx.fetched THEN Tail(ififo) ELSE ififo

\* The assertion and, under the lock, the removal of what RXD has returned.
SyncPop ==
    /\ stage \in {"access", "stored"}
    /\ ctx.fetched => ififo # <<>>
    /\ ififo' = Popped
    /\ got' = IF rxd = Silent THEN got ELSE Append(got, rxd)
    /\ rxd' = Silent
    /\ stage' = "popped"
    /\ UNCHANGED <<ctx, ctx0, mem, changes, held, status, log, typed, said>>

Bug_EarlyContext ==
    [ctx EXCEPT !.avail = (ififo # <<>> \/ ctx.fetched), !.fetched = FALSE, !.written = FALSE]
NextContext == [ctx EXCEPT !.avail = (ififo # <<>>), !.fetched = FALSE, !.written = FALSE]

SyncCommit ==
    /\ stage = "popped"
    /\ ctx0' = Shown(ctx)
    /\ ctx' = NextContext
    /\ mem' = [r \in Regs |->
                  IF \E i \in DOMAIN changes : changes[i][1] = r
                    THEN changes[Len(changes)][2] ELSE mem[r]]
    /\ changes' = <<>>
    /\ stage' = "synced"
    /\ UNCHANGED <<ififo, held, status, log, typed, rxd, got, said>>

-----------------------------------------------------------------------------
(* checkout_confreg.                                                       *)

\* The number the program shows may go up by one, and must be acknowledged.
NumPasses == ctx0.num.num = current + 1 /\ ctx0.num.ack = ctx0.num.num
NumChecks == ctx0.monitor /\ ctx0.num.num # current

Bug_NotifyChar(c) ==
    IF status
      THEN IF c = Newline \/ Len(buffer) + 1 >= BufferLimit
             THEN screen' = screen \o buffer /\ buffer' = <<>>
             ELSE buffer' = Append(buffer, c) /\ UNCHANGED screen
      ELSE screen' = Append(screen, c) /\ UNCHANGED buffer
\* With a status line a character waits for the rest of its line.
NotifyChar(c) ==
    IF status
      THEN IF c = Newline \/ Len(buffer) + 1 >= BufferLimit
             THEN screen' = screen \o Append(buffer, c) /\ buffer' = <<>>
             ELSE buffer' = Append(buffer, c) /\ UNCHANGED screen
      ELSE screen' = Append(screen, c) /\ UNCHANGED buffer

Checkout ==
    /\ stage = "synced"
    /\ NumChecks => NumPasses
    /\ current' = IF NumChecks THEN ctx0.num.num ELSE current
    /\ IF ctx0.written /\ ctx0.data \notin High
         THEN NotifyChar(ctx0.data) ELSE UNCHANGED <<buffer, screen>>
    /\ stage' = "access"
    /\ UNCHANGED <<device, held, status, typed, rxd, got, said>>

\* An assertion of checkout_confreg fails: the simulation ends.
Panic ==
    /\ stage = "synced"
    /\ NumChecks /\ ~NumPasses
    /\ stage' = "panic"
    /\ UNCHANGED <<device, held, status, log, typed, rxd, got, said>>

-----------------------------------------------------------------------------
\* Confreg::reset, between two cycles.  A byte the console thread already has
\* in its hands outlives it.
Reset ==
    /\ stage = "access" /\ rxd = Silent
    /\ ctx' = ResetContext /\ ctx0' = Shown(ResetContext)
    /\ ififo' = <<>>
    /\ mem' = [r \in Regs |-> Zero]
    /\ typed' = held /\ got' = <<>>
    /\ UNCHANGED <<changes, held, stage, status, log, rxd, said>>

Console == Fgetc \/ PushBack
Access  == LoadRxd \/ StoreVirtualUart \/ StoreNum \/ StoreNumMonitor \/ StoreRegister
Cycle   == SyncPop \/ SyncCommit \/ Checkout \/ Panic
ConsoleNext == Console \/ Access \/ Cycle \/ Reset
ConsoleSpec == ConsoleInit /\ [][ConsoleNext]_consolevars
-----------------------------------------------------------------------------
(* Properties.                                                             *)

\* Every byte of the terminal reaches the program once and in order, although
\* the queue is read without its lock, may be read twice in a cycle, and grows
\* while it is popped: what RXD has returned, what is queued and what the
\* console thread holds are together what was typed.  sync never finds the
\* queue empty that it pops (confreg.cpp:103), and RXD has a byte whenever LSR
\* says so.
ConsoleExact ==
    /\ got \o ififo \o held = typed
    /\ ctx.avail \/ ctx.fetched => stage = "popped" \/ ififo # <<>>
    /\ rxd # Silent => ctx.fetched /\ rxd = Head(ififo)

\* Every 7 bit character a program writes is shown once and in order, with the
\* status line (where characters wait in a buffer of bounded size) and without.
OnTheWay ==
    IF \/ stage \in {"stored", "popped"} /\ ctx.written /\ ctx.data \notin High
       \/ stage \in {"synced", "panic"} /\ ctx0.written /\ ctx0.data \notin High
      THEN <<ctx.data>> ELSE <<>>
ScreenExact ==
    /\ screen \o buffer \o OnTheWay = said
    /\ Len(buffer) < BufferLimit
=============================================================================
