# Verification of mc_cpu_lab

mc_cpu_lab is a 64 bit RISC-V core in SystemVerilog (`vsrc/`): a five stage
pipeline, a write-back data cache and an instruction cache, a bus between them and
memory, bit serial multiplication and division, machine and user mode with traps
and interrupts; a C++ simulation of the machine around it (`verilate/`) and an FPGA
board design (`vivado/`). This directory holds TLA+ models of it, the TLC runs that
check them on small instances, and proofs that TLAPS checks for every size.

All paths below are relative to `src/`. One TLA+ step is one rising clock edge
unless a module says otherwise: what the code computes in `always_comb` are
operators, what it assigns in `always_ff` are primed variables.

## 1. Inventory

| Part | State | Operations | What makes it hard |
|---|---|---|---|
| Data cache, `vsrc/cache/DCache.sv` | state machine, `hit`, word counter, `metarecord`/`metawrite`, two RAMs | load, store, uncached access; compare, write back, fetch, finish | registers that outlive the request they were set for; a metadata RAM written from two registers that lag it; a tag comparison without the valid bit |
| Instruction cache, `vsrc/cache/ICache.sv` | the same | load | never invalidated |
| Arbiter, `vsrc/util/CBusArbiter.sv` | `busy`, `index` | grant, release | fixed priority; the response must reach one master only |
| Simulation memory, `verilate/vsrc/cbus_device.cpp`, `verilate/include/axi.h` | transaction, `enable`, memory | start, beat, end | disabled at random; asserts that requests are held |
| AXI bridge, `vsrc/util/CBusToAXI.sv` | `in_issue`, `saved_req`, `count` | take a request, end a channel | five channels that end in any order |
| Pipeline, `vsrc/pipeline/**` | `pc`, `move`, four stage registers, registers | fetch, decode, execute, memory, write back; branch, stall, flush | stalls of four stages that end in any order; forwarding; flushes that wait for a fetch |
| CSR unit, `vsrc/pipeline/regfile/csr.sv` | mode, mstatus bits, mepc, mtvec, mcause | trap, interrupt, MRET, csr access | has to empty the pipeline while the fetch cannot be abandoned |
| Multiplier and dividers, `vsrc/pipeline/execute/{multi,div,divu}.sv`, `alu.sv` | counter, `waiting`, `data_ok`, partial results | step, answer, restart | sequencers that restart by themselves; three different ways to be cleared |
| Decoder and immediates, `vsrc/pipeline/decode/` | none | decode | large tables |
| Byte lanes, `readdata.sv`, `writedata.sv` | none | shift in and out, fault | none but the table |
| Board design, `vivado/src/**` | delay counters, UART | read, write, send | answers one cycle later than they look |
| Cache test bench, `verilate/include/bus.h`, `verilate/vsrc/VCacheTop/` | a queue of tasks, a blocking call | submit, fence, load, store, tick | samples wires the last clock left; a task must take its own answer |
| Reference cache, `verilate/vsrc/VCacheTop/cache_ref.cpp` | `cnt`, valid, dirty, tags, data, its own memory | load, store | replaces other lines than the hardware it is compared with |
| Parallel test runner, `verilate/vsrc/testbench.cpp` | worker processes, two pipes each, the counts | fork, ask, answer, abort, kill, wait | processes that ask, end and crash in any order |
| Consoles and registers, `verilate/vsrc/confreg.cpp`, `model.cpp`, `common.cpp` | input queue, flags of the cycle, line buffer | RXD, virtual UART, number monitor, sync, reset | a thread fills the queue that the simulation reads without its lock |
| Simulated memory, `verilate/vsrc/memory.cpp` | words, the image they were loaded from | map, store, reset | masks narrower than the word |
| Simulation support, `verilate/vsrc/{common,main}.cpp`, `verilate/include/{cell,diff,runner}.h` | options, trace file | start, log, trace | little beside the line buffer above |

How they meet: the core drives `ireq` and `dreq`, one per cache, and each cache
answers with `data_ok`; it must hold a request until then. The two caches are the
two inputs of the arbiter (`vsrc/VTop.sv`: the data cache is input 0 and so
preferred), which puts one of them on the cache bus for the length of a
transaction. Behind the bus stands either `CBusDevice` (simulation) or the AXI
bridge. A bus response is `ready` for each beat and `last` with the final one.

The C++ side calls down and is called back by nothing: the test runner forks
processes that run one test after another; a test of the cache drives the wires of
the cache alone (`vsrc/VCacheTop.sv`) through the test bench, and under `CMP_TO` the
reference cache beside it. The simulation of the core clocks the device, which
loads from and stores to the memory or the registers, then calls `sync`, then
`checkout_confreg`; the console thread runs beside it and shares one queue.

What would make each part correct:

- cache: a memory; no line twice in a set; a clean line equals memory; bursts counted alike on both sides; an answer to every request;
- bus: one transaction at a time, undisturbed, its beats to the master it belongs to; a memory; nobody starved for good;
- pipeline: the sequential machine; requests held for the caches; no trap lost; no deadlock;
- multiplier and dividers: the RISC-V results, whatever was asked before;
- test bench and reference cache: a test fails only if the cache is wrong, and ends;
- test runner: every test once, a verdict that is true, no process left behind;
- consoles: every character once and in order, either way;
- simulated memory: the image that was asked for.

`PROJECT.json` lists the hazards, each at its line, with the property that covers it, or
why none does.

## 2. Modules

```
Words            byte lanes, strobes, bus responses
 +- DCache          one cache
 |   +- CacheSystem     cache + master + memory that may pause     refines AtomicMemory
 |   |   +- CacheInv        its inductive invariant
 |   |       +- CacheProofs     proofs
 |   +- MemSystem       both caches + CBusArbiter + CBusDevice     refines CacheSystem
 |       +- MemProofs       proofs, on those of CacheSystem
 +- CBusArbiter, CBusDevice
 +- BusMaster       the wires of a bus master
     +- BusMemory       what a slave of the bus promises
     +- CBusSystem      masters + CBusArbiter + CBusDevice         refines BusMemory
     |   +- BusProofs       proofs
     +- AxiSystem       master + AxiBridge + AXI memory            refines BusMemory
         +- AxiProofs       proofs
Instr            instructions and csr state, shared by both of
 +- Isa             the sequential machine
 +- Core            the pipeline
     +- CoreProps       its properties                             refines Isa
         +- CoreProofs      proofs
MulDiv           multiplier, dividers and the alu around them
 +- MulDivProofs     proofs

LoadOp           byte lanes of the test bench
CacheRef         the reference cache
CacheBench       DCache + CBusDevice + CacheRef, driven by a test
 +- CacheBenchProofs proofs of both, on those of CacheSystem
Dispatch         the parallel test runner
Confreg          the two consoles and the registers of the simulated SoC
 +- SimulatorProofs  proofs of both, which share no state
BlockMemory      the simulated memory and its loader
```

`MC*` modules give the requests, programs and memories of the runs. In every
module a definition named `Bug_...` is the definition after it with a plausible
mistake; no specification uses one. They document that the properties notice.

**DCache.** State and names are those of the code: `state`, `hit`, `index` (the word
counter of the burst, four bits in the code), `metarecord`, `metawrite`, `metaram`, `dataram`. There
is one operator per state of the machine (`CompareHit`, `CompareMiss`,
`WriteBack`, `Fetch`, `Final`, `Ready`, `WriteReady`) and `ClockEdge` puts them
together with the edge of the two RAMs (`RamEdge`), whose strobes are the code's
expressions. An address is a record of its tag, set and word; being
uncached is a property of the tag, because bit 31 belongs to it. The tag the reset
writes into the empty lines is a constant that no request carries
(`TagAssumption`), which is what saves the tag comparison that ignores the valid
bit. The assumption excludes a real hazard: the comparison runs for uncached requests
too, so an access to the first 1 KiB would match an empty line and leave `hit.match`
set, and a cached store after it would write into the data RAM in its compare cycle.
No property and no theorem covers that; nothing is mapped there. Uncached requests go to the bus directly and leave the state machine running
on whatever it compares, as in the code; `hit.match` may start stale because the
reset leaves it alone.

**CacheSystem** adds a memory that pauses before any beat, and a master that holds a
request until it is answered and lets one cycle pass after an uncached answer. The
second is a condition of the cache on its master; `DataRests` in CoreProps shows
that the pipeline meets it. **AtomicMemory** is the promise: a store takes effect
once between request and answer, a load returns what is there.

**CBusArbiter**, **CBusDevice**, **AxiBridge** are the components alone. **BusMaster**
describes what the wires of a master do; **BusMemory** is the promise a slave of the
bus keeps. `verilate/include/memory.h:87` says "class CBusDevice should match the
behavior of module CBusToAXI": both are shown to implement BusMemory, `CBusSystem`
the first and `AxiSystem` the second. The AXI memory of AxiSystem is external and
as free as the protocol allows: addresses and data are accepted in any order and
written data arrive only with the response on channel B.

**MemSystem** composes both caches, the arbiter and the device as VTop does, with
the core reduced to its ports. It is shown that the data cache's part of it is a
behaviour of CacheSystem (`DataCacheUndisturbed`), so what is proved of
CacheSystem holds in it. `PortAssumption` says what the core puts on its ports:
requests of the kinds of section 1, the fetches being loads of cached words, since
pc starts at 0x80000000 and `ibus` has no strobe.

**Core** has one action per clock. Every stage is an operator of `in`, what the
caches and the multiplier answer in the cycle; stalls (`StopM`, `StopE`, `StopD`,
`Stop`, `StopF`), flushes (`FlushDE`, `FlushAll`), forwarding (`Select`) and
`PcNext` are the code's. Instructions are one for each class the control tells
apart; words are small numbers and an instruction address advances by two, so that
an odd one is misaligned. Csr operations are csrrw of a register and csrsi/csrci of
mstatus.mie. `ipend` and `dpend` record that a cache is at work. **Isa** is the
machine that runs one instruction at a time and **CoreProps** maps the pipeline to it.
Three behaviours are in Isa because the code has them, not the manual: an
interrupt is taken behind an executed instruction and mepc names that one; a
faulting instruction has written its destination; a misaligned fetch may pass
without a trap (finding 1). `MARK` is the undecodable word 0x5006b that ends a
test: `memory.sv:93-96` clears its error and destination, so it runs as a NOP,
and clears the fetch error of a misaligned fetch that finds it. Two more are shared by both through `Instr`: MRET goes
to user mode always, since csr.sv reads mpp after clearing it, and an interrupt has
no effect on the instruction itself.

**MulDiv** has the three units with their counters, run over the bits of small words,
and the part of `alu.sv` that starts and awaits them. The pipeline around them is
what CoreProps proves of it: an operation stays in dataD until it is answered and
can be flushed only in its first cycle (`DivisionAlone`). The 32 bit forms run the
same units on sign or zero extended operands (`immediate.sv:28-45`) and are not
modelled apart.

**CacheBench** is the cache under its own tests: `Cycle` is `MyCache::_tick`, in which
the device answers, the cache settles and both see the edge, and a test acts
between two such clocks. It sees the new registers of the cache and the old response
of the device, so the response is a variable (`cresp`). A test either submits tasks to
a pipeline (`Submit`, `Fence`, `Tick`: DBusPipelineGen) or makes blocking calls that
are compared with the reference cache (`Call`, `Await`: DBusGen under `CMP_TO`). What
the test believes memory to hold is `prog`. The memory starts at address 0 and the
bench sets bit 31 of every address it asks for, so here the tags are numbers and
`CachedBit` is added and taken away where the code does. **LoadOp** is one
formula where `bus.h` has tables of sixteen entries. **CacheRef** is the reference
cache as a record, because `store` calls `load` and goes on with what it leaves; its
initial `cnt` is arbitrary, since no code sets it. It looks for an empty way at way 0
twice (`cache_ref.cpp:69`) and therefore evicts other lines than the hardware.

**Dispatch** has one action for each system call a worker or the master makes that the
other can see: characters and indices in the pipes, the end of file, `select`, the
loop over what it reported, `waitpid` and the kill. A later worker inherits the
master's ends of the earlier workers' pipes, which delays their end of file
(`EndOfFile`). A test may end or abort at any time.

**Confreg** has the two threads: `Fgetc` and `PushBack` are the console thread, the rest
is the simulation, with `phase` as its place in the cycle. `sync` is two actions,
because the console thread may push between them. The load of RXD reads the front
of the queue without the lock, and `sync` asks without it whether the queue is empty;
each is one step, because only this thread takes bytes away and a push moves the end of
the deque by one assignment. What a program may do in a cycle is what the bus
lets it: any number of loads, one store.

**BlockMemory** has the mask of the loader in the width the code computes it in. The
shift by 32 and more is undefined in C++; `shift` chooses between the two results the
instructions of the hosts give, once for the build.

## 3. Runs

| Run | Instance | What it checks |
|---|---|---|
| `cache` | 2 sets, 3 cached tags and 1 uncached, lines of 2 words, two byte lanes, stores under partial strobes | `ReadsLastWrite` (refines AtomicMemory), `NoDuplicateLine`, `CleanLineIsCopy`, `BurstInStep`, `CBusHeld`, the inductive invariant `IInv` |
| `bus` | 2 masters as in VTop, lines of 3 words, single beats and bursts from two starts | `DeviceChecks`, `BeatsToOwner`, `ServedUnderGrant`, `DeviceIsBusMemory` (refines BusMemory), `ServedIfOthersRest` |
| `axi` | lines of 3 words, single beats and bursts from every start, any order of the channels | `BeatsInStep`, `SavedIsLive`, `BridgeIsBusMemory` (refines BusMemory), `EveryRequestServed` |
| `mem` | both caches: 1 code line, 3 data lines and an uncached word, one set | `DeviceChecks`, `DataCacheUndisturbed` (refines CacheSystem), `FetchedFrom`, `FetchAnswered`, `DataAnswered` |
| `core` | 144 programs of three of add, multiply, load, store, branch, jump; 12 that fault, trap, write csrs or run into `MARK`; an interrupt line that may rise in any cycle | `InOrder` (refines Isa), `Inv`, `Spaced`, `DataHeld`, `DataRests`, `FetchHeld`, `FlushCarriedOut`, `DivisionAlone`, `Retires` |
| `core_misaligned` | a jump to the middle of a load | violates `FetchFaultReported`: finding 1 |
| `mul` | 5 bit words, all operands, sequences of operations with pauses and flushes | `AnswersRight`, `EveryOperationEnds` |
| `mul_signed` | 4 bit words | violates `SignedDivisionRight`: finding 2 |
| `cache_test` | 1 set, 3 lines over 2 ways, words of 2 lanes, 6 operations in any order, a queue of at most `MaxOngoing` = 2 tasks | `DeliveredInOrder`, `ReferenceAgrees`, `RefHoldsProgram`, `WaitsEnd` |
| `dispatch` | 3 workers, 4 tests, a crash in any of them | `OnceEach`, `VerdictRight`, `RunnerEnds` |
| `consoles` | 2 bytes to type, 3 characters to write (a newline and an 8 bit one among them), a line buffer of 3; `MaxTyped` = `MaxSaid` = 3, `MaxNum` = 1 | `ConsoleExact`, `ScreenExact` |
| `loader` | images of 0 to 11 bytes in words of 8 | violates `ReadsImage`: finding 3 |

Why the bounds are enough. Cache: three tags over two ways force every kind of
eviction, with the other way clean, dirty or empty; two words make a burst with a
first, a last and a wrap of the counter. Only one word of one line takes two
values, so a value that is lost, duplicated or written elsewhere shows; the
cache never looks at data. The second set is asked for a single word, which is
enough for every register to be left over from the other set. Bus: three words
give a first, a middle and a last beat. Pipeline: three instructions span the four
stage registers given that two instructions are never neighbours (`Spaced`), the
handler adds two more and the branches repeat them; two registers beside x0 make
every pattern of dependence. Every answer of a cache may come in any cycle, so the
instance covers every alignment of stalls. `Size` = 12 addresses hold the six
instructions. MulDiv: five bits give each loop a first, a middle and a last round,
both signs, and dividends several times the divisor; the operations follow each
other in any order because the registers one leaves are the state the next starts
from. CBusToAXI's counter is eight bits wide and a burst sixteen words long, so it
does not wrap: AxiProofs has it for every burst of at most 256 words.

Test bench: two tasks in the queue are one under way and one that waits, which is
all `tick` tells apart; three lines over two ways make cache and reference cache
evict different ones, dirty and clean. Test runner: three workers let two be readable
in one `select` while the third crashes; four tests make one worker run a second one;
fewer tests than workers are the last requests of such a run. Consoles: a line of two
characters before a newline fits the buffer of three and one of three overflows it;
three typed bytes put one in the queue, one in the thread and one in the program.
Here the proofs of section 5 remove the bounds. Two numbers beyond zero would add
nothing: a step of the monitor compares neighbours.

Deadlock is checked wherever a clock ticks. `dispatch` turns the check off because
the runner ends, `consoles` because the number monitor may panic and the bounds stop
the rest.

## 4. Fairness

A clock edge comes (weak fairness of the step). The rest is the environment's:

- `bus`, `mem`, `cache_test`: the device is not disabled for ever; `CBusDevice` draws
  `p_disable` anew in each cycle and it is below one (`WF_vars(Next /\ enable')`);
- `axi`: each channel the memory can serve is served;
- `core`: each cache and the multiplier answer a standing request; `FetchAnswered`,
  `DataAnswered` and `EveryOperationEnds` are those facts, shown of the models of those
  parts;
- `cache_test`: a test inside `fence` or a blocking call does nothing but tick; nothing
  obliges it to begin another;
- `dispatch`: processes are scheduled, and a test ends or aborts; `WaitsEnd` shows that the
  waits inside a test end, also in `fence`, which has no limit by default;
- `mul`: nothing beside the clock;
- `consoles`: none. The thread may wait for a key for ever.

The arbiter is not fair. `ServedIfOthersRest` says what that leaves to the second
master, and `FetchAnswered` that the data port's silent cycle after each answer
(`DataRests`) is enough for the fetch.

## 5. Proofs

**CacheProofs**: `Spec => []TypeOK`, `[]IInv`, and from it `[]NoDuplicateLine`,
`[]CleanLineIsCopy`, `[]BurstInStep`, `CBusHeld` and the refinement
`ReadsLastWrite`, for any number of sets, tags, words, lanes and any requests.
Assumed: a line has more than one word (`LineAssumption`), cached, uncached and
reset tags are apart (`TagAssumption`, see section 2 for what it excludes), the environment asks with requests and
starts with words (`EnvironmentAssumption`, `ByteAssumption`).

None of the invariants is inductive alone. `NoDuplicateLine` needs to know that a
miss was a miss when the refill ends many cycles later, and that the metadata
registers written back then are those of this set: `RecordOK`, `Missed`, `FetchOK`,
`FinalOK`, `ReadyOK` say for each state of the machine what the registers hold,
relative to `metaram` and to the request. `CleanLineIsCopy` needs `CopiedUpTo`,
the part of a line already transferred. `SetsOK` excludes only the set whose
metadata are being rebuilt, in the first cycle of FETCH where the RAM holds what the
register had before. `StaleHitHarmless` covers the match bit that the reset does not
clear. `BeatOK` ties the memory's counter to the cache's and has to be part
of the type invariant, since an uncached access would otherwise start in the middle
of a count. The proof has one lemma per state of the machine.

`CacheInvisible` proves the refinement of AtomicMemory. The memory the master sees
is `Value`: the word in the way that holds the address, or else memory's. Every
clock has one of four effects on it (`EdgeEffect`): nothing (`Quiet`), the store on
the wires takes effect but is not answered yet (`Applies`), a load is answered with
the value (`Loads`), a store is answered that has taken effect, now or before
(`Stores`). The lemmas by state show which. The hard ones are the
write-back, whose victim disappears with its last beat and is in memory by then,
and a miss, which may drop a line only because it is a copy. `WriteReadyOK` (only
a store is answered in WRITEREADY) had to join the invariant. The lemmas assume no
more than an edge of cache and memory (`Edge`), nothing of what the master
does with the answer, so that MemProofs and CacheBenchProofs can use them.

**MemProofs**: the two caches, the arbiter and the device together.
`CachesPassChecks` is `[]DeviceChecks`; `DataCacheIsAlone` the refinement
`DataCacheUndisturbed`, and with CacheInvisible loads of the data port return the last
store (`DataPortReadsLastWrite`). The invariant `MemInv` combines CacheProofs' invariant of the
data cache, for which the instruction cache's bursts are pauses of the memory; what a
transaction tells about the grant (`Owner`, `GrantHeld`, as in BusProofs, where that
a cache holds its request is now CacheProofs' `HeldEdge`); and that the instruction cache
never holds a dirty line and so never writes (`CodeClean`), which has to survive the
first cycle of FETCH, when the stale `metawrite` goes into its metadata RAM.

Fetches need more, for the instruction cache sees a memory that changes under it.
`FetchesReadMemory` proves `FetchedFrom` under the hypothesis `CodeUntouched`, that the
data port never stores to a line that is fetched: only lines that were stored to are
written back (`DirtyInv`), so those the instruction cache holds stay copies of memory
(`CodeCopies`). The hypothesis is the code's condition on its programs, since nothing
invalidates the instruction cache; the run `mem` meets it.

**CoreProofs**: `Spec => []TypeOK`, `[]Inv`, `[]Spaced`, the action properties
`DataHeld`, `DataRests`, `FetchHeld`, `FlushCarriedOut`, `DivisionAlone`, and the
refinement `InOrder`, for any programs, memory size and number of registers. Assumed:
an even number of addresses above two (`SizeAssumption`), some register
(`RegAssumption`), programs, memories and csr states of their kinds
(`ProgramAssumption`, `StateAssumption`).

`Spaced`, that neighbouring stages never both hold instructions, is what the core's
correctness hangs on: branches and stored data are read without a load-use wait, and
a fault would be overwritten by a load behind it. It is not inductive. `Inv` says
why it holds: pc has just moved when an instruction enters dataF (`InFetch`), so the
fetch of the next starts when this one leaves; it cannot be answered before this one
has left dataD unless the multiplier holds it there (`InDecode`); and once pc is
misaligned only failed fetches follow, behind which nothing real comes
(`OffTheWords`, `AfterFailure`).

`PipelineImplementsIsa` proves that the pipeline is the sequential machine. The
instructions in flight and their operands are tied to that machine by `OrderInv`
(theorem `InstructionOrder`): each stage holds the instruction of the address it
carries (`Labels`), the addresses follow each other, pc at the end of them, as `PcNext` of
the older one says (`Chain`), and operands read in decode are those the registers
will show when the older instruction has written (`Operands`). None of this is asked of
instructions that a waiting flush has already doomed (`Flushing`). The machine
steps when an instruction leaves dataE: it executes, enters a trap or an interrupt,
or faults. A flush that waits for its fetch is a stutter, and the clock that
carries it out takes the step. A failed fetch takes its step when it is trapped, or, when it is
dropped (finding 1) or has become a `MARK`, without a trap; Isa allows both, and an
interrupt in place of the trap.

**AxiProofs**: `Spec => []TypeOK`, `[]BeatsInStep`, `[]SavedIsLive`, and the refinement
`BridgeIsBusMemory`, for lines of any length up to what the counter holds
(`LengthAssumption`), any words and any requests of a master (`BusAssumption`).
`BeatsInStep` speaks of a read whose address was accepted and of the write data; it is
inductive only together with what every channel that has ended, or has not, says
about the memory: `ReadPhase` (no data before the address, and the memory announces
the length that was saved) and `WritePhase` (the response comes after address and
data, whichever of the two was first; a silent memory has buffered nothing). For
the refinement, `BridgeImplementsBusMemory`, the invariant also says that the
addresses the memory holds are those saved of the request. The proof has
one lemma for the idle bridge, one for a read and one for a write.

**BusProofs**: `Spec => []TypeOK`, `[]DeviceChecks`, `[]BeatsToOwner`,
`[]ServedUnderGrant`, and the refinement `DeviceIsBusMemory`, for any number of masters,
lines and words of a line (`InputAssumption` and the assumptions of BusMaster). The
invariant says what a transaction in progress tells about the grant: it is the granted
master's (`Owner`), whose request is still on the wires (`GrantHeld`), and both count
the same beats (`BeatsToOwner`). That the arbiter picks a lowest input at all is an
induction over the natural numbers, taken from the well-foundedness of `<`. In the
refinement, `DeviceImplementsBusMemory`, the master of BusMemory is whoever has the
grant: a request that begins is the one its master raised earlier (`AsRaised`).

**CacheBenchProofs**: the reference cache holds what a flat memory would, after any
calls (`ReferenceRight`). `RefSound` (no line in both ways, clean lines are copies) is
inductive as it stands; the lemmas say what `WrittenBack` and `Replaced` leave of the
value of an address. `ReferenceHoldsProgram` carries it to the bench:
`Spec => []RefHoldsProgram` for every cache, every set of operations and every delay.
A call changes what the test believes when it is made and the reference cache when it
returns, so the invariant (`Pending`) says that the two differ by the one store under
way; that the lanes of this store are the test's bytes is `StoreLanes`. Assumed: the
operations are aligned, as the tests' are, and bit 31 is a number (`BenchAssumption`).

`TestsDeliveredInOrder` is `DeliveredInOrder`. A clock of the bench is shown to be an
edge of CacheProofs beside a memory that has bit 31 in its addresses (`CycleIsEdge`):
the burst in the device is the one the cache asks for (`Served`), with as many beats
done. A task that arrives between two clocks finds the wires free and the cache idle, or waits
in the queue. What the tasks still in the queue will find is `Story`: a memory before
each of them and one behind the last, each made from the one before by its task,
where the first is what the cache shows (or the second, when the store on the wires has
taken effect) and the last what the test believes. A submitted task makes the
story longer, an answer takes its first memory away, and that memory is the one the task was
made for. `ComparisonNeverFails` is `ReferenceAgrees`: the word the cache
answers and the one the reference cache returns are both what the test believes.

**MulDivProofs**: `Spec => []TypeOK` and `[]AnswersRight` for registers of any width
above one and any operands. `IInv` says of a unit under way which part of an operand
the edges so far have taken in, and that what it holds is the product or the quotient
of that part: `MultiHolds` (the sum of the partial products modulo 2^Width),
`DivuHolds` (quotient and remainder of the leading bits of the dividend) and
`DivHolds` for the signed divider. That one is wrong for some operands (finding 2), and
`AnswersRight` says for which: its answer is right if and only if `WrongSign` does
not hold of the request. So `DivHolds` has to follow the division also where it fails
(`SignedDivided`). There are three cases: quotient and remainder truncated towards zero
(`Truncating`); a leading part that was a multiple of the divisor and was followed by a 1,
after which every further bit of the quotient counts in the wrong direction
(`Doubled`, entered by `TruncatingLoses` and never left, `DoubledMoves`); and division
of a negative number by 1 or -1, where the second step starts from the sign again
(`ByOne`). `LostNext` ties the case to the bits of the dividend. One lemma per unit
says that a step keeps this (`MultiMoves`, `DivuMoves`, `DivMoves`), and the other half of
the invariant that a new operation meets units at rest, although div.sv alone keeps
`data_ok` when its request goes away. That rests on what the pipeline does around the
units, `DivisionAlone` of CoreProofs. The powers of two are a recursive function
(`Power2`), since the provers know nothing of exponents; what is needed of them
follows from the well-foundedness of `<` (`Power`).

**SimulatorProofs**, for any number of workers and tests: `Spec => []TypeOK`,
`OnceEach`, `[]VerdictRight`. `passed` counts requests, not tests; that it counts tests that
ended rests on `Counting`, every test handed out is counted or owed by one worker, and
`Ownership`, every test handed out has ended or is held by such a worker. `Place` says
for each state of a worker what is in its pipes and in the master's books.

And for any number of bytes and any size of the buffer (`ConfregAssumption`):
`ConsoleSpec => []ConsoleTypeOK`, `[]ConsoleExact`, `[]ScreenExact`. For the input, only
`sync` takes bytes from the queue and only at its front, so what RXD returned stays there
until then (`Reading`). For the screen, at most one character is on its way from the store
to `checkout_confreg` (`Writing`).

Every safety property a passing run checks is stated by a theorem (`FetchedFrom` under its
hypothesis). All liveness is left to TLC, for liveness and ENABLED are out of the
prover's reach.

## 6. Findings

1. **A misaligned fetch can pass without a trap** (`core_misaligned`,
   `memory.sv:125`, `execute.sv:74`). The instruction that carries the fault has the
   opcode of whatever word was on the wires. As a load or store it makes no request,
   is given no answer, and is dropped with its fault; as a multiplication it is
   dropped in the execute stage. The test `<instr_misalign>` of test-lab4 expects
   the trap and takes it because its stale word is neither.
2. **Signed division of negative numbers** (`mul_signed`, `div.sv:46,57`). Once the
   partial remainder is zero its sign is lost: -7 / 2 gives -4 and remainder 1.
   `WrongSign` is the exact set of operands: for a divisor other than 1 and -1 the
   quotient is wrong if the divisor divides a leading part of the negative dividend
   and the bits that follow are not all zero, the remainder if in addition the
   divisor does not divide the whole; -100 / 7 is wrong, since -100 is -7 * 16 + 12.
   By 1 and -1 every dividend below -2^62 has a wrong quotient, and -2^63 a wrong
   remainder. `AnswersRight` shows the signed divider right everywhere else, and MUL, DIVU and REMU everywhere.
3. **A memory image is mangled by its loader** (`loader`, `memory.cpp:102`). The mask
   `~(0xffu << shamt)` is built in 32 bits: every byte written clears the upper half of
   its word, and from the fifth byte of a word on the shift is undefined. A program
   does not find in memory what its file holds. The cache tests load no image.

Met while modelling, not runs: csr instructions are reported committed once per
cycle while their flush waits (`core.sv:90`); an interrupt line that falls in that
wait leaves the pipeline squashed without a trap (the model holds it); MULH, MULHSU
and MULHU decode as shifts and comparisons (`decoder.sv:90`); `UART_LSR` and
`NUM_MONITOR` lie in the upper half of an eight byte word, but the model of the device
answers with the low byte (`confreg.h:23`).

## 7. Not modelled, and the plan

Done, in this order: the cache and its proof; the bus and the two-cache system; the
pipeline, its refinement and its proof; the multiplier and dividers; the AXI bridge and
its proof; the test bench and the reference cache, the test runner and the consoles
with their proofs; the proofs of the bus; the proofs of the five refinements (cache,
data cache beside the instruction cache, device, bridge, pipeline), of the fetches and of
what the cache tests are told.

Not modelled:

- **Board design** (`vivado/`): UART, block RAM wrapper, crossbar. It is another top
  over the same core and needs the core's clock and the board's together.
- **Bus converters** (`DBusToCBus`, `IBusToCBus`, `CBusMultiplexer`) rename the fields of
  one request or response; **SimpleArbiter** and the other **RAM wrappers** are
  instantiated by nothing.
- **Byte lanes of the core** (`readdata.sv`, `writedata.sv`): the strobe and the
  misalignment fault are modelled, the shuffle and the sign extension are not. **Decoder**:
  the class of each instruction is, the encodings are not.
- **Commit port** (`core.sv:81-146`), which only the difference test reads.
- **Test bench**: requests withdrawn before their answer (the "ad hoc" test), unaligned
  accesses and the statistics. All tests' addresses carry bit 31, so the reset tag is
  none of theirs.
- **Reference cache**: `check_internal` and `check_memory` have empty bodies.
- **Consoles**: UART output, the timer, closing the terminal and what the detached thread does
  after it, zero bytes in a line, the two registers in the upper half of a word.
- **Simulated memory**: the router and `dump`.
- **Simulation support**: options, tracing, logging, cells. The access size is left out
  of the caches: they pass it on, and store by strobe.
- The earlier core in `brand/` (a copy, built by nothing), reports, test programs,
  memory images, the vendor's RAM primitives, and vendored code. Of the C++
  lines about seven in ten are two vendored headers, `CLI11.hpp` and `nameof.hpp`, which
  hold none of the system's own logic.

Next:

1. byte lanes: `writedata` and `readdata` against a memory of bytes;
2. the commit port, and the board design: block RAM wrapper with its delay counters and late `ready`, the crossbar, the UART transmitter.
