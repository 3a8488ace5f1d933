# VCFI4PLC in TLA+

VCFI4PLC adds variable-grained control flow integrity to OpenPLC: the return
addresses of chosen functions of the PLC runtime are kept on shadow stacks in
the secure monitor, and a search picks as many functions as the scan cycle's
deadline allows. This directory holds TLA+ modules of the parts of that system
that keep state, TLC configurations that check them on small instances, and
TLAPS proofs about them. Paths are relative to the repository.

## 1. Inventory

| Component | Source | State | Operations |
|---|---|---|---|
| Secure monitor service | `atf/services/std_svc/std_svc_setup.c` 249-427 | `whole_shadow_stack[100]`: thread id, flag, 50 words, stack pointer per slot | SMC 1 init, 2 save, 3 restore, 4 free, 5 reset, 0 test |
| Linux driver | `linux/drivers/teeplc/teeplc.c` | registration of the device; a buffer per call | `teeplc_init`, `teeplc_exit`, `teeplc_ioctl` |
| User library | `openplc/webserver/core/shadowstack.c` | `fake_pthread_list[100]`, four mutexes, a page per thread, two counters | `my_pthread_create/detach/join/exit`, `init_whole_shadow_stack`, save, restore, `page_*` |
| PLC runtime | `openplc/webserver/core/main.cpp` | `timeList`, deadline `timer_start`, `cycles`, log buffer, `bufferLock`, `logLock` | start-up, scan cycle, `log`, shutdown |
| Counting pass | `.../instrumentation/stat_func.cc` | a static countdown over the functions of all files | counts calls, writes the JSON list, `_gran.txt`, `_funcs.txt` |
| Instrumenting pass | `.../instrumentation/stat_prior.cc` | the list read from `_funcs.txt` | prologue and epilogue sequences |
| Structured Text parser | `.../core/ParseST.py` | tables of programs and variables | `record_module`, `parse_LOGIC`, priorities |
| Priority analysis | `.../core/priority_analysis.py` | instruction names and counts | counting over the assembly, merge with JSON |
| Granularity search | `.../core/pWCET.py` | the history of choices and overruns, the JSON and text files | next list of functions, verdict |
| Build script | `.../scripts/compile_program.sh` | the sources it edits in place, exit codes | compile, loop over the search |
| Standard services of ATF | `std_svc_setup.c` 1-248 | - | upstream code, not modelled |

**Interaction.** An instrumented function calls `shadow_stack_save` in its
prologue and `shadow_stack_restore` in its epilogue. Each is an `ioctl` on
`/dev/TEEPLC_DEVICE`; the driver adds the caller's kernel thread id and issues
an SMC; the monitor works on the slot of that id. Threads get a slot in
`thread_init`, which `my_pthread_create` puts in front of their start routine,
and give it back when another thread detaches or joins them: the library
translates the `pthread_t` to a kernel thread id through `fake_pthread_list`.
The runtime shares its buffers with the interactive server's thread under
`bufferLock`. Off line, the build script compiles the program once to count and
measure it and then loops: the search reads the measured cycle times and writes
the next list of functions, the passes instrument that list, the runtime
measures again.

**Hard behaviours.** The monitor's table has no lock while SMCs run on several
cores; library calls split a lookup, a lock wait and a system call, so ids are
used long after they were read; slots are recycled by a flag *and* an empty
stack; `pthread_t` values are recycled by the C library; the table outlives the
process; table, list and stacks are bounded and errors travel in-band; copies
between user and kernel fail half way; the mutex of the buffers is initialised
after the thread that shares it; a cycle may be longer than its tick; the passes
and the search depend on files left by earlier runs. `PROJECT.json` lists the
hazards at their lines with the properties that cover them.

**What makes each component correct.** Service: a stack belongs to one thread,
is last-in first-out, and is recycled only when idle. Library: an instrumented
function returns to its caller; a release reaches the thread that is left; slots
of dead threads come back; no path keeps a mutex. Driver: every call frees what
it allocates, and the words of concurrent callers do not mix. Runtime: cycles
start on multiples of the tick, overruns are recorded and the outputs end off.
Passes: the files are of this compilation, and prologue and epilogue preserve
x0, x29, x30 and the frame. Search: it ends, and the last
list it writes meets the deadline whenever it says so.

## 2. Modules

| Module | Models |
|---|---|
| `ShadowTable` | the monitor's table and the functions over it, as operators |
| `TeeService` | the SMC handler, one atomic action per case |
| `ThreadStacks` | what the service promises: private LIFO stacks (abstract) |
| `TeeplcDriver` | `teeplc_ioctl` in steps over `TeeService`, the module's and the device's life |
| `ShadowStackLib` | threads of the runtime in the user library, over the same table taken apart into steps |
| `MCShadowStackLib` | the symmetry of the set of threads |
| `PlcRuntime` | `main`: start, scan cycle, record and shutdown, beside the server's thread |
| `GranularitySearch` | the choice of the next list in `pWCET.py` under the loop of `compile_program.sh` |
| `CompilerPlugins` | the two passes around the files they exchange with the search |
| `InstrumentedCode` | the instructions `stat_prior.cc` inserts for the list of `CompilerPlugins`, on a small machine |
| `MCInstrumentedCode` | the calls of a small program |
| `ShadowTableProofs` | lemmas about the operators of `ShadowTable` |
| `TeeServiceProofs` | theorems about `TeeService`; its refinement of `ThreadStacks` |
| `TeeplcDriverProofs` | theorems about `TeeplcDriver`: its node and buffers, the words it carries |
| `ShadowStackLibProofs` | theorems about `ShadowStackLib` under any client, and about main |
| `OrderlyLibProofs` | theorems about `ShadowStackLib` under orderly clients, over the former |
| `PlcRuntimeProofs` | theorems about `PlcRuntime` |
| `InstrumentedCodeProofs` | theorems about `InstrumentedCode` and the `CompilerPlugins` it extends |
| `GranularitySearchProofs` | theorems about `GranularitySearch` |

`ShadowTable` represents a slot's array and stack pointer as one sequence: the
words at and above `shadow_stack_sp` are never read before they are written.
`init_thread_local_ss` clears the array but not the stack pointer, hence
`ZeroWords` keeps the length. Error codes are the integers -1 and -2, in-band
where `restore_lr_thread_local_ss` returns them; addresses are positive.

`TeeService`: `SmcInit`, `SmcAddLr`, `SmcRestoreLr`, `SmcFree`, `SmcFreeWhole`
and `SmcOther` are the cases 1 to 5, and 0 with `default`. `reply` is what the
handler puts in x0 and x1. `SmcFree` also takes the ids 0 and -1, which the
library passes for a thread whose list entry is half written or missing. The
constant `Reinit` says whether an id that is in the table may be initialised
again (the kernel reuses ids after a wrap).

`ThreadStacks` has no table: `stk` maps registered threads to their stacks;
`Register` may take the place of a released thread whose stack is empty. The
refinement mapping is `StkOf`, `ReleasedOf` and `AnswerOf` in `TeeService`.

`TeeplcDriver` gives each thread a place in `teeplc_ioctl`: `Enter` (vmalloc and
memset), `CopyIn`, `Smc`, `CopyOut` and `Return` (vfree). Other threads run in
between; a copy fails whenever it likes and, as in the code, stops nothing. `Smc`
is a step of `TeeService` in the thread's own registers (`Tee(t)`). `EnterUnknown`
is the `default` of the switch, which returns before `vfree`. `teeplc_init` and
`teeplc_exit` keep the numbers of the device, its node and what
`alloc_chrdev_region` has given away; a failed `cdev_add` keeps its number, and
`device_destroy(…, 1)` leaves the node behind. `.owner` forbids removal while the
device is open. `taken` are the numbers other drivers hold, `lost` those of loads
that failed, and the kernel hands out the highest that is free; `held` remembers
which numbers were ever another driver's. `view` and `due` are what the callers
have to get back, from their own arguments and nothing else. A `vmalloc` that
fails is not modelled (the code does not look at it), and neither are the three
values of the test command.

`ShadowStackLib` gives each thread a program counter:

| Code | Steps |
|---|---|
| `init_whole_shadow_stack` | `InitWhole`, then registration of main |
| `init_shadow_stack` + `init_thread_local_ss` | `InitLock`, one `InitScan` per slot, `InitClaim` (id), `InitClear` (flag, words), or `InitFull` |
| `add_fake_pthread` | `ListLock` (value), `ListFill` (id, flag, page), or `ListFull` |
| `my_pthread_create` | `my_pthread_create`; the new thread starts at registration |
| `get_fake_pthread`, without a mutex | `LookupScan` per entry (load of `pthread_t_value`), `LookupRead` (load of `tid`), or `LookupFails` |
| `my_pthread_detach`, `my_pthread_join` | `Leave` (call), the lookup, `LeaveFree` (ioctl 4, own page), `RealDetach` or `RealJoin`, `LeaveUnlist` |
| `shadow_stack_save` | `Call` (function entry, search of the slot), `shadow_stack_save` (store) |
| `shadow_stack_restore` | `Return` (search), `shadow_stack_restore` (load, decrement, jump) |
| thread end, `my_pthread_exit` | `Exit` |
| exit or kill and restart of the process | `Restart`; the table is kept |

`frames` is the truth the code does not have: the addresses a thread's calls
should return to. A thread whose restored word differs goes to `lost`. Searches by
a thread's own id are one step, because ids change only under `ss_mutex`; the scan
for a free slot is a step per slot, because stack pointers change without it.
`crossed` is history: the ids of threads that took a list entry over after a
lookup had found it and before it loaded the id. Save and restore are one step
after their search: `NoDataRace` shows that no other thread is about to write the
same slot, so that finer steps would show nothing else. The client is a constant:
`Instrumented`, `Creators`, and `Orderly` (threads are left only after they have
ended). `main.cpp` joins a thread it has detached before; `MayLeave` allows that.

`PlcRuntime` is `main` between its calls to the system: `CreateServer` and
`InitBufferLock` in the order of the code (the thread first, the mutex second),
`InitHardware`, the cycle `BeginCycle`, `ReadInputs`, `LockBuffers`, `RunLogic` or
`EthercatFails`, `EndCycle`, `Wake`, and the end `Summary`, `LeaveServer`,
`DisableOutputs`, `LastOutputs`. A timespec is a record of two numbers, and
`Diff` and `Later` are `timespec_diff` and the sum in `sleep_until`, which borrow
and carry one second at most. `build` says which condition
`compile_program.sh` left in the `while`: the count of cycles when it measures,
`run_openplc` otherwise. The hardware layer is not in the repository; `main` calls
`updateBuffersIn` and `updateBuffersOut` outside its own critical section, since
most of OpenPLC's layers take `bufferLock` in them. `layerLocks` says whether this
one does, and then all its updates wait for the lock (`LayerPasses`). `image` and
`hw` are the sets of output classes with an output that is on: `disableOutputs`
clears three of the five. `server` is the interactive server's thread with its
clients, modelled from how `main` uses it. `epoch`, `truth` and `races` are
history; `races` remembers the two places where a client gets past `bufferLock`.

`GranularitySearch` names a function by its place in `function_sorted`, so a
sorted list is an increasing sequence. `cur` is the last line of `X_funcs.txt`,
`histIn` the lists that stand before a line tagged `in`, `built` what the objects
have. `Start` is everything up to the first measurement with full
instrumentation, and may interrupt and repeat the script, with other costs, while
the history stays. Each answer of `pWCET.py` is an action: `AnswerFits`; `InFull`,
`InKnown`, `InMore` (time left); `OutHalf`, `OutNext`, `OutLast` (too late);
`Exception` (no output, which ends the loop too). A measurement is the cost of the
functions that are built plus noise, and an overrun delays the next cycle by as
much. Line 493 (`sum(num) == 0`) has no action: every count is at least 1, so the
sum is 0 only for an empty list, and reading its line has raised before.

`CompilerPlugins` has a file of the PLC program, some of whose functions share a
name; who calls whom, and how often, is the constant `Calls`. `ReadNames` is the
first pass of `stat_func.cc`, which meets every function; between it and
`CountCalls` the compiler drops some it has inlined. `hasExecuted` counts names
down while functions are visited, stays at 1, and the files are written anew at
each visit from there on. `WriteList` stands for whatever `GranularitySearch`
decides; `CompileWithList` is `plugin_init` of `stat_prior.cc` with `getLastLine`,
which searches back in the text. A text is a sequence of symbols, and a name is
one symbol. Files can be opened, `X_new.json` exists exactly when `X.json` does,
and that it does not is the one way a compilation fails.

`InstrumentedCode` extends `CompilerPlugins`: the code that runs is that of the
list the last compilation read, or none. It runs the inserted instructions one by
one on registers and stack words; what the compiler emits and what the library
does to a register follow the calling convention, at its worst. The shadow stack
is the one `TeeService` promises. `page_shadow_stack_save` stores to the thread's
page, which nothing reads back; the line that does so (`shadowstack.c:325`)
dereferences a `void *` and does not compile as it stands.

Definitions under a comment that starts with *Mutant* are slips the definition
below them could have; every property is shown to notice one of them.

## 3. Runs

| Run | Question | Bounds | States |
|---|---|---|---|
| `tee_any` | well-formed, isolated slots under any order of SMCs | 3 slots of 3 words, 4 ids, ids reusable | 237 881 |
| `tee_refines` | does the service implement `ThreadStacks`? | 2 slots of 3 words, 3 ids, 2 addresses | 15 638 |
| `driver` | do concurrent callers get their own words and buffers, and does the node find the driver? | 2 threads, 2 slots of 3 words, 2 device numbers, 1 unknown command | 2 018 985 |
| `lib_shipped` | main instrumented, everybody careless | 3 threads, 3 starts per run of the process, 2 slots, 2 list entries | 1 331 830 |
| `lib_orderly` | all instrumented, threads left after they end | 3 threads, 4 starts, 3 slots | 619 109 |
| `lib_progress` | does every registration and leave end? | 3 threads, 3 starts, 1 slot, 2 entries | 295 624 |
| `scan_cycle` | are schedule, record, lock and shutdown right, and does main end? | a second of 3 units, a tick of 4, 2 measured cycles, clock to 9 | 986 222 |
| `search_any` | are the lists well formed and does the loop end? | 5 functions, 2 runs of the script | 119 298 |
| `search_never_in` | does index 0 mean "never 'in'"? (violation) | 4 functions, no noise | - |
| `instr_code` | is the list written last built, is its code transparent, and does it protect? | 4 functions (a filtered one, a leaf, an overloaded name), 1 further list, 3 nested calls, 2 addresses | 1 053 222 |
| `instr_page` | the same for functions that were not chosen (violation) | as above | - |
| `lib_worker_left` | an instrumented worker left while it runs (violation) | 3 threads, a slot for each | - |

The bounds let every case happen: tables smaller than the number of threads that
want them (full, evicted and recycled slots), stacks that reach the unused last
word, and any number of process restarts, since a restart needs no counter: kernel
thread ids start over, and only the table, which `InitWhole` clears, could tell. A
`pthread_t` value is used again when a thread starts with that of one that is
gone: in `lib_shipped` with the third value left unused, in `lib_orderly` also
after all have been used. The window of `get_fake_pthread` is within these bounds:
without its premise `KeptUntilLeft` fails after 35 steps.

`driver`: two threads are enough for every order of one's copies and SMC with
another's, since a step names one thread; two slots let both register, and a
second device number lets a module be loaded again under another one than its
node's, after another driver held one or a load failed. The driver's buffers, node
and table need no more than one unknown command to tell a kept buffer from a
returned one (`MaxLeaked`). Once another driver has held a number the device is not
opened any more (`MaxHeld = 0`): what follows for the module and its node is
explored all the same, and what follows for a process with the device open does
not depend on other drivers.

`scan_cycle`: a tick longer than a second makes both the carry and the borrow
happen, the clock starts anywhere in a second, and a clock of nine units leaves
room for two cycles, one of which overruns by more than a tick and by more than a
second. In the build that runs until it is told to stop there are as many cycles
as the clock allows. `NSEC_PER_USEC = 2` makes the recorded times rounded.

`lib_worker_left` is a finding: `my_pthread_detach` and `my_pthread_join` release
the slot of a running thread, which a new thread may claim as soon as the stack
is empty. The counterexample detaches a worker between two calls; the worker
then saves into a slot that has been chosen but not yet renamed, and its
restore finds no slot and returns -1 as the return address. `lib_shipped` and
`lib_orderly` are the two conditions under which the code is right.

`search_any` measures with enough noise for every verdict after every list. Five
functions let lists be halved twice, skipped, extended with two functions kept,
and ended by the history; two runs of the script are needed for the last, which
`KnownOnlyFromBefore` says. `EndsUnlessAlternating` is as much as can be said of
the end: a search can go back and forth between a list with time left and its
extension for ever. `search_never_in` shows the step that makes this possible:
after an extension the walk may find no kept functions, against the comment in
`pWCET.py:578`, and the branch starts to halve again.

In `instr_code` a chosen function, one that is not and a leaf are called by each
that can call; a signal handler may run between any two instructions, and a body
may lose any return address on the stack. The overloaded name makes the countdown
of the counting pass end early, the functions the compiler may drop make it end
late or never: `CountsOfAll` says which programs are sure to get a file of counts,
and that such a file has every call, over the 1 each name starts with. The calls
of `MCInstrumentedCode` have a name called twice by one function, by several
functions, and by a function of the same name. The machine has the argument and result x0,
the link register, the frame pointer, the stack pointer and the words of the
stack: its properties are about these and no other register. One further list is
enough for a last line that is not the first one. `instr_page` is a finding: the
restore of the page mechanism returns a variable that was never set, and its
caller makes it the return address.

**Disagreements without a run.** In five more places the code does other than a
comment beside it says or a reader expects; the properties say what holds, and
`PROJECT.json` lists each place as a hazard.

- `main.cpp:187` "Disable all outputs": `disableOutputs` leaves `dint_output` and
  `lint_output` as they are. `OutputsOff` is about the three classes it clears.
- `main.cpp:440` and `483` have cycle time and latency stored in microseconds: of a
  time of a second or more only the part beyond the seconds is (`tv_nsec / 1000`).
  `RecordTrue` claims the microseconds for shorter times.
- `main.cpp:422` leaves the loop with `bufferLock` held. If the hardware layer takes
  that lock too, the last update waits for main itself, and neither are the outputs
  written nor does the runtime end. `Ends` names that state (`SelfLocked`); without
  the name TLC finds the wait.
- `stat_func.cc:45` has the number of calls of each function saved: with fewer
  functions compiled than there are names nothing of this compilation is, and the
  counts that are saved start at 1 (line 153). `CountsOfAll` says so.
- `shadowstack.c:80` compares an entry's `pthread_t` and then loads its id, without
  the mutex under which entries are written. A registering thread that takes the
  entry over in between is released although nobody has left it. `KeptUntilLeft`
  names this window, and that there is no other.

**Fairness.** In `GranularitySearch` the script goes on until it ends:
`WF_vars(Step)`. In `ShadowStackLib`, `WF_vars(Finish(t))`: a thread inside the
library is scheduled again and again. Nothing is assumed of the client, of the end
of threads or of restarts, and nothing strong of the mutexes: every critical
section of one step leaves the mutex free, and registrations, which hold
`ss_mutex` over several steps, are bounded by `MaxTid` between two restarts. The
liveness claims are therefore for finitely many competing registrations. In
`PlcRuntime`, main is scheduled (`WF_vars(Main)`), time passes, and a client's
critical section ends; clients may come back for ever, so that main's waits for
`bufferLock`, its own and those in the hardware layer, need `SF_vars(TakesLock)`:
main runs under `SCHED_FIFO` at priority 99 (`main.cpp:353`) and is the first to
be woken when the mutex is released. Its priority is set just before the loop,
which is why `Ends` counts from there on; where the call fails, which is only
warned of, main has no such claim and neither has `Ends`.

## 4. Proofs

All theorems hold for every value of the constants that the modules' named
assumptions allow. The assumptions are as weak as the code justifies: sizes are
positive (`SizesAssumption`), 0 is no thread id and no address (`TidAssumption`,
`AddrAssumption`), the threads that use the driver are finitely many and so are
the device numbers, which are positive (`DriverAssumption`), main is a thread
(`ThreadAssumption`), the bounds of the library's model are numbers
(`BoundAssumption`), a second and a tick have a length (`RuntimeAssumption`), a
program has finitely many functions, none of them named by a blank or a newline
(`PluginAssumption`), there is a function to choose and times are numbers
(`SearchAssumption`). Every safety property that a run checks has a theorem.
Theorems with further hypotheses name them: `Reinit = FALSE`, `Instrumented
\subseteq {Main}`, and `OrderlyUse`.

`ShadowTableProofs` says once what the linear searches return
(`FirstInProperties`, from the well-foundedness of the naturals) and what a push
and a pop do to a sequence.

**The service.** The inductive invariant `Inv` says of each slot alone that it is
good. `NoClearedWord` is not inductive without `UnclaimedIsEmpty`: a fresh slot
keeps the stack pointer it has, so it has to be known to be 0. From `Inv` follow
`TypeCorrect`, `UnclaimedStaysEmpty`, `OnlyAddressesStacked` and the action
property `ThreadsIsolated`.

**The refinement** (`Refinement`: `TeeService` implements `PrivateStacks`). Every
SMC is shown to be one step of `ThreadStacks`, or none, under the mapping `StkOf`,
`ReleasedOf`, `AnswerOf` from `Inv /\ UniqueTid`: with `Reinit = FALSE`, the client's
promise not to initialise an id twice, an id is in one slot only. This is what makes
`StkOf` a function of the table: a step on one slot changes the stack of one
thread. A table that is full is one whose threads are as many as there are slots
and none of them can be evicted; that `FreeSlot` agrees with this is the pair of
counting lemmas `RoomFor` and `AllOwned`, which map slots to owners one to one.

**The driver.** `NodeFound` rests on the kernel's choice of the highest free
number: `NodeInv` says that every number above the node's was once another
driver's or was lost, so that a later load gets the node's own number unless that
one is gone or a higher one has come back (`HighestNumber`, `DynamicHighest`,
`LoadStep`). `BuffersComeBack` counts: entering and leaving move one thread in or
out of a finite set (`CallShape`, `BuffersInv`), hence `IsFiniteSet(Tid)`. The
three theorems about words rest on `WordsInv`: the table is that of the service
(`TableInv`), in which an id is found once, so that a step of one thread's SMC
leaves the others' stacks; and each thread's call carries what its caller gave it
(`GoodCall`: the word in the buffer is the argument if it arrived and 0 if not,
the answer in the registers is the word that `due` names until it is copied). From
it follow `OwnWordsHeld`, `OwnWordDelivered` and the action property
`ReleasesAsked`.

**The library.** `TypeCorrect` and `FlagsKept` hold for any client, careless ones
included, and any sizes. `FlagsKept` is inductive only within `LibInv = TypeInv /\
MutexInv /\ IdsInv /\ LookInv /\ SlotsInv`: registrations exclude each other
(`MutexInv`); live threads have ids of their own, no entry of the list holds an id
that was not given out yet, and the id a detach or join has loaded, stale or not,
is not that of a thread nobody has left and that crossed no lookup (`IdsInv`); the
same will be so of the entry a lookup has found and not yet read, its new owner
having filled it or not (`LookInv`); an id is in one slot only, and a slot that is
being renamed has nobody's claim to it (`SlotsInv`). `MainReturns` is the theorem
the shipped program rests on: when only main's functions are instrumented
(`Instrumented \subseteq {Main}`) and its nesting stays below the size of a slot,
every return of main goes to its caller, whatever other threads create, detach,
join and leave. Its invariant `MainInv` says that main always has slot 0, whose
stack is main's frames but for the address a call has not saved yet (`Saved`);
that nobody else is inside save or restore; and that no other thread ever names
main (`OthersInv`): none is there when main registers, so that no lookup can have
found the entry main takes.

**The runtime.** `ScheduleInv` ties the deadline to the number of the cycle at each
place of the loop; it needs that the times are normalised and that `Later` adds
exactly the tick (`TimesNormalised`, `ScheduleKept`). `LatenessInv` carries the
end of one cycle through the sleep to the delay of the next (`LatenessKept`).
`RecordInv` and `TrueInv` say that record and truth have the same domain and agree
up to whole seconds (`Cut`), which by `TimesInv` a time shorter than a second does
not have (`RecordKept`). `LockInv` ties the holder of `bufferLock` to the places
of both threads (`BuffersExclusive`), `OffInv` the two images to the places of the
shutdown (`OutputsLeftOff`).

**Orderly programs** (`OrderlyLibProofs`). `OrderlyUse` is what `lib_orderly`
instantiates, for any numbers: main alone creates threads and leaves each after it
has ended (`Orderly`, `Creators \subseteq {Main}`), the table and the list have a
place for every `pthread_t` value (both have 100), and no thread nests its calls up
to the last word of a slot. Main may be joined or detached by itself, as `main.cpp`
does, and the process may be restarted at any step. The invariant `OrderlyInv` adds
four parts to `LibInv`. `LeaverInv`: a thread that is not left is joinable, and
main, while it leaves one, has read the id of a thread that has ended with no call
in progress. `ListInv`: the entry of a thread that can be left is the first with
its `pthread_t` and holds its id; an entry whose thread is gone is the one main is
about to release. `FoundInv`: a lookup has passed no entry of the thread it is
about, and no thread takes the entry it has found. `StackInv`: a flagged slot is a
thread's and never that of the thread being reaped, a slot with a thread's id holds
that thread's calls but for one not saved yet (`SavedOf`), and a scan has passed only
flagged slots. While
`StackInv` holds, a scan cannot run past the table: it would map every slot to a
thread that is not the scanning one, one to one (`SlotsHaveRoom`, and `ListHasRoom`
for the list). From `OrderlyInv` follow `SlotsMatchCalls`, `EveryCallReturns`,
`NoSlotLost`, `LookupNeverStale` and `WritersApart`. That `Orderly` is needed
`lib_worker_left` shows.

**The passes.** `CountInv` relates the countdown to the set of functions visited
so far: what is left of it is the number of names less what was visited, but at
least 1, and `myfuncList` counts the calls in them (`DisjointSizes`: those of one
more function are others). `EveryCallCounted` is the case in which all have been
visited. `ListInv` says what text of `_funcs.txt` is there at each stage;
`LastListBuilt` needs where `getLastLine` stops in any text that ends with a line
(`Ends`, `IsLine`), whatever lines stand before it.

**The inserted code.** `MachineInv` describes the machine at each of the 12 places
of a prologue and an epilogue. Per call in progress (`FrameInv`, `SavedInv`): where
its frame is, that the saved frame pointer of the caller is still in it, and that a
leaf has no frame and calls nothing. Within a prologue or an epilogue
(`PrologueInv`, `EpilogueInv`): what is in the registers and what has been pushed
after each instruction, as one predicate for the way down (`Pushed`) and one for
the way back (`Restored`, `Fetched`). The instructions themselves are dealt with
once, as functions of registers and words alone (`PushStep`, `RestoreStep`,
`FetchStep`, `LibraryCall`), so that the steps of the machine are left with which
function is at which place. A signal handler and a tampering body can write any
word below the stack pointer or any saved return address: the invariant claims no
more of those than the code needs. `PrologueIsTransparent`, `ChosenReturn` and
`SavesMatchRestores` follow; the functions that were not chosen are absent from
`ChosenReturnsToCaller` because nothing holds of them (`instr_page`).

**The search.** `SearchInv` says that a list the search goes on from is *split*:
the functions an earlier extension kept come first, all before the others, and the
rest is a run of neighbours (`Split`). One kept function is impossible, and the
last kept one is not the neighbour of the run's first; this is what makes index 0
of `getFuncListIndex` unambiguous. `WalkStops` then says that the walk, its
negative indices included, stops at the kept functions, and `SortedSplit` that
sorting moves these among themselves only. The lemmas about `Sorted` are about the
rank of a function in a list (`SortedShape`). From it follow `WalkIsRight`,
`NoneLost`, `LateMakesRoom` and `HistoryIsOld`. Two theorems are the safety half
of `EndsUnlessAlternating`: every answer of `out` that goes on lowers a natural
number (`LateStepsDescend`), and an extended list has the last function or is
empty, so that a second answer of `in` ends the search (`SlackReachesLast`).

**Only model-checked.** Liveness (`Registers`, `LeaveReturns`, `Ends`,
`EndsUnlessAlternating`), which the prover cannot do. The theorems have the
bounds of the models: `MaxTid` starts, `MaxDepth` calls, `MaxBuilds` runs of the
script are any numbers, but finite.

## 5. Plan

Done: the service, its abstract specification and the refinement; the library; the
driver; the runtime; the search; the passes and their code; and a proof of every
safety property that the runs check. What is left, in the order of its worth:

1. Compositions by proof: that the driver's SMCs, and the library's steps in orderly
   programs, implement the service and with it `ThreadStacks`, so that the
   promise is one from the inserted code to the table.
2. Orderly programs with creators other than main, and those in which a worker is
   left only while it runs no instrumented function.
3. The log buffer of `main.cpp` under `logLock`, whose index starts over after 1000
   messages, whatever their length.

## 6. Not modelled

- `ParseST.py` and `priority_analysis.py`: text processing without state between
  calls. What they compute is the priority of each function, by which `pWCET.py`
  sorts. `GranularitySearch` names functions by their place in that order, whatever
  it is, so its properties hold for any priorities; a model of the two would restate
  their regular expressions.
- `std_svc_setup.c` 1-248: upstream Arm Trusted Firmware.
- `stat_prior.cc` 131-175 and 600-616, the selection by granularity, and the search
  by numbers and the estimators in `pWCET.py`: code nothing calls, or numerics whose
  result the model takes as any value.
- In the library, the two counters of calls and their files; `ss_num`, which is read
  but decides nothing. In the driver, a failed `vmalloc` and the test command's
  values. In the runtime, `log`, the special functions of `glueVars`, and the maxima
  and averages that are only printed.
- `EINTR` of `clock_nanosleep` in `sleep_until`, after which a cycle would begin
  early: no signal handler is installed under `src/`.
- In the build script, failures of the compiler and the branches for platforms.
- Kconfig and Makefiles, log files and plots, and OpenPLC's own server code, which is
  the client of `ShadowStackLib` and of `PlcRuntime`.
