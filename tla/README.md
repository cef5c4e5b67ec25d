# Record-replay twins of WebAssembly components: specifications

This directory specifies the core of CRIMP ("record-replay twin support"): a
component is recorded once in an instrumented engine, decomposed into core
modules, and merged with a *replay driver* and generated *glue* into a plain
core module that replays the recording in any engine. The specifications are
translated from the source; `PROJECT.json` maps definitions to source lines.

## The system

| Part | Source | State it keeps | Operations |
| --- | --- | --- | --- |
| Replay driver | `crimp-drivers/mono/src/lib.rs`, `replayer.rs` | trace reader, `STATE`, `ARGS_RESULTS_BACKING`, `INITIALIZED`, one `realloc_return_stack` per loop, `post_return_args` | `init_replayer`, `run_replay`, `replay_host_call`, `replay_builtin_call`, `replay_instruction`, `allocate_args_results_buffer`, a handler per event |
| Glue module | `component-tools/.../glue.rs` (generator) | dispatch tables | import stubs, `dispatch_core_func`, `dispatch_realloc`, `dispatch_memory_write`, `dispatch_post_return` |
| Guest | the component's own modules | its memory | called by the dispatch functions; calls the stubs |
| Recorder | external (patched wasmtime, `wasm_crimp` events) | the trace | writes events for each step at the boundary of guest and host |
| Decomposer | `component-tools/src/bin/decompose` | link metadata | resolves imports, numbers imports and exports, validates, instruments start and grow, merges |
| Component IR | `component-tools/src/ir*`, `parse.rs` | index spaces, parents | parsing, resolution of indices through aliases |
| R3 baseline | `baselines/r3` | shadow memory | doubles stores, compares loads, records differences |
| Trace reader FFI | `crimp-drivers/tracereader-ffi` | reader, events owned by C | open, next event, release |
| Snapshot benchmark | `snapshot` | dirty-page bitmaps | random walk, page-map scan |

How they interact. Replay is single-threaded but mutually recursive:
`run_replay` reads events and calls the guest through the glue; the guest calls
import stubs, which call `replay_host_call` or `replay_builtin_call`; those read
further events, and may call the guest's `cabi_realloc`, and so on. All of them
share one trace cursor, one `STATE` and one argument buffer. The stub of
`resource.drop` goes on after the driver has returned, with a destructor of the
guest (which may call imports) or a replayed host call.

What is hard. `STATE` is set on entry and never restored; which loop reads an
event depends on the whole nesting; validation events are optional; a
post-return comes an arbitrary time after its call; the buffer changes its
capacity with every return; a recording may be torn, or of another component; a
guest may not behave as it did when recorded; start functions run before
`run_replay`.

What makes each part correct.

- Driver and glue: the guest is given exactly what it was given when recorded,
  in the same order and nesting; no handler panics on a legal trace; a torn or
  foreign trace is never reported as replayed; a deviating guest is stopped
  before it goes further; replay ends.
- Argument buffer: what the glue stores lies within the capacity.
- Decomposer: each import resolves to the definition the component's
  instantiation arguments give it, ids are distinct, modules are linked once.
- R3: applying the recorded differences to the shadow gives every load its value.
- FFI: each buffer is released exactly once, and a consumer that reads on comes
  to the end of the trace.
- Benchmark: the trackers agree on the pages written, in every run.

## Modules

| Module | Models |
| --- | --- |
| `Execution` | The boundary of guest and host as an abstract machine: a stack of activations, the export being lowered, the calls that owe a post-return. It says what the recorder may record and what a replay must look like. |
| `ReplayDriver` | Recorder, driver, glue and guest together. |
| `ArgsBuffer` | Length and capacity of `ARGS_RESULTS_BACKING`. |
| `StartAnalysis` | The worklist walk of `validate_start_functions`. |
| `Linking` | From the definitions of a component to the links of the decomposed modules and the numbers of exports. |
| `R3Shadow` | A module instrumented by the R3 baseline: memory, shadow and the scan that records differences. |
| `TraceEvents` | Events given to a consumer in another language: who owns which allocation. |
| `DirtyPages` | The three dirty-page trackers of the snapshot benchmark, side by side. |
| `MCReplayDriver`, `MCArgsBuffer`, `MCStartAnalysis`, `MCLinking`, `MCR3Shadow`, `MCTraceEvents`, `MCDirtyPages` | The checked instances. |
| `ReplayDriverProofs`, `CouplingProofs`, `TraceEventsProofs`, `ArgsBufferProofs`, `StartAnalysisProofs`, `LinkingProofs`, `R3ShadowProofs`, `DirtyPagesProofs` | Theorems. |

### Execution and ReplayDriver

`Execution` is used twice. `ReplayDriver` EXTENDS it: its variables are the
state of the *recorded* run, and each recorder action `Rec...` is an action of
`Execution` plus the events written for it. And `ReplayDriver` INSTANCEs it
with the state of the *replay* in the place of its variables (`Replayed`), which
states the refinement `ReplayIsExecution`.

| Model | Code |
| --- | --- |
| `stack` | the WebAssembly call stack above `run_replay`; a `host` or `hdtor` activation is a running `replay_host_call`, a `builtin` one a running `replay_builtin_call`, the rest are guest functions |
| `dstate` | `STATE` |
| `backing` | `ARGS_RESULTS_BACKING` as a list of values |
| `reallocs` | `realloc_return_stack` of each live loop |
| `postArgs` | `post_return_args`, written when the guest's export returns |
| `trace` | what the reader has yet to read; `read_error` stands for every failed read |
| `script` | the guest's side of the recorded run: what it was given and what it did, not yet replayed |
| driver actions | one for each handler, enabled when the innermost activation is a loop of the driver and the next event is the handler's; `OrPanic` holds the conditions under which the handler does not panic |
| guest actions | a deterministic guest follows `script`; `Deliver` compares what it is given with what it was given |

A handler and the code it calls up to the next point where control is in the
guest is one action: nothing else runs in between. Values are atomic: the
properties only ask whether they are the recorded ones. Addresses and sizes of
a realloc or a memory write are one value. A dispatch that enters the guest
pushes an activation, and the code after the call (in
`component_wasm_func_entry`, `realloc_entry` and the glue's stubs) is the
action of that activation's return.

The trace is produced lazily, when the replay has used up what was written. The
recorder does not see the replay, so the traces are the same; it only spares
the model a trace of unbounded length.

### ArgsBuffer

A list is its number of bytes and of values. `expand` is the code's closure;
`Reserve` is `Vec::reserve` of an empty byte vector. `Move` is
`to_backing_args`, which takes over the capacity of the event's vectors: exact
for builtins (4 or 5 bytes), at least the length for a decoded event.

### StartAnalysis

`body` is the code of each function as the set of its calls, `Home` its module;
a call of a function of another module is a renamed import, a call of `Host`
a true import or builtin. `visited` and `worklist` are the code's; one round of
its loop is `Visit`. The code's queue is a set here, so the theorem holds for
any order. Accesses of imported globals, memories and tables are left out,
since linking has only renames for those. Calls are plain or tail calls; a call
of `Table` is a `call_indirect` or `return_call_indirect`.

The reference `Harmless` is the rule that the code states for itself, within the
module and whatever instruction makes a call. The code does not keep it: tail
calls have no case in `check_op`, which takes them for safe, so that they are
neither refused nor followed. `VerdictRight` names that gap (`TailCalls`): what
is rejected breaks the rule, and what is accepted keeps it unless a function
that plain calls reach makes a tail call. `NothingReplayed` is the documented
promise without exceptions, which `start_host` shows violated. `ReplayDriver`
relies on the promise: its start activations call nothing.

### Linking

A component is parsed definition by definition, any that is valid; then come
the steps of the tool. `coreInsts`, `coreFuncs`, `compFuncs` are its index
spaces, `mm`, `links` and `exportFuncs` its metadata. A `Result::Err` or a panic
of the tool is the phase `panicked`. Operators with the code's names
(`resolve_core_func`, `follow_alias`, `resolve_core_func_link`,
`get_export_name`, `handle_func`) follow it; recursive methods are recursive
functions of an index space.

`resolve_core_func` returns the module a function comes from and not the
instance, so the tool assumes one (`assumed_instance_id`), taken from a hash map;
`assumed` is any choice of it. Against this stands what the component model
says: `Denoted` follows aliases and instantiation arguments to the function of
an instance; `Merged` is what a name stands for once the decomposed modules are
merged by their links. `LinksRight` and `ExportsRight` say that they agree when
modules are instantiated once, `SupportedAccepted` that the tool's panics hit
only components it does not claim to support.

Items are functions; memories and tables resolve alike, but only to modules.
One realloc stands for the canonical options. Nested components hand on
functions, so an exported instance is the list of its functions.

### R3Shadow

`real` and `shadow` are memories 0 and 1. Each guest access is the instruction
with what `instrument_shadow` puts around it; the scan is a step for each way
through a round of the two loops of `__r3_scan_diff`, whose locals are `scan`.
In core mode the same loops are the host's `record_memory_diff`, which writes
the shadow once a run is complete and reads the data from memory; in component
mode each byte is synced and packed into `lo` and `hi`, and the host unpacks
them. `mode` is chosen at the start, so a run checks both.

The trace is not kept. `rebuilt` is what it is good for: the memory of a module
that is run without its host, with the recorded writes performed where they
were recorded. `LogExact` compares it with the shadow, `LoadsExplained` and
`LoadsRecorded` with what the guest loaded.

### TraceEvents

The heap is a function of addresses; `Block` remembers the length and the
capacity of the allocation. `replayer` is `CrimpReplayer` with its box and the
reader's scratch space. `Open`, `NextEvent`, `FreeEvent` and `FreeReplayer` are
the exported functions; tags with the same fields are one tag. The decoder and
the allocator are external, and the consumer keeps the documented rules: it gives
each event back once, when it likes, also after the replayer.

Two things leak, and `OnlyMessagesLost` names them: `crimp_event_free` does not
release the message of an `Error`, and a `Vec` of length 0 with capacity is given
away as an empty buffer.

### DirtyPages

The strategies are measured in processes of their own, which draw the same
accesses from the same seed; the scripts compare their scans run by run. So
the model lets one sequence of accesses act on three trackers: `uffd` and
`soft` are page tables with what PAGEMAP_SCAN tells of an entry, `bitmap` the
marks of the generated code. `AfterPage` is a round of the loop of `from_bitmap`,
`FromBitmap` the loop. `Subrange` is `get_random_subrange` with Rust's
remainder, which keeps the sign. An access that leaves the buffer ends the
model (`stray`), because what it does is not the program's to say; a failed
assertion on the reset state is `failed`. The kernel is external.

Clearing soft-dirty bits is not taken for reliable: for newly mapped pages "it
sometimes clears and sometimes it doesn't..." (`main.rs:204`), and
`validate_run` asks only for a superset of them. So `ClearSoftDirty` may leave any
bits, a newly mapped page may be soft-dirty (`Load`), and `touch_pages` may or may
not read the pages first. That `SoftHits` is still what was written in the run
follows from the other conditions of the scan: a page that was only read is the
zero page, which the mask filters, and if the bit of a written page stays after
the scan, the assertion that nothing is left ends the process. So the superset is
an equality in every run that is reported, and `TrackedExactly` says what
a failed assertion means.

`ValidRun` compares the regions and pages. `validate_run` also compares
`walk_start` and `walk_end`, which are the ends of the buffer in both scans: the
buffer has whole pages.

## Runs

| Run | Checks | Bounds |
| --- | --- | --- |
| `replay` | type invariant, `NoSpuriousPanic`, `Faithful`, `CompletesOnlyWhole`, `DriverContext`, `ReallocsMatched`, `DeviationStops`, `ReplayIsExecution`, `ReplayEnds` | 2 exports (one with post-return), one import of each of the 5 kinds, ids of both numbered from 0 so that a mix-up is legal, 3 values with the empty list, depth 3, 2 reallocs in a lowering without validation |
| `args_buffer` | `FitsUntilReturn`, `OverrunBounded`, types | up to 17 parameters and 1 result of 4 or 8 bytes, 0 or 3 spare bytes of a decoded vector |
| `args_buffer_fits` | `BufferFits` is violated | the same |
| `start_analysis` | `VerdictRight`, `Terminates`, types | all call graphs of 2 functions of a module and 1 of another, 2 plain or tail calls in each, of functions, the host or a table, any set of start functions |
| `start_host` | `NothingReplayed` is violated | the same, 1 call in each |
| `linking` | `LinksRight`, `ExportsRight`, `SupportedAccepted`, types | a library of 2 functions and a program that exports one of its imports again; all components of up to 6 definitions |
| `link_once` | `OnceChecked` is violated | the same, 4 definitions |
| `r3_shadow` | `LogExact`, `LoadsExplained`, `ScanEnds`, types | 4 bytes of 2 values, growing from 3; `lo` and `hi` of 2 bytes; accesses of 1, 3 and 4 bytes, floats of 2 with both zeros and a NaN; offsets 0 and 1; a data segment of one byte; both modes |
| `r3_offset` | `LoadsRecorded` is violated | the same, without the data segment |
| `trace_events` | `HeldIntact`, `OnlyMessagesLost`, `ReadsEnd`, types | 2 events held at a time, traces of up to 2, lengths and spare capacities 0 and 1, 7 addresses |
| `dirty_pages` | `ScansAgree`, `TrackedExactly`, types | 3 pages of 8 bytes, steps -15, -3, 0, 6, 11, accesses of 1 and 8 bytes, 2 reads and writes in a run, any number of runs |
| `walk` | `WalkInBuffer` is violated | the same |

`MaxDepth` bounds live activations and `MaxReallocs` the reallocs a loop keeps
unmatched; nothing bounds the number of events or calls. Depth 3 has an import
called from a destructor of a drop called from an export, and reallocs over
each; a fourth level repeats the same pairs of neighbours, which is all that
the driver's state sees of the stack (that is the content of the theorem
`DriverContextAlways`, which holds for any depth).

Fairness: `WF_vars(Replay)`. The replay is one thread in one process; only the
end of the trace can stop it, and reading it does not block. The recorder needs
no fairness: `ReplayEnds` asks for nothing before the recording has ended.
Deadlock is checked; `Ended` stands for the program that has ended.

`args_buffer_fits` shows a bug: `allocate_args_results_buffer` clears the vector and
then reserves `new_size - capacity` counted from length 0, so that a list of up
to twice the capacity is given no room. The initial buffer has room for every
list, but each return of an import leaves a buffer of the returned list's
capacity. `BufferFits` is the comment's claim and is violated;
`FitsUntilReturn` and `OverrunBounded` say what does hold, the bug being there.

`start_host` shows where the documentation promises more than the code does:
"The start function (and anything it calls transitively) must not touch
true-imported state". There are two gaps. A start function that makes a
`return_call` of a true import, or of a function that calls one, is accepted: that
is the counterexample of the run. And calls are followed within the module only: a
start function that calls, through a rename, a function of another module that
calls a true import is accepted too, which the same configuration finds with
`Calls = {"call"}`. Either way a replay stub runs before `run_replay` in the merged
module. `start_analysis` shows that the walk has no third gap within a module. Its
fairness, `WF_vars(Step)`, is that of a loop of one thread.

Six definitions are enough for a function of the library to pass through a
synthetic instance into the program and out again as an option or an export
(instances of both, the synthetic one, and the aliases between); longer chains
repeat the same resolution steps. `link_once`: "Each module should be
instantiated exactly once for now" is checked by comparing sets of module ids, in
which a second instance leaves no trace, and 4 definitions suffice to link one
twice. `linking` has no deadlock check: it stops when a component is linked.

R3 misses some of what the host writes, and `LoadsExplained` names each case, byte
by byte, as an exception. `Unseen`: the scan is told the address operand without
the instruction's constant offset, so it looks elsewhere. `Unshadowed`: the
shadow begins with zeros although active segments have been put into the
memory, so a zero written over such a byte compares equal (all other first
loads of it are recorded, needlessly). And floats are compared with `ne`, for
which zeros of either sign are equal. `LogExact` needs only the second. The
configuration has offsets and a data segment, so that all three occur.
`LoadsRecorded` is what R3 is meant to record, excepting only the sign of a
zero; `r3_offset` shows it violated by the offset alone, and with `SomeData` and
`Offsets = {0}` TLC finds it violated by the data segment alone. With 4 bytes and
halves of 2 there are
runs within a half and across both, two runs in a window, and runs that end with
the window. `WF_vars(ScanStep)`: the scan is a loop that waits for nothing.

`trace_events` holds two events because sharing needs two; 7 addresses are their
four buffers, the replayer's two and one more. When the allocator has no address
left, `NextEvent` is not enabled: the bound ends those behaviours, so deadlock is
not checked (the consumer may also just stop). `ReadsEnd` assumes that the consumer
goes on reading and freeing, as the loop of `tracereader` does until it sees `Eof`.

In `dirty_pages` the walk starts at 12 of 24; its steps stay in the page, reach
another, straddle two and wrap around the end. Two accesses in a run reach every
relation of a page to the run before (untouched, read, written, written again).
`walk`: the comment promises lengths that do not exceed the end, but the distance
to the end is compared with the logarithm of the length, and a step below 0 gives
a negative position.

## Proofs

For every value of the constants, under the assumptions named in the modules
(`KindAssumption`, `PostsAssumption`, `ArgsAssumption`, `IndexAssumption`,
`DepthAssumption`, `ReallocsAssumption`, `ListsAssumption`, `SlackAssumption`,
`HostAssumption`, `CallsAssumption`, `SizeAssumption`, `BytesAssumption`,
`WidthAssumption`, `FloatAssumption`, `PagesAssumption`, `PageSizeAssumption`,
`OffsetsAssumption`, `LensAssumption`, `OpsAssumption`, `BoundsAssumption`,
`ExportsAssumption`):

- `ExecTypeCorrect`, `ExecNested` (`ReplayDriverProofs`). The type of the stack
  alone is not inductive: a return needs to know what lies below. `Nested` says
  which activation may lie above which; `MayRest` is the relation, and
  `NestedPush`, `NestedPop`, `NestedBelow` say how pushing and popping keep it.
- `DriverTypeCorrect`, `DriverContextAlways`, `RecordsExecution`
  (`ReplayDriverProofs`). The inductive invariant `DriverInv` has the types,
  `InHost` and `Context` (what `STATE` is, as a function of the stack, also at
  the points where the guest runs), `HostLive`, and `ReallocDepth` (as many
  realloc stacks as live loops, so that `Head(reallocs)` is the innermost
  loop's). `DriverContext` is not inductive alone: that `STATE` is right when a
  loop goes on after a nested realloc follows from what a realloc may do, which
  `Context` carries. It is proved with one lemma for each action.
- `NoSpuriousPanicAlways`, `FaithfulAlways`, `CompletesOnlyWholeAlways`,
  `ReallocsMatchedAlways`, `DeviationStopsAlways` (`CouplingProofs`). What the driver
  accepts depends on what the recorder wrote, so none of them is inductive, nor
  follows from `DriverInv`: it takes an invariant, `Coupling`, over both runs. In
  the model the recorder is at most one step of the execution ahead of the replay,
  so `Coupled` is a disjunction over what is left of that step: for each
  kind of step one phase (`AfterBegin`, `AfterRealloc`, `AfterCall`, ...) gives the
  events in the trace, the steps in the script, and how the two stacks, the two
  lowerings and the owed post-returns differ meanwhile (`Agree`, `Entering`,
  `Leaving`). `InStep` is the phase in which nothing is left. After the guest has
  acted and before its value is validated come `CheckExit`, `CheckEntry` and
  `CheckRealloc`, the only phases in which the guest may have deviated; `Torn` and
  `Finished` are the ends. `Expected` then says, by the tag of the next event,
  which phase it is, and `Acting` the same by the next step of the guest: each
  action of the driver and the guest has one lemma that cites them, shows that
  its handler's guard holds, and gives the next phase. `Matched` (no realloc
  entry is left, outside `CheckRealloc`) and `StateProper` (what `STATE` holds
  while booting and in a lowering) complete the invariant. That the trace in
  flight is that of one step does not matter to the driver, which has one thread
  and waits for nothing but the trace.
- `ReplayRefinesExecution` (`CouplingProofs`). From `DriverInv` and `Coupling`, one
  lemma for each action: which step of `Execution` it is (`BeginRefines`,
  `CallRefines`, ...) or that it is unseen. The coupling is needed where the
  driver does not check what a host has to respect: that the export that begins
  owes no post-return, that an argument list ends a lowering, that the result
  of a builtin is one it may have.
- `BufferTypeCorrect`, `InitialBufferFits`, `OverrunBoundedAlways` (`ArgsBufferProofs`), from an
  invariant on the lengths and capacities of both vectors.
- `WalkTypeCorrect`, `VerdictAlwaysRight` (`StartAnalysisProofs`). The invariant: what was visited
  is reachable and every visited function off the worklist makes no offending call
  and has its callees visited, so that an empty worklist makes the visited set
  closed under plain calls. Without tail calls in it, that is closed under the
  calls of the reference.
- `ShadowTypeCorrect`, `LogAlwaysExact`, `LoadsAlwaysExplained`
  (`R3ShadowProofs`), for any data segments and offsets. `LogExact`
  says nothing in the middle of a scan; `Agree` does: but for bytes of the data
  segments (`Fits`), the recording and the shadow differ at most in the run at
  hand, and that run is packed right (`PackByte`), for which `Window` bounds it by
  the two halves. `Fits` allows a byte of a segment at any address, because the
  guest may copy it. `Covered` adds that of the bytes of
  the load, those the scan has passed agree with the memory.
- `EventsTypeCorrect`, `HeldAlwaysIntact`, `OnlyMessagesEverLost`
  (`TraceEventsProofs`). A release frees what a field points to, so that it is right
  depends on the tag: `Tagged` says which fields of an event have allocations,
  what each was made for, and that a dangling pointer has length 0. `ReplayerLive`
  says that the replayer's two allocations are its own, so that
  freeing an event never takes one of them, nor freeing the replayer one of an
  event. `FreeBufferFacts` and the lemmas after it say what releasing one buffer and
  then all buffers of an event does to the heap.
- `TrackersTypeCorrect`, `TrackedAlways`, `ScansAlwaysAgree`
  (`DirtyPagesProofs`). The invariant of the first two adds `NothingLeft`: between
  runs no page of a kernel's table matches, which is what the next run starts
  from, whichever soft-dirty bits stayed. It needs that an access touches at most two pages (`MarksPages`), the
  first and the last, which are the two that the generated code marks: this is
  where the assumption that a page has at least 8 bytes is used. `ScansAgree` also
  needs `WrittenDirty` (the pages written in the run are all dirty and not
  protected): PAGEMAP_SCAN starts a new region where the categories change, which
  `from_bitmap` cannot see. Its core is about data, that the loop of
  `from_bitmap` and the definition of maximal runs make the same sequence of a set
  of pages: `ScanInv` is the loop's invariant, kept by `AfterPage` and carried to
  the last page by `SetInduction`.
- `LinkingTypeCorrect`, `LinksAlwaysRight`, `ExportsAlwaysRight`,
  `SupportedAlwaysAccepted`, `ChecksAlwaysPass` (`LinkingProofs`), for any modules and any number of
  definitions. `LinkInv` has two parts. `ComponentInv` says what parsing
  guarantees: the types, that a name is looked up only where it is exported
  (`Named`), that exports of functions go back (`ExportsBack`), and that there
  is a rank of instances and functions that falls along every reference
  (`Ranked`). There is one because definitions refer to earlier ones, but no
  single number of the state is it: instances and functions have indices of
  their own, and only the order of both together falls. `StagesInv`
  says what each stage has made of the definitions (`Assumed`, `Linked`,
  `Gathered`), and that a panic means that the component is not supported.
  The rank is what each induction is over: that `resolve_core_func`, `Denoted`,
  `Merged` and `OfModule` are defined at all (`ResolveUnfolds`,
  `DenotedUnfolds`, ...), that what a function resolves to denotes the
  same (`ResolveRight`), and that merging by the links gives it back
  (`MergedRight`). Under `InstantiatedOnce` the assumed instance is the only one
  (`OnlyInstance`), and any export of the same function will do (`SameFunction`);
  this is where the hypothesis is needed, and `link_once` shows that nothing in the
  tool establishes it. `InOrderRight` gives the place of a function in the
  flattened exports. `ChecksAlwaysPass`: the sanity checks of
  `from_linking_metadata` never fail, which is why they cannot be what keeps
  modules from being linked twice.

Inductions over numbers go through `LeastNat`, the library's well-founded
minimum on the naturals, and `SetInduction`, an induction over sets, because the
library's induction rules take a predicate as parameter. A recursive function is a
CHOOSE, so a proof first builds one that satisfies its equation.

Only model-checked: `ReplayEnds`, `Terminates`, `ReadsEnd` and `ScanEnds`
(liveness under fairness, which the proof system does not handle, as ENABLED);
and, on instances where they fail, the five properties that runs show
violated.

## Plan

1. Done: the modules above, their runs and theorems.
2. Done: every safety property that a run finds to hold is a theorem, and so is
   the refinement of `Execution`.
3. R3's import calls and the shadows that several modules share. The ids and
   tables of the generated glue as a step after `Linking`.

## Not modelled

Decoding of the trace format and the recorder itself (external); the wasm
binaries and their merging and optimisation (`wasm-merge`, `wasm-opt`); traps
recorded as an error in a return event (the driver panics on them); core-module
traces (`core_wasm_func_entry` is `unreachable!`); logging; nested component
scopes and outer aliases; the kernel interfaces of the snapshot benchmark and its
measuring; evaluation scripts, but for the comparison of scans; the trace reader
tool, which prints. The test modules are guest programs; by far the largest is
the library of a Python interpreter (`test-modules/wasip1/cpython-lib`, most of the
repository's lines), which is vendored data of one guest and no part of the
system.
