---------------------------- MODULE ReplayDriver ----------------------------
(***************************************************************************)
(* The replay driver (crimp-drivers/mono), the glue module the decomposer  *)
(* generates for it, and the guest they replay, reading the trace that a   *)
(* recorder wrote of an execution.                                         *)
(*                                                                         *)
(* Everything runs on one thread, but as mutually recursive activations:   *)
(* run_replay dispatches into guest code, whose calls of imports re-enter  *)
(* the driver (replay_host_call, replay_builtin_call, replay_instruction), *)
(* which dispatches into guest code again (cabi_realloc).  All of them     *)
(* share the trace cursor, STATE and the argument buffer as globals.       *)
(*                                                                         *)
(* The trace is read lazily: the recorder takes a step of Execution only   *)
(* when the replay has used up what earlier steps wrote.  The recorder     *)
(* does not look at the replay, so this loses no behaviour, and it bounds  *)
(* the trace without bounding the length of the execution.                 *)
(***************************************************************************)
EXTENDS Execution

CONSTANT
  MaxReallocs  (* bound of the checked instances: unvalidated reallocs     *)

ASSUME ReallocsAssumption == MaxReallocs \in Nat \ {0}

VARIABLES
  validated,   (* the trace was recorded with validation events           *)
  recording,   (* live, closed by Eof, torn by a crash, or of a component *)
               (* other than the one replayed (foreign)                   *)
  trace,       (* events written and not yet read by the driver           *)
  script,      (* boundary steps of the guest in the recorded execution   *)
               (* that the replayed guest has not made yet                *)
  status,      (* boot, running, done, panicked; diverged when the guest  *)
               (* is given something it was not given when recorded       *)
  dstate,      (* STATE                                                   *)
  backing,     (* ARGS_RESULTS_BACKING, up to the lengths that are set    *)
  initialized, (* INITIALIZED                                             *)
  deviated,    (* the guest did other than it did when recorded           *)
  stack,       (* activations above run_replay, the innermost first       *)
  reallocs,    (* realloc_return_stack of each live loop, innermost first *)
  postArgs     (* post_return_args of run_replay                          *)

recorderVars == <<execVars, validated, recording>>
globalVars == <<dstate, backing, initialized>>
localVars == <<stack, reallocs, postArgs>>
vars == <<recorderVars, trace, script, status, deviated, globalVars, localVars>>

----------------------------------------------------------------------------
(* Trace events, guest boundary steps and the driver's STATE.              *)

EventKinds ==
  {"inst", "foreign_inst", "begin", "entry", "wasm_return", "post_return",
   "lower_entry", "lower_return", "realloc", "realloc_return", "write",
   "host_entry", "host_return", "host_return_empty", "builtin_entry",
   "builtin_return", "grow", "diagnostic", "eof", "read_error"}
Event(e, i, v) == [ev |-> e, idx |-> i, val |-> v]
EventSet == [ev : EventKinds, idx : Exports \cup {None}, val : Args \cup {None}]
EntryEvent == [host |-> "host_entry", builtin |-> "builtin_entry"]
Diagnostic == Event("diagnostic", None, None)

(* What the guest is given: enter, ret, realloc, write, post, dtor, grown. *)
(* What it does: call, exit, grow, and the returns of its other functions. *)
DoneOp == [start |-> "start_done", realloc |-> "realloc_done",
           post |-> "post_done", dtor |-> "dtor_done"]
StepOps == {"enter", "ret", "realloc", "write", "post", "dtor", "grown",
            "call", "exit", "grow", "start_done", "realloc_done",
            "post_done", "dtor_done"}
Step(o, d, i, v) == [op |-> o, dir |-> d, idx |-> i, val |-> v]
StepSet == [op : StepOps, dir : {"import", "export", "none"},
            idx : Exports \cup Imports \cup {None}, val : Args \cup {None}]

Root == [kind |-> "root", idx |-> None]
LoweringSetup(f) == [kind |-> "setup", idx |-> f]
HostCall(i) == [kind |-> "host", idx |-> i]
BuiltinCall(i) == [kind |-> "builtin", idx |-> i]
StateSet == [kind : {"root", "setup", "host", "builtin"},
             idx : Exports \cup Imports \cup {None}]

DriverTypeOK ==
  /\ ExecTypeOK
  /\ validated \in BOOLEAN
  /\ recording \in {"live", "closed", "torn", "foreign"}
  /\ trace \in Seq(EventSet)
  /\ script \in Seq(StepSet)
  /\ status \in {"boot", "running", "done", "panicked", "diverged"}
  /\ deviated \in BOOLEAN
  /\ dstate \in StateSet
  /\ backing \in Args \cup {None}
  /\ initialized \in BOOLEAN
  /\ stack \in Seq(FrameSet)
  /\ reallocs \in Seq(Seq(Args))
  /\ postArgs \in [Exports -> Args \cup {None}]

Init ==
  /\ ExecInit
  /\ validated \in BOOLEAN
  /\ recording \in {"live", "foreign"}
  /\ trace = <<Event(IF recording = "live" THEN "inst" ELSE "foreign_inst",
                     None, None)>>
  /\ script = <<>>
  /\ status = "boot"
  /\ deviated = FALSE
  /\ dstate = Root
  /\ backing = NoArgs
  /\ initialized = FALSE
  /\ stack = frames
  /\ reallocs = <<<<>>>>
  /\ postArgs = [f \in Exports |-> None]

----------------------------------------------------------------------------
(* The recorder: a step of the execution, the events written for it and    *)
(* the guest's part in it.  Diagnostic events may precede any other.       *)

Synced == recording = "live" /\ trace = <<>> /\ script = <<>>
Validation(e) == IF validated THEN <<e>> ELSE <<>>
(* The direction and index a lowering is done for.                         *)
LowerDir == IF frames = <<>> THEN "export" ELSE "import"
LowerIdx == IF frames = <<>> THEN lowering ELSE Head(frames).idx

Write(events) ==
  trace' \in {events} \cup {<<Diagnostic>> \o e : e \in {events} \ {<<>>}}

Record(events, steps) ==
  /\ Synced
  /\ Write(events)
  /\ script' = steps
  /\ UNCHANGED <<validated, recording, status, globalVars, localVars>>

RecBegin(f) == Begin(f) /\ Record(<<Event("begin", f, None)>>, <<>>)

RecLower(ev) ==
  /\ Lowers
  /\ Record(<<Event(ev, None, None)>>, <<>>)
  /\ UNCHANGED execVars

RecRealloc(v) ==
  /\ Len(Head(reallocs)) < MaxReallocs
  /\ Realloc
  /\ Record(<<Event("realloc", None, v)>>,
            <<Step("realloc", LowerDir, LowerIdx, v)>>)

RecReallocReturn(v) ==
  /\ Leave({"realloc"})
  /\ Record(Validation(Event("realloc_return", None, v)),
            <<Step("realloc_done", "none", None, v)>>)

RecWrite(v) ==
  /\ Lowers
  /\ Record(<<Event("write", None, v)>>, <<Step("write", LowerDir, LowerIdx, v)>>)
  /\ UNCHANGED execVars

RecEntry(v) ==
  /\ Enter
  /\ Record(<<Event("entry", None, v)>>, <<Step("enter", "export", lowering, v)>>)

RecExit(v) ==
  /\ Exit(v)
  /\ Record(Validation(Event("wasm_return", None, v)),
            <<Step("exit", "export", Head(frames).idx, v)>>)

RecPostReturn(f) ==
  /\ PostReturn(f)
  /\ Record(<<Event("post_return", f, None)>>,
            IF f \in Posts THEN <<Step("post", "export", f, owed[f])>> ELSE <<>>)

RecLeave(k) ==
  /\ Leave({k})
  /\ Record(<<>>, <<Step(DoneOp[k], "none", None, None)>>)

(* memory.grow and table.grow, in any guest code.                          *)
RecGrow(v) ==
  /\ Innermost(frames, GuestKinds)
  /\ Record(<<Event("grow", None, v)>>,
            <<Step("grow", "none", None, None), Step("grown", "none", None, v)>>)
  /\ UNCHANGED execVars

RecCall(i, v) ==
  /\ Call(i)
  /\ v \in IF Kind[i] = "host" THEN Args ELSE U32
  /\ Record(Validation(Event(EntryEvent[CallKind(i)], None, v)),
            <<Step("call", "import", i, v)>>)

RecHostReturn(v) ==
  /\ HostReturn
  /\ Head(frames).kind = "hdtor" => v = NoArgs
  /\ \E e \in {Event("host_return", None, v)}
             \cup (IF v = NoArgs THEN {Event("host_return_empty", None, None)} ELSE {}) :
       Record(<<e>>, <<Step("ret", "import", Head(frames).idx, v)>>)

RecBuiltinReturn(rep) ==
  /\ BuiltinReturn(rep)
  /\ LET i == Head(frames).idx
         dtor == DtorFrames(i, rep)
         ret == Event("builtin_return", None, rep)
     IN CASE dtor = <<>> ->
               Record(<<ret>>, <<Step("ret", "import", i,
                                 IF Kind[i] = "value" THEN rep ELSE NoArgs)>>)
          [] dtor # <<>> /\ Kind[i] = "guest_dtor" ->
               Record(<<ret>>, <<Step("dtor", "import", i, rep)>>)
          [] OTHER -> Record(<<ret>> \o Validation(Event("host_entry", None, rep)), <<>>)

RecDtorReturn ==
  /\ Leave({"dtor"})
  /\ Record(<<>>, <<Step("dtor_done", "none", None, None),
                    Step("ret", "import", Head(frames).idx, NoArgs)>>)

(* The recording is closed when the host drops the component.              *)
RecFinish ==
  /\ Finish /\ Synced
  /\ Write(<<Event("eof", None, None)>>)
  /\ recording' = "closed"
  /\ UNCHANGED <<script, validated, status, globalVars, localVars>>

(* The recording process dies while the host runs: no Eof is written.      *)
RecCrash ==
  /\ Synced
  /\ frames = <<>> \/ Innermost(frames, {"host", "hdtor", "builtin"})
  /\ trace' = <<Event("read_error", None, None)>>
  /\ recording' = "torn"
  /\ UNCHANGED <<execVars, script, validated, status, globalVars, localVars>>

Recorder ==
  \/ \E f \in Exports : RecBegin(f) \/ RecPostReturn(f)
  \/ \E ev \in {"lower_entry", "lower_return"} : RecLower(ev)
  \/ \E v \in Args : \/ RecRealloc(v) \/ RecReallocReturn(v) \/ RecWrite(v)
                     \/ RecEntry(v) \/ RecExit(v) \/ RecGrow(v)
                     \/ RecHostReturn(v)
  \/ \E k \in {"start", "post"} : RecLeave(k)
  \/ \E i \in Imports, v \in Args : RecCall(i, v)
  \/ \E rep \in U32 \cup {None} : RecBuiltinReturn(rep)
  \/ RecDtorReturn
  \/ RecFinish
  \/ RecCrash

----------------------------------------------------------------------------
(* The driver.  A handler that does not accept what it is given panics,    *)
(* which ends the program.                                                 *)

Panic ==
  /\ status' = "panicked"
  /\ UNCHANGED <<trace, script, globalVars, localVars>>

OrPanic(ok, Handler) == IF ok THEN Handler ELSE Panic

Live == status \in {"boot", "running"}
InRunReplay == status = "running" /\ stack = <<>>
InHostCall == Live /\ Innermost(stack, {"host", "hdtor"})
InBuiltinCall == Live /\ Innermost(stack, {"builtin"})

Unread == trace # <<>> /\ Head(trace).ev # "diagnostic"
NextIs(ev) == trace # <<>> /\ Head(trace).ev = ev
Value == Head(trace).val

Read == trace' = Tail(trace)

(* The guest is given a step, in the recorded execution's next or not.     *)
Deliver(recorded, step) ==
  IF recorded # <<>> /\ Head(recorded) = step
  THEN script' = Tail(recorded) /\ UNCHANGED status
  ELSE script' = recorded /\ status' = "diverged"

(* Diagnostic events are skipped by whoever reads the trace.               *)
SkipDiagnostic ==
  /\ NextIs("diagnostic")
  /\ InRunReplay \/ InHostCall \/ InBuiltinCall
       \/ (Live /\ script # <<>> /\ Head(script).op = "grow")
  /\ Read
  /\ UNCHANGED <<script, status, globalVars, localVars>>

(* init_replayer: only its first call opens the trace, sets the globals    *)
(* and reads the instantiation event.                                      *)
InitReplayer(after) ==
  IF initialized
  THEN status' = after /\ UNCHANGED <<trace, globalVars>>
  ELSE /\ trace # <<>>
       /\ Read
       /\ initialized' = TRUE
       /\ dstate' = Root
       /\ backing' = NoArgs
       /\ status' = IF NextIs("inst") THEN after ELSE "panicked"

(* Called at the head of a start function.                                 *)
StartFunction ==
  /\ status = "boot" /\ Innermost(stack, {"start"}) /\ ~initialized
  /\ InitReplayer("boot")
  /\ UNCHANGED <<script, localVars>>

RunReplay ==
  /\ status = "boot" /\ stack = <<>>
  /\ InitReplayer("running")
  /\ UNCHANGED <<script, localVars>>

(* Events of the loop of run_replay.                                       *)

WasmFuncBegin ==
  /\ InRunReplay /\ NextIs("begin")
  /\ OrPanic(dstate = Root,
       /\ Read
       /\ dstate' = LoweringSetup(Head(trace).idx)
       /\ UNCHANGED <<script, status, backing, initialized, localVars>>)

WasmFuncEntry ==
  /\ InRunReplay /\ NextIs("entry")
  /\ OrPanic(dstate.kind = "setup",
       /\ Read
       /\ Deliver(script, Step("enter", "export", dstate.idx, Value))
       /\ stack' = Push(Frame("core", dstate.idx), stack)
       /\ UNCHANGED <<globalVars, reallocs, postArgs>>)

(* Fault: the saved arguments are looked up and not removed.               *)
PostArgsKept(f) == postArgs
PostArgsTaken(f) == [postArgs EXCEPT ![f] = None]

(* The post-return of an export that has none is a no-op of the glue.      *)
ReadPostReturn ==
  /\ InRunReplay /\ NextIs("post_return")
  /\ LET f == Head(trace).idx
     IN OrPanic(postArgs[f] # None /\ dstate = Root,
          /\ Read
          /\ postArgs' = PostArgsTaken(f)
          /\ IF f \in Posts
             THEN /\ Deliver(script, Step("post", "export", f, postArgs[f]))
                  /\ stack' = Push(Frame("post", f), stack)
             ELSE UNCHANGED <<script, status, stack>>
          /\ UNCHANGED <<globalVars, reallocs>>)

(* Fault: a failed read is taken for the end of the trace.                 *)
EndOrReadError == NextIs("eof") \/ NextIs("read_error")
EndOfTrace == NextIs("eof")

(* Fault: the loop goes on, and the reader gives it Eof again and again.   *)
EofPolled ==
  /\ InRunReplay /\ EndOfTrace
  /\ UNCHANGED trace
  /\ UNCHANGED <<script, status, globalVars, localVars>>

Eof ==
  /\ InRunReplay /\ EndOfTrace
  /\ Read
  /\ status' = "done"
  /\ UNCHANGED <<script, globalVars, localVars>>

(* Events of both loops: lowering, and the validation of a return.         *)

(* Fault: the recorded values are not compared with the buffer.            *)
NeverInvalid(v) == TRUE
Valid(v) == v = backing

WasmFuncReturn ==
  /\ InRunReplay \/ InHostCall
  /\ NextIs("wasm_return")
  /\ OrPanic(dstate = Root /\ Valid(Value),
       Read /\ UNCHANGED <<script, status, globalVars, localVars>>)

LowersState(s) == s.kind \in {"setup", "host"}
(* Fault: every lowering is dispatched as that of an import.               *)
ImportDir(s) == "import"
DriverDir(s) == IF s.kind = "setup" THEN "export" ELSE "import"

ReadLower ==
  /\ InRunReplay \/ InHostCall
  /\ NextIs("lower_entry") \/ NextIs("lower_return")
  /\ OrPanic(NextIs("lower_entry") \/ LowersState(dstate),
       Read /\ UNCHANGED <<script, status, globalVars, localVars>>)

ReallocEntry ==
  /\ InRunReplay \/ InHostCall
  /\ NextIs("realloc")
  /\ OrPanic(LowersState(dstate),
       /\ Read
       /\ Deliver(script, Step("realloc", DriverDir(dstate), dstate.idx, Value))
       /\ stack' = Push(Frame("realloc", None), stack)
       /\ UNCHANGED <<globalVars, reallocs, postArgs>>)

(* Fault: the top of the stack is validated and not popped.                *)
ReallocPeeked(rs) == rs
ReallocPopped(rs) == Tail(rs)

ReallocReturn ==
  /\ InRunReplay \/ InHostCall
  /\ NextIs("realloc_return")
  /\ OrPanic(/\ LowersState(dstate)
             /\ Head(reallocs) # <<>> /\ Head(Head(reallocs)) = Value,
       /\ Read
       /\ reallocs' = Push(ReallocPopped(Head(reallocs)), Tail(reallocs))
       /\ UNCHANGED <<script, status, globalVars, stack, postArgs>>)

MemorySliceWrite ==
  /\ InRunReplay \/ InHostCall
  /\ NextIs("write")
  /\ OrPanic(LowersState(dstate),
       /\ Read
       /\ Deliver(script, Step("write", DriverDir(dstate), dstate.idx, Value))
       /\ UNCHANGED <<globalVars, localVars>>)

(* Events of the loop of replay_host_call.                                 *)

HostFuncEntry ==
  /\ InHostCall /\ NextIs("host_entry")
  /\ OrPanic(dstate.kind = "host" /\ Valid(Value),
       Read /\ UNCHANGED <<script, status, globalVars, localVars>>)

ReturnedArgs == IF NextIs("host_return") THEN Value ELSE NoArgs

(* The stub loads its results from the buffer; that of a host destructor   *)
(* drops them, and the resource.drop it belongs to has none.               *)
HostFuncReturn ==
  /\ InHostCall
  /\ NextIs("host_return") \/ NextIs("host_return_empty")
  /\ OrPanic(dstate.kind = "host",
       /\ Read
       /\ backing' = ReturnedArgs
       /\ Deliver(script, Step("ret", "import", Head(stack).idx,
            IF Head(stack).kind = "hdtor" THEN NoArgs ELSE ReturnedArgs))
       /\ stack' = Tail(stack)
       /\ reallocs' = Tail(reallocs)
       /\ UNCHANGED <<dstate, initialized, postArgs>>)

(* Events of the loop of replay_builtin_call.                              *)

BuiltinEntry ==
  /\ InBuiltinCall /\ NextIs("builtin_entry")
  /\ OrPanic(dstate.kind = "builtin" /\ Valid(Value),
       Read /\ UNCHANGED <<script, status, globalVars, localVars>>)

(* The stub of resource.drop runs the destructor when there is a           *)
(* representation: the guest's function, or a replayed host call.          *)
ReadBuiltinReturn ==
  /\ InBuiltinCall /\ NextIs("builtin_return")
  /\ LET i == Head(stack).idx
         dtor == DtorFrames(i, Value)
     IN OrPanic(dstate.kind = "builtin",
          /\ Read
          /\ backing' = Value
          /\ stack' = dtor \o Tail(stack)
          /\ CASE dtor = <<>> ->
                    /\ Deliver(script, Step("ret", "import", i,
                                 IF Kind[i] = "value" THEN Value ELSE NoArgs))
                    /\ UNCHANGED <<dstate, reallocs>>
               [] dtor # <<>> /\ Kind[i] = "guest_dtor" ->
                    /\ Deliver(script, Step("dtor", "import", i, Value))
                    /\ UNCHANGED <<dstate, reallocs>>
               [] OTHER ->
                    /\ dstate' = HostCall(i)
                    /\ reallocs' = Push(<<>>, reallocs)
                    /\ UNCHANGED <<script, status>>
          /\ UNCHANGED <<initialized, postArgs>>)

(* The match of each loop ends in a panic on any other event.              *)
MainEvents == {"begin", "entry", "post_return", "wasm_return", "lower_entry",
  "lower_return", "realloc", "realloc_return", "write", "eof"}
HostEvents == {"host_entry", "host_return", "host_return_empty",
  "wasm_return", "lower_entry", "lower_return", "realloc",
  "realloc_return", "write"}
BuiltinEvents == {"builtin_entry", "builtin_return"}

UnexpectedEvent ==
  /\ Unread
  /\ \/ InRunReplay /\ Head(trace).ev \notin MainEvents
     \/ InHostCall /\ Head(trace).ev \notin HostEvents
     \/ InBuiltinCall /\ Head(trace).ev \notin BuiltinEvents
  /\ Panic

Driver ==
  \/ SkipDiagnostic \/ StartFunction \/ RunReplay
  \/ WasmFuncBegin \/ WasmFuncEntry \/ ReadPostReturn \/ Eof
  \/ WasmFuncReturn \/ ReadLower
  \/ ReallocEntry \/ ReallocReturn \/ MemorySliceWrite
  \/ HostFuncEntry \/ HostFuncReturn
  \/ BuiltinEntry \/ ReadBuiltinReturn
  \/ UnexpectedEvent

----------------------------------------------------------------------------
(* The guest.  It is deterministic: as long as it is given what it was     *)
(* given when recorded, it does what it did then.  A guest that is not     *)
(* (another build, an engine that differs) may pass or return some other   *)
(* value; it is followed only where the trace has the events to notice.    *)

GuestDoes(kinds, op) ==
  /\ Live /\ Innermost(stack, kinds)
  /\ script # <<>> /\ Head(script).op = op
  /\ Innermost(stack, {"start"}) => initialized

Does(v) ==
  IF v = Head(script).val THEN UNCHANGED deviated
  ELSE validated /\ deviated' = TRUE

(* Fault: STATE is set only when no other context holds it.                *)
StateOnlyFromRoot(i) ==
  IF dstate # Root THEN dstate
  ELSE IF Kind[i] = "host" THEN HostCall(i) ELSE BuiltinCall(i)
CalleeState(i) == IF Kind[i] = "host" THEN HostCall(i) ELSE BuiltinCall(i)

(* Calling an import runs its glue stub, which puts the parameters in the  *)
(* buffer and calls into the driver.                                       *)
GuestCall(v) ==
  /\ GuestDoes(CodeKinds, "call") /\ Does(v)
  /\ LET i == Head(script).idx
     IN /\ backing' = v
        /\ stack' = Push(Frame(CallKind(i), i), stack)
        /\ dstate' = CalleeState(i)
        /\ reallocs' = IF Kind[i] = "host" THEN Push(<<>>, reallocs) ELSE reallocs
  /\ script' = Tail(script)
  /\ UNCHANGED <<trace, status, initialized, postArgs>>

(* replay_instruction, called after every memory.grow and table.grow, puts *)
(* the recorded result in the place of the actual one.                     *)
GuestGrow ==
  /\ GuestDoes(GuestKinds, "grow") /\ Unread
  /\ OrPanic(NextIs("grow"),
       /\ Read
       /\ Deliver(Tail(script), Step("grown", "none", None, Value))
       /\ UNCHANGED <<globalVars, localVars>>)
  /\ UNCHANGED deviated

(* The glue stores the results of a core function, if it has any, and      *)
(* reports the lengths; the driver keeps a copy for the post-return.       *)
(* Fault: a function without results leaves the lengths of the last call.  *)
ResultOrStale(v) == IF v = NoArgs THEN backing ELSE v
ResultBuffer(v) == v
(* Fault: STATE stays what the last host call made it.                     *)
StateOfLastCall == dstate
StateAfterCall == Root

GuestExit(v) ==
  /\ GuestDoes({"core"}, "exit") /\ Does(v)
  /\ backing' = ResultBuffer(v)
  /\ postArgs' = [postArgs EXCEPT ![Head(stack).idx] = backing']
  /\ dstate' = StateAfterCall
  /\ stack' = Tail(stack)
  /\ script' = Tail(script)
  /\ UNCHANGED <<trace, status, initialized, reallocs>>

(* Fault: the stack slot is pushed before the guest has returned.          *)
ReallocSlot(v) == None
ReallocResult(v) == v

GuestReallocDone(v) ==
  /\ GuestDoes({"realloc"}, "realloc_done") /\ Does(v)
  /\ reallocs' = Push(Push(ReallocResult(v), Head(reallocs)), Tail(reallocs))
  /\ stack' = Tail(stack)
  /\ script' = Tail(script)
  /\ UNCHANGED <<trace, status, globalVars, postArgs>>

GuestLeave(k) ==
  /\ GuestDoes({k}, DoneOp[k])
  /\ stack' = Tail(stack)
  /\ script' = Tail(script)
  /\ UNCHANGED <<trace, status, deviated, globalVars, reallocs, postArgs>>

(* The stub of resource.drop returns after the guest's destructor.         *)
GuestDtorDone ==
  /\ GuestDoes({"dtor"}, "dtor_done")
  /\ Deliver(Tail(script), Step("ret", "import", Head(stack).idx, NoArgs))
  /\ stack' = Tail(stack)
  /\ UNCHANGED <<trace, deviated, globalVars, reallocs, postArgs>>

Guest ==
  \/ \E v \in Args : GuestCall(v) \/ GuestExit(v) \/ GuestReallocDone(v)
  \/ GuestGrow
  \/ \E k \in {"start", "post"} : GuestLeave(k)
  \/ GuestDtorDone

----------------------------------------------------------------------------
Replay == ((Driver /\ UNCHANGED deviated) \/ Guest) /\ UNCHANGED recorderVars

(* The program has ended.                                                  *)
Ended == status \in {"done", "panicked", "diverged"} /\ UNCHANGED vars

Next == (Recorder /\ UNCHANGED deviated) \/ Replay \/ Ended

(* The replay is one thread that nothing else can block.                   *)
Spec == Init /\ [][Next]_vars /\ WF_vars(Replay)

----------------------------------------------------------------------------
(* Properties.                                                             *)

(* Replay of an intact trace of this component by a guest that behaves as  *)
(* recorded never panics: every event arrives in a STATE its handler       *)
(* accepts, every validation succeeds, every realloc return finds its      *)
(* entry.  Only a torn trace, another component's trace, or a deviating    *)
(* guest end in a panic.                                                   *)
NoSpuriousPanic ==
  status = "panicked" => recording \in {"torn", "foreign"} \/ deviated

(* The guest is given exactly what it was given when recorded: arguments,  *)
(* results of imports and builtins, reallocs and memory writes of the      *)
(* right export or import, destructor calls, post-returns with the results *)
(* of the call they belong to, and recorded memory.grow results.           *)
Faithful == status # "diverged"

(* The replay reports success only when it has replayed a whole recording  *)
(* of this component, and all of it: no activation is left.                *)
CompletesOnlyWhole ==
  /\ status = "done" => recording = "closed" /\ stack = <<>> /\ dstate = Root
  /\ recording = "foreign" => status \in {"boot", "panicked"}

(* STATE is one global that no call restores when it returns.  Still, when *)
(* a loop of the driver reads an event, STATE is the one that loop needs,  *)
(* and the export or import it lowers for is the right one.                *)
DriverContext ==
  /\ InHostCall => dstate = HostCall(Head(stack).idx)
  /\ InBuiltinCall => dstate = BuiltinCall(Head(stack).idx)
  /\ InRunReplay => dstate.kind \in {"root", "setup"}

(* In a validated trace every realloc the guest ran has been matched with  *)
(* its return event by the time its loop goes on: no stack keeps an entry, *)
(* as the assertion after the loop of replay_host_call wants.              *)
ReallocsMatched ==
  Synced /\ validated => \A k \in DOMAIN reallocs : reallocs[k] = <<>>

(* A guest that passes or returns a value other than the recorded one is   *)
(* stopped by the validation event before it is given anything more.       *)
DeviationStops ==
  [][deviated => UNCHANGED script /\ status' \in {status, "panicked"}]_vars

(* What the guest goes through under replay is an execution: with the      *)
(* driver, the glue and the trace in the place of the host, it is entered, *)
(* called back and returned to as a host may do it.                        *)
Replayed == INSTANCE Execution WITH
  frames <- stack,
  lowering <- IF dstate.kind = "setup"
                 /\ (stack = <<>> \/ Head(stack).kind = "realloc")
              THEN dstate.idx ELSE None,
  owed <- postArgs,
  over <- status = "done"
ReplayIsExecution == Replayed!ExecSpec

(* Once the recording has ended, the replay ends: no event is left unread  *)
(* and no activation waits for one.                                        *)
ReplayEnds ==
  recording # "live" ~> status \in {"done", "panicked"}
=============================================================================
