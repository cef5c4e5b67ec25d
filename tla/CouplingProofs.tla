--------------------------- MODULE CouplingProofs ---------------------------
(***************************************************************************)
(* Recorder and replay, proved to go together: replay of an intact trace   *)
(* panics only on a guest that deviates, gives the guest what it was given *)
(* when recorded, and is done only when all of it is replayed.  A replay   *)
(* implements the abstract machine of guest and host (at the end).         *)
(*                                                                         *)
(* The recorder is at most one step of the execution ahead.  The coupling  *)
(* invariant says for each kind of step what is left of it in trace and    *)
(* script, and how the activations of the recorded run and of the replay   *)
(* differ meanwhile.                                                       *)
(***************************************************************************)
EXTENDS ReplayDriverProofs

(* The export that is lowered for, from the stack and STATE, as the        *)
(* mapping of Replayed has it.                                             *)
LoweringIn(st, state) ==
  IF state.kind = "setup" /\ (st = <<>> \/ Head(st).kind = "realloc")
  THEN state.idx ELSE None
ReplayLowering == LoweringIn(stack, dstate)
ReplayLowers ==
  (stack = <<>> /\ dstate.kind = "setup") \/ Innermost(stack, {"host"})

(* What the driver has yet to read, but for a diagnostic event in front.   *)
Due == IF NextIs("diagnostic") THEN Tail(trace) ELSE trace
Left(events, steps) == Due = events /\ script = steps
Given(op, v) == Step(op, DriverDir(dstate), dstate.idx, v)

(* The replay is where the recorded run is, or one activation behind it,   *)
(* or one ahead.                                                           *)
Agree == frames = stack /\ lowering = ReplayLowering /\ owed = postArgs
Entering(fr) ==
  frames = Push(fr, stack) /\ lowering = ReplayLowering /\ owed = postArgs
Leaving(kinds) ==
  Innermost(stack, kinds) /\ frames = Tail(stack) /\ lowering = ReplayLowering

----------------------------------------------------------------------------
(* What each step of the recorder leaves to the replay.                    *)

InStep == Left(<<>>, <<>>) /\ Agree

AfterBegin(f) ==
  /\ Left(<<Event("begin", f, None)>>, <<>>)
  /\ stack = <<>> /\ dstate = Root
  /\ frames = <<>> /\ lowering = f /\ owed = postArgs /\ owed[f] = None

AfterLower(e) ==
  /\ Left(<<Event(e, None, None)>>, <<>>)
  /\ Agree /\ ReplayLowers

AfterRealloc(v) ==
  /\ Left(<<Event("realloc", None, v)>>, <<Given("realloc", v)>>)
  /\ Entering(Frame("realloc", None)) /\ ReplayLowers

AfterReallocReturn(v) ==
  /\ Leaving({"realloc"}) /\ owed = postArgs
  /\ Left(Validation(Event("realloc_return", None, v)),
          <<Step("realloc_done", "none", None, v)>>)

AfterWrite(v) ==
  /\ Left(<<Event("write", None, v)>>, <<Given("write", v)>>)
  /\ Agree /\ ReplayLowers

AfterEntry(v) ==
  /\ Left(<<Event("entry", None, v)>>, <<Step("enter", "export", dstate.idx, v)>>)
  /\ stack = <<>> /\ dstate.kind = "setup"
  /\ frames = <<Frame("core", dstate.idx)>> /\ lowering = None /\ owed = postArgs

AfterExit(v) ==
  /\ Leaving({"core"}) /\ owed = [postArgs EXCEPT ![Head(stack).idx] = v]
  /\ Left(Validation(Event("wasm_return", None, v)),
          <<Step("exit", "export", Head(stack).idx, v)>>)

AfterPostReturn(f) ==
  /\ Left(<<Event("post_return", f, None)>>,
          IF f \in Posts THEN <<Step("post", "export", f, postArgs[f])>> ELSE <<>>)
  /\ stack = <<>> /\ dstate = Root /\ postArgs[f] # None
  /\ frames = (IF f \in Posts THEN <<Frame("post", f)>> ELSE <<>>)
  /\ lowering = None /\ owed = [postArgs EXCEPT ![f] = None]

AfterLeave(k) ==
  /\ Leaving({k}) /\ owed = postArgs
  /\ Left(<<>>, <<Step(DoneOp[k], "none", None, None)>>)

AfterGrow(v) ==
  /\ Left(<<Event("grow", None, v)>>,
          <<Step("grow", "none", None, None), Step("grown", "none", None, v)>>)
  /\ Agree /\ Innermost(stack, GuestKinds)

AfterCall(i, v) ==
  /\ Left(Validation(Event(EntryEvent[CallKind(i)], None, v)),
          <<Step("call", "import", i, v)>>)
  /\ Innermost(stack, CodeKinds) /\ Len(stack) < MaxDepth
  /\ Entering(Frame(CallKind(i), i))

AfterHostReturn(e, v) ==
  /\ Leaving({"host", "hdtor"}) /\ owed = postArgs
  /\ Left(<<e>>, <<Step("ret", "import", Head(stack).idx, v)>>)
  /\ \/ e = Event("host_return", None, v)
     \/ e = Event("host_return_empty", None, None) /\ v = NoArgs
  /\ Head(stack).kind = "hdtor" => v = NoArgs

AfterBuiltin(rep, checks) ==
  /\ Due # <<>> /\ Head(Due) = Event("builtin_return", None, rep)
  /\ Tail(Due) = checks
  /\ rep \in BuiltinResults(Head(stack).idx)
  /\ frames = DtorFrames(Head(stack).idx, rep) \o Tail(stack)
  /\ lowering = None /\ owed = postArgs

AfterBuiltinReturn(rep) ==
  LET i == Head(stack).idx IN
    /\ Innermost(stack, {"builtin"}) /\ DtorFrames(i, rep) = <<>>
    /\ AfterBuiltin(rep, <<>>)
    /\ script = <<Step("ret", "import", i, IF Kind[i] = "value" THEN rep ELSE NoArgs)>>
AfterGuestDtor(rep) ==
  LET i == Head(stack).idx IN
    /\ Innermost(stack, {"builtin"}) /\ DtorFrames(i, rep) = <<Frame("dtor", i)>>
    /\ Kind[i] = "guest_dtor"
    /\ AfterBuiltin(rep, <<>>)
    /\ script = <<Step("dtor", "import", i, rep)>>
AfterHostDtor(rep) ==
  LET i == Head(stack).idx IN
    /\ Innermost(stack, {"builtin"}) /\ DtorFrames(i, rep) = <<Frame("hdtor", i)>>
    /\ Kind[i] = "host_dtor"
    /\ AfterBuiltin(rep, Validation(Event("host_entry", None, rep)))
    /\ script = <<>>

AfterDtorReturn ==
  /\ Leaving({"dtor"}) /\ owed = postArgs
  /\ Left(<<>>, <<Step("dtor_done", "none", None, None),
                  Step("ret", "import", Head(stack).idx, NoArgs)>>)

Recorded ==
  \/ InStep
  \/ \E f \in Exports : AfterBegin(f) \/ AfterPostReturn(f)
  \/ \E e \in {"lower_entry", "lower_return"} : AfterLower(e)
  \/ \E v \in Args : \/ AfterRealloc(v) \/ AfterReallocReturn(v) \/ AfterWrite(v)
                     \/ AfterEntry(v) \/ AfterExit(v) \/ AfterGrow(v)
                     \/ \E e \in EventSet : AfterHostReturn(e, v)
  \/ \E k \in {"start", "post"} : AfterLeave(k)
  \/ \E i \in Imports, v \in Args : AfterCall(i, v)
  \/ \E rep \in U32 \cup {None} :
       AfterBuiltinReturn(rep) \/ AfterGuestDtor(rep) \/ AfterHostDtor(rep)
  \/ AfterDtorReturn

(* The guest has done its part, and the validation of it is next.          *)
CheckExit(v) ==
  /\ Left(<<Event("wasm_return", None, v)>>, <<>>)
  /\ stack = <<>> /\ dstate = Root
  /\ frames = <<>> /\ lowering = None
  /\ deviated = (backing # v) /\ (~deviated => owed = postArgs)

CheckEntry(e, v) ==
  /\ Left(<<Event(e, None, v)>>, <<>>) /\ Agree
  /\ Innermost(stack, IF e = "host_entry" THEN {"host", "hdtor"} ELSE {"builtin"})
  /\ deviated = (backing # v)

CheckRealloc(v) ==
  /\ Left(<<Event("realloc_return", None, v)>>, <<>>)
  /\ Agree
  /\ (stack = <<>> /\ dstate.kind = "setup") \/ Innermost(stack, {"host", "hdtor"})
  /\ Len(Head(reallocs)) = 1 /\ deviated = (Head(Head(reallocs)) # v)
  /\ \A k \in DOMAIN reallocs : k > 1 => reallocs[k] = <<>>

Checked ==
  \/ \E v \in Args : CheckExit(v)
  \/ \E e \in {"host_entry", "builtin_entry"}, v \in Args : CheckEntry(e, v)

Torn ==
  /\ recording = "torn" /\ ~deviated
  /\ Left(<<Event("read_error", None, None)>>, <<>>)
Finished ==
  /\ recording = "closed" /\ ~deviated
  /\ Left(<<Event("eof", None, None)>>, <<>>)
  /\ Agree /\ stack = <<>> /\ dstate = Root

----------------------------------------------------------------------------
(* The invariant.                                                          *)

Matched == validated => \A k \in DOMAIN reallocs : reallocs[k] = <<>>

Coupled ==
  \/ recording = "live" /\ Matched /\ ~deviated /\ Recorded
  \/ recording = "live" /\ Matched /\ validated /\ status = "running" /\ Checked
  \/ /\ recording = "live" /\ validated /\ status = "running"
     /\ \E v \in Args : CheckRealloc(v)
  \/ Torn
  \/ Finished

AtBoot(inst) ==
  /\ trace = <<Event(inst, None, None)>> /\ script = <<>>
  /\ status = "boot" /\ ~initialized /\ ~deviated

StateProper ==
  /\ dstate.kind = "root" => dstate = Root
  /\ dstate.kind = "setup" => dstate.idx \in Exports
  /\ status = "boot" => dstate = Root
  /\ status = "boot" /\ stack # <<>> => stack[1].kind = "start"

Coupling ==
  /\ StateProper
  /\ NextIs("diagnostic") => Due # <<>>
  /\ recording = "foreign" => AtBoot("foreign_inst") \/ status = "panicked"
  /\ Live /\ recording # "foreign" =>
       IF initialized THEN Coupled
       ELSE recording = "live" /\ AtBoot("inst") /\ Agree /\ Matched
  /\ status = "panicked" =>
       \/ recording \in {"torn", "foreign"}
       \/ recording = "live" /\ trace # <<>> /\ deviated
  /\ status = "done" =>
       recording = "closed" /\ stack = <<>> /\ dstate = Root /\ ~deviated
  /\ status # "diverged"

----------------------------------------------------------------------------
(* What is next, by what the trace and the script begin with.              *)

Sound == recording = "live" /\ Matched /\ ~deviated
Validating == recording = "live" /\ validated /\ status = "running"

(* Popping what was pushed.                                                *)
LEMMA PushPop ==
  ASSUME NEW S, NEW x \in S, NEW s \in Seq(S)
  PROVE  /\ Push(x, s) \in Seq(S) /\ Push(x, s) # <<>>
         /\ Head(Push(x, s)) = x /\ Tail(Push(x, s)) = s
<1> DEFINE up == Push(x, s)
<1>1. /\ up \in Seq(S) /\ up # <<>> /\ Len(up) = Len(s) + 1 /\ up[1] = x
      /\ \A k \in 1..Len(s) : up[k + 1] = s[k]
  BY PushFacts
<1> HIDE DEF up
<1>2. /\ Head(up) = x /\ Tail(up) \in Seq(S) /\ Len(Tail(up)) = Len(up) - 1
      /\ \A k \in 1..(Len(up) - 1) : Tail(up)[k] = up[k + 1]
  BY <1>1, PopFacts
<1>3. Len(s) \in Nat /\ Len(Tail(up)) = Len(s)
  BY <1>1, <1>2, LenProperties
<1>4. \A k \in 1..Len(Tail(up)) : Tail(up)[k] = s[k]
  BY <1>1, <1>2, <1>3
<1>5. Tail(up) = s
  BY <1>2, <1>3, <1>4, SeqEqual
<1> QED
  BY <1>1, <1>2, <1>5 DEF up

LEMMA ValidationIs ==
  ASSUME NEW e
  PROVE  Validation(e) = <<>> \/ (validated /\ Validation(e) = <<e>>)
BY DEF Validation

LEMMA EventTags ==
  /\ InStep => Due = <<>>
  /\ \A f : AfterBegin(f) => Due # <<>> /\ Head(Due).ev = "begin"
  /\ \A f : AfterPostReturn(f) => Due # <<>> /\ Head(Due).ev = "post_return"
  /\ \A e : AfterLower(e) => Due # <<>> /\ Head(Due).ev = e
  /\ \A v : AfterRealloc(v) => Due # <<>> /\ Head(Due).ev = "realloc"
  /\ \A v : AfterReallocReturn(v) => Due = <<>> \/ Head(Due).ev = "realloc_return"
  /\ \A v : AfterWrite(v) => Due # <<>> /\ Head(Due).ev = "write"
  /\ \A v : AfterEntry(v) => Due # <<>> /\ Head(Due).ev = "entry"
  /\ \A v : AfterExit(v) => Due = <<>> \/ Head(Due).ev = "wasm_return"
  /\ \A v : AfterGrow(v) => Due # <<>> /\ Head(Due).ev = "grow"
  /\ \A k : AfterLeave(k) => Due = <<>>
  /\ \A e, v : AfterHostReturn(e, v) =>
       Due # <<>> /\ Head(Due).ev \in {"host_return", "host_return_empty"}
  /\ AfterDtorReturn => Due = <<>>
  /\ \A v : CheckExit(v) => Due # <<>> /\ Head(Due).ev = "wasm_return"
  /\ \A e, v : CheckEntry(e, v) => Due # <<>> /\ Head(Due).ev = e
  /\ \A v : CheckRealloc(v) => Due # <<>> /\ Head(Due).ev = "realloc_return"
<1> USE DEF Left, Event
<1>1. /\ InStep => Due = <<>>
      /\ \A f : AfterBegin(f) => Due # <<>> /\ Head(Due).ev = "begin"
      /\ \A f : AfterPostReturn(f) => Due # <<>> /\ Head(Due).ev = "post_return"
      /\ \A e : AfterLower(e) => Due # <<>> /\ Head(Due).ev = e
      /\ \A v : AfterRealloc(v) => Due # <<>> /\ Head(Due).ev = "realloc"
  BY DEF InStep, AfterBegin, AfterPostReturn, AfterLower, AfterRealloc
<1>2. /\ \A v : AfterReallocReturn(v) => Due = <<>> \/ Head(Due).ev = "realloc_return"
      /\ \A v : AfterExit(v) => Due = <<>> \/ Head(Due).ev = "wasm_return"
  BY DEF AfterReallocReturn, AfterExit, Validation
<1>3. /\ \A v : AfterWrite(v) => Due # <<>> /\ Head(Due).ev = "write"
      /\ \A v : AfterEntry(v) => Due # <<>> /\ Head(Due).ev = "entry"
      /\ \A v : AfterGrow(v) => Due # <<>> /\ Head(Due).ev = "grow"
      /\ \A k : AfterLeave(k) => Due = <<>>
      /\ AfterDtorReturn => Due = <<>>
  BY DEF AfterWrite, AfterEntry, AfterGrow, AfterLeave, AfterDtorReturn
<1>4. \A e, v : AfterHostReturn(e, v) =>
         Due # <<>> /\ Head(Due).ev \in {"host_return", "host_return_empty"}
  BY DEF AfterHostReturn
<1>5. /\ \A v : CheckExit(v) => Due # <<>> /\ Head(Due).ev = "wasm_return"
      /\ \A e, v : CheckEntry(e, v) => Due # <<>> /\ Head(Due).ev = e
      /\ \A v : CheckRealloc(v) => Due # <<>> /\ Head(Due).ev = "realloc_return"
  BY DEF CheckExit, CheckEntry, CheckRealloc
<1> QED
  BY <1>1, <1>2, <1>3, <1>4, <1>5

LEMMA CallTag ==
  ASSUME NEW i, NEW v, AfterCall(i, v)
  PROVE  Due = <<>> \/ Head(Due).ev \in {"host_entry", "builtin_entry"}
BY DEF AfterCall, Left, Validation, Event, CallKind, EntryEvent

LEMMA BuiltinTag ==
  ASSUME NEW rep, AfterBuiltinReturn(rep) \/ AfterGuestDtor(rep) \/ AfterHostDtor(rep)
  PROVE  Due # <<>> /\ Head(Due).ev = "builtin_return"
<1>1. ASSUME NEW checks, AfterBuiltin(rep, checks)
      PROVE  Due # <<>> /\ Head(Due).ev = "builtin_return"
  BY <1>1 DEF AfterBuiltin, Event
<1> QED
  BY <1>1 DEF AfterBuiltinReturn, AfterGuestDtor, AfterHostDtor

LEMMA EndTags ==
  /\ Torn => Due # <<>> /\ Head(Due).ev = "read_error"
  /\ Finished => Due # <<>> /\ Head(Due).ev = "eof"
BY DEF Torn, Finished, Left, Event

(* By the next event.                                                      *)
LEMMA Expected ==
  ASSUME Coupled, Due # <<>>
  PROVE  LET ev == Head(Due).ev IN
    /\ ev \in {"begin", "entry", "post_return", "lower_entry", "lower_return",
               "realloc", "write", "grow", "host_return", "host_return_empty",
               "builtin_return", "eof", "read_error", "wasm_return",
               "realloc_return", "host_entry", "builtin_entry"}
    /\ ev = "begin" => Sound /\ \E f \in Exports : AfterBegin(f)
    /\ ev = "entry" => Sound /\ \E v \in Args : AfterEntry(v)
    /\ ev = "post_return" => Sound /\ \E f \in Exports : AfterPostReturn(f)
    /\ ev \in {"lower_entry", "lower_return"} => Sound /\ AfterLower(ev)
    /\ ev = "realloc" => Sound /\ \E v \in Args : AfterRealloc(v)
    /\ ev = "write" => Sound /\ \E v \in Args : AfterWrite(v)
    /\ ev = "grow" => Sound /\ \E v \in Args : AfterGrow(v)
    /\ ev \in {"host_return", "host_return_empty"} =>
         Sound /\ \E e \in EventSet, v \in Args : AfterHostReturn(e, v)
    /\ ev = "builtin_return" => Sound /\ \E rep \in U32 \cup {None} :
         AfterBuiltinReturn(rep) \/ AfterGuestDtor(rep) \/ AfterHostDtor(rep)
    /\ ev = "eof" => Finished
    /\ ev = "read_error" => Torn
    /\ ev = "wasm_return" =>
         \/ Sound /\ \E v \in Args : AfterExit(v)
         \/ Validating /\ Matched /\ \E v \in Args : CheckExit(v)
    /\ ev = "realloc_return" =>
         \/ Sound /\ \E v \in Args : AfterReallocReturn(v)
         \/ Validating /\ \E v \in Args : CheckRealloc(v)
    /\ ev \in {"host_entry", "builtin_entry"} =>
         \/ Sound /\ \E i \in Imports, v \in Args : AfterCall(i, v)
         \/ Validating /\ Matched /\ \E v \in Args : CheckEntry(ev, v)
<1>1. CASE recording = "live" /\ Matched /\ ~deviated /\ Recorded
  BY <1>1, EventTags, CallTag, BuiltinTag DEF Recorded, Sound
<1>2. CASE recording = "live" /\ Matched /\ validated /\ status = "running" /\ Checked
  BY <1>2, EventTags DEF Checked, Validating
<1>3. CASE /\ recording = "live" /\ validated /\ status = "running"
           /\ \E v \in Args : CheckRealloc(v)
  BY <1>3, EventTags DEF Validating
<1>4. CASE Torn \/ Finished
  BY <1>4, EndTags
<1> QED
  BY <1>1, <1>2, <1>3, <1>4 DEF Coupled

(* By the next step of the guest.                                          *)
LEMMA StepTags ==
  /\ InStep => script = <<>>
  /\ \A f : AfterBegin(f) => script = <<>>
  /\ \A f : AfterPostReturn(f) => script = <<>> \/ Head(script).op = "post"
  /\ \A e : AfterLower(e) => script = <<>>
  /\ \A v : AfterRealloc(v) => Head(script).op = "realloc"
  /\ \A v : AfterReallocReturn(v) => Head(script).op = "realloc_done"
  /\ \A v : AfterWrite(v) => Head(script).op = "write"
  /\ \A v : AfterEntry(v) => Head(script).op = "enter"
  /\ \A v : AfterExit(v) => Head(script).op = "exit"
  /\ \A v : AfterGrow(v) => Head(script).op = "grow"
  /\ \A k : AfterLeave(k) => Head(script).op = DoneOp[k]
  /\ \A i, v : AfterCall(i, v) => Head(script).op = "call"
  /\ \A e, v : AfterHostReturn(e, v) => Head(script).op = "ret"
  /\ \A r : AfterBuiltinReturn(r) => Head(script).op = "ret"
  /\ \A r : AfterGuestDtor(r) => Head(script).op = "dtor"
  /\ \A r : AfterHostDtor(r) => script = <<>>
  /\ AfterDtorReturn => Head(script).op = "dtor_done"
  /\ \A v : CheckExit(v) \/ CheckRealloc(v) => script = <<>>
  /\ \A e, v : CheckEntry(e, v) => script = <<>>
  /\ Torn \/ Finished => script = <<>>
<1> USE DEF Left, Step
<1>1. /\ InStep => script = <<>>
      /\ \A f : AfterBegin(f) => script = <<>>
      /\ \A f : AfterPostReturn(f) => script = <<>> \/ Head(script).op = "post"
      /\ \A e : AfterLower(e) => script = <<>>
      /\ \A v : AfterRealloc(v) => Head(script).op = "realloc"
      /\ \A v : AfterReallocReturn(v) => Head(script).op = "realloc_done"
      /\ \A v : AfterWrite(v) => Head(script).op = "write"
  BY DEF InStep, AfterBegin, AfterPostReturn, AfterLower, AfterRealloc,
         AfterReallocReturn, AfterWrite, Given
<1>2. /\ \A v : AfterEntry(v) => Head(script).op = "enter"
      /\ \A v : AfterExit(v) => Head(script).op = "exit"
      /\ \A v : AfterGrow(v) => Head(script).op = "grow"
      /\ \A k : AfterLeave(k) => Head(script).op = DoneOp[k]
      /\ \A i, v : AfterCall(i, v) => Head(script).op = "call"
  BY DEF AfterEntry, AfterExit, AfterGrow, AfterLeave, AfterCall
<1>3. /\ \A e, v : AfterHostReturn(e, v) => Head(script).op = "ret"
      /\ \A r : AfterBuiltinReturn(r) => Head(script).op = "ret"
      /\ \A r : AfterGuestDtor(r) => Head(script).op = "dtor"
      /\ \A r : AfterHostDtor(r) => script = <<>>
      /\ AfterDtorReturn => Head(script).op = "dtor_done"
  BY DEF AfterHostReturn, AfterBuiltinReturn, AfterGuestDtor, AfterHostDtor,
         AfterDtorReturn
<1>4. /\ \A v : CheckExit(v) \/ CheckRealloc(v) => script = <<>>
      /\ \A e, v : CheckEntry(e, v) => script = <<>>
      /\ Torn \/ Finished => script = <<>>
  BY DEF CheckExit, CheckEntry, CheckRealloc, Torn, Finished
<1> QED
  BY <1>1, <1>2, <1>3, <1>4

LEMMA Acting ==
  ASSUME Coupled, script # <<>>
  PROVE  LET op == Head(script).op IN
    /\ Sound
    /\ op = "call" => \E i \in Imports, v \in Args : AfterCall(i, v)
    /\ op = "exit" => \E v \in Args : AfterExit(v)
    /\ op = "realloc_done" => \E v \in Args : AfterReallocReturn(v)
    /\ op = "grow" => \E v \in Args : AfterGrow(v)
    /\ op = "start_done" => AfterLeave("start")
    /\ op = "post_done" => AfterLeave("post")
    /\ op = "dtor_done" => AfterDtorReturn
<1>1. CASE recording = "live" /\ Matched /\ ~deviated /\ Recorded
  <2>1. DoneOp["start"] = "start_done" /\ DoneOp["post"] = "post_done"
    BY DEF DoneOp
  <2> QED
    BY <1>1, <2>1, StepTags DEF Recorded, Sound
<1>2. CASE ~(recording = "live" /\ Matched /\ ~deviated /\ Recorded)
  BY <1>2, StepTags DEF Coupled, Checked
<1> QED
  BY <1>1, <1>2

----------------------------------------------------------------------------
(* The recorder.                                                           *)

LEMMA SyncedFacts ==
  ASSUME DriverInv, Coupling, Synced
  PROVE  /\ Live /\ initialized /\ Sound /\ Agree /\ StateProper
         /\ trace = <<>> /\ script = <<>>
<1>1. /\ recording = "live" /\ trace = <<>> /\ script = <<>>
      /\ status \in Statuses
  BY SplitInv DEF Synced, ReplayInv, ReplayTypeOK
<1>2. Live
  BY <1>1 DEF Coupling, Live, Statuses
<1>3. initialized
  BY <1>1, <1>2 DEF Coupling, AtBoot
<1>4. Coupled /\ Due = <<>>
  BY <1>1, <1>2, <1>3 DEF Coupling, Due, NextIs
<1>5. Sound /\ InStep
  <2>1. DoneOp["start"] = "start_done" /\ DoneOp["post"] = "post_done"
    BY DEF DoneOp
  <2>2. ~Torn /\ ~Finished /\ ~Checked /\ \A v : ~CheckRealloc(v)
    BY <1>4, EventTags, EndTags DEF Checked
  <2>3. recording = "live" /\ Matched /\ ~deviated /\ Recorded
    BY <1>4, <2>2 DEF Coupled
  <2>4. \A k \in {"start", "post"} : ~AfterLeave(k)
    BY <1>1 DEF AfterLeave, Left
  <2>5. \A v : ~AfterReallocReturn(v) /\ ~AfterExit(v)
    BY <1>1 DEF AfterReallocReturn, AfterExit, Left
  <2>6. \A i, v : ~AfterCall(i, v)
    BY <1>1 DEF AfterCall, Left
  <2>7. ~AfterDtorReturn
    BY <1>1 DEF AfterDtorReturn, Left
  <2> QED
    BY <1>4, <2>3, <2>4, <2>5, <2>6, <2>7, EventTags, BuiltinTag DEF Recorded, Sound
<1> QED
  BY <1>1, <1>2, <1>3, <1>5 DEF InStep, Coupling

LEMMA WriteDue ==
  ASSUME NEW events \in Seq(EventSet),
         events = <<>> \/ Head(events).ev # "diagnostic", Write(events)
  PROVE  Due' = events /\ (NextIs("diagnostic")' => Due' # <<>>)
<1>1. CASE trace' = events
  BY <1>1 DEF Due, NextIs
<1>2. CASE trace' # events
  <2>1. trace' = Push(Diagnostic, events) /\ events # <<>>
    BY <1>2 DEF Write, Push
  <2>2. Diagnostic \in EventSet /\ Diagnostic.ev = "diagnostic"
    BY EventType DEF Diagnostic, Event, EventSet, EventKinds
  <2>3. trace' # <<>> /\ Head(trace') = Diagnostic /\ Tail(trace') = events
    BY <2>1, <2>2, PushPop
  <2> QED
    BY <2>1, <2>2, <2>3 DEF Due, NextIs
<1> QED
  BY <1>1, <1>2

(* What a step of the recorder finds, and what it leaves alone.            *)
LEMMA RecordFacts ==
  ASSUME DriverInv, Coupling, UNCHANGED deviated, NEW events \in Seq(EventSet),
         NEW steps, events = <<>> \/ Head(events).ev # "diagnostic",
         Record(events, steps)
  PROVE  /\ Live /\ initialized /\ Sound /\ Agree /\ StateProper
         /\ UNCHANGED <<validated, recording, status, dstate, backing, initialized,
                        stack, reallocs, postArgs, deviated>>
         /\ Due' = events /\ script' = steps /\ (NextIs("diagnostic")' => Due' # <<>>)
         /\ ReplayLowering' = ReplayLowering
         /\ ReplayLowers' = ReplayLowers
<1>1. Synced /\ Write(events) /\ script' = steps
      /\ UNCHANGED <<validated, recording, status, dstate, backing, initialized,
                     stack, reallocs, postArgs, deviated>>
  BY DEF Record, globalVars, localVars
<1>2. /\ ReplayLowering' = ReplayLowering
      /\ ReplayLowers' = ReplayLowers
  BY <1>1 DEF ReplayLowering, LoweringIn, ReplayLowers, Innermost
<1> QED
  BY <1>1, <1>2, SyncedFacts, WriteDue DEF Left

LEMMA RecordCoupled ==
  ASSUME DriverInv, Coupling, UNCHANGED deviated, NEW events \in Seq(EventSet),
         NEW steps, events = <<>> \/ Head(events).ev # "diagnostic",
         Record(events, steps), Recorded'
  PROVE  Coupling'
<1>1. /\ Live /\ initialized /\ Sound /\ StateProper
      /\ UNCHANGED <<validated, recording, status, dstate, backing, initialized,
                     stack, reallocs, postArgs, deviated>>
      /\ NextIs("diagnostic")' => Due' # <<>>
  BY RecordFacts
<1>2. StateProper' /\ Matched' /\ Live'
  BY <1>1 DEF StateProper, Matched, Sound, Live
<1>3. Coupled'
  BY <1>1, <1>2 DEF Coupled, Sound
<1> QED
  BY <1>1, <1>2, <1>3 DEF Coupling, Live, Sound

LEMMA Single ==
  ASSUME NEW x
  PROVE  <<x>> # <<>> /\ Head(<<x>>) = x /\ Tail(<<x>>) = <<>>
OBVIOUS

LEMMA OneEvent ==
  ASSUME NEW k \in EventKinds \ {"diagnostic"}, NEW i \in Exports \cup {None},
         NEW v \in Args \cup {None}
  PROVE  /\ <<Event(k, i, v)>> \in Seq(EventSet)
         /\ Head(<<Event(k, i, v)>>).ev # "diagnostic"
         /\ Validation(Event(k, i, v)) \in Seq(EventSet)
         /\ \/ Validation(Event(k, i, v)) = <<>>
            \/ Head(Validation(Event(k, i, v))).ev # "diagnostic"
BY EventType DEF Validation, Event

(* What the recorder lowers for is what the driver does.                   *)
LEMMA SameLowering ==
  ASSUME DriverInv, StateProper, Agree, Lowers
  PROVE  ReplayLowers /\ LowerDir = DriverDir(dstate) /\ LowerIdx = dstate.idx
<1>1. CASE stack = <<>>
  <2>1. lowering # None /\ lowering = LoweringIn(stack, dstate)
    BY <1>1 DEF Lowers, Innermost, Agree, ReplayLowering
  <2>2. dstate.kind = "setup" /\ lowering = dstate.idx
    BY <2>1 DEF LoweringIn
  <2> QED
    BY <1>1, <2>2 DEF ReplayLowers, LowerDir, LowerIdx, DriverDir, Agree
<1>2. CASE stack # <<>>
  <2>1. Innermost(stack, {"host"}) /\ frames # <<>> /\ Head(frames) = Head(stack)
    BY <1>2 DEF Lowers, Agree
  <2>2. ReplayTypeOK /\ Context
    BY SplitInv DEF ReplayInv
  <2>3. dstate = HostCall(Head(stack).idx)
    BY <2>1, <2>2, InnermostFacts DEF Context, InHost
  <2> QED
    BY <2>1, <2>3 DEF ReplayLowers, LowerDir, LowerIdx, DriverDir, HostCall
<1> QED
  BY <1>1, <1>2

(* Between steps, a recorded run that is idle has a driver in Root.        *)
LEMMA IdleRoot ==
  ASSUME DriverInv, StateProper, Agree, Idle
  PROVE  stack = <<>> /\ dstate = Root
<1>1. stack = <<>> /\ LoweringIn(stack, dstate) = None
  BY DEF Agree, Idle, ReplayLowering
<1>2. dstate.kind \in {"root", "setup"} /\ None \notin Exports
  BY <1>1, IndexAssumption DEF DriverInv, Context
<1> QED
  BY <1>1, <1>2 DEF LoweringIn, StateProper

LEMMA RecordedExports ==
  ASSUME DriverInv, Coupling, UNCHANGED deviated, NEW f \in Exports
  PROVE  RecBegin(f) \/ RecPostReturn(f) => Coupling'
<1> USE DEF EventKinds
<1>1. ASSUME RecBegin(f) PROVE Coupling'
  <2> DEFINE events == <<Event("begin", f, None)>>
  <2>1. Begin(f) /\ Record(events, <<>>)
    BY <1>1 DEF RecBegin
  <2>2. events \in Seq(EventSet) /\ Head(events).ev # "diagnostic"
    BY OneEvent
  <2>3. /\ Agree /\ StateProper /\ Due' = events /\ script' = <<>>
        /\ UNCHANGED <<dstate, stack, postArgs>>
    BY <2>1, <2>2, RecordFacts
  <2>4. stack = <<>> /\ dstate = Root /\ frames = <<>> /\ owed[f] = None
    BY <2>1, <2>3, IdleRoot DEF Begin, Agree
  <2>5. AfterBegin(f)'
    BY <2>1, <2>3, <2>4 DEF AfterBegin, Left, Begin, Agree
  <2> QED
    BY <2>1, <2>2, <2>5, RecordCoupled DEF Recorded
<1>2. ASSUME RecPostReturn(f) PROVE Coupling'
  <2> DEFINE events == <<Event("post_return", f, None)>>
             steps == IF f \in Posts THEN <<Step("post", "export", f, owed[f])>> ELSE <<>>
  <2>1. PostReturn(f) /\ Record(events, steps)
    BY <1>2 DEF RecPostReturn
  <2>2. events \in Seq(EventSet) /\ Head(events).ev # "diagnostic"
    BY OneEvent
  <2>3. /\ Agree /\ StateProper /\ Due' = events /\ script' = steps
        /\ UNCHANGED <<dstate, stack, postArgs>>
    BY <2>1, <2>2, RecordFacts
  <2>4. stack = <<>> /\ dstate = Root /\ owed = postArgs
    BY <2>1, <2>3, IdleRoot DEF PostReturn, Agree
  <2>5. AfterPostReturn(f)'
    BY <2>1, <2>3, <2>4 DEF AfterPostReturn, Left, PostReturn, Idle
  <2> QED
    BY <2>1, <2>2, <2>5, RecordCoupled DEF Recorded
<1> QED
  BY <1>1, <1>2

LEMMA RecordedLowering ==
  ASSUME DriverInv, Coupling, UNCHANGED deviated, NEW v \in Args
  PROVE  /\ \A ev \in {"lower_entry", "lower_return"} : RecLower(ev) => Coupling'
         /\ RecRealloc(v) \/ RecReallocReturn(v) \/ RecWrite(v) => Coupling'
<1> USE DEF EventKinds
<1>1. ASSUME NEW ev \in {"lower_entry", "lower_return"}, RecLower(ev)
      PROVE  Coupling'
  <2> DEFINE events == <<Event(ev, None, None)>>
  <2>1. Lowers /\ Record(events, <<>>) /\ UNCHANGED execVars
    BY <1>1 DEF RecLower
  <2>2. events \in Seq(EventSet) /\ Head(events).ev # "diagnostic"
    BY OneEvent
  <2>3. /\ Agree /\ StateProper /\ Due' = events /\ script' = <<>>
        /\ UNCHANGED <<stack, postArgs>> /\ ReplayLowering' = ReplayLowering
        /\ ReplayLowers' = ReplayLowers
    BY <2>1, <2>2, RecordFacts
  <2>4. AfterLower(ev)'
    BY <2>1, <2>3, SameLowering DEF AfterLower, Left, Agree, execVars
  <2> QED
    BY <2>1, <2>2, <2>4, RecordCoupled DEF Recorded
<1>2. ASSUME RecRealloc(v) PROVE Coupling'
  <2> DEFINE events == <<Event("realloc", None, v)>>
             steps == <<Step("realloc", LowerDir, LowerIdx, v)>>
  <2>1. Realloc /\ Record(events, steps)
    BY <1>2 DEF RecRealloc
  <2>2. events \in Seq(EventSet) /\ Head(events).ev # "diagnostic"
    BY OneEvent
  <2>3. /\ Agree /\ StateProper /\ Due' = events /\ script' = steps
        /\ UNCHANGED <<dstate, stack, postArgs>> /\ ReplayLowering' = ReplayLowering
        /\ ReplayLowers' = ReplayLowers
    BY <2>1, <2>2, RecordFacts
  <2>4. /\ ReplayLowers /\ steps = <<Given("realloc", v)>>
        /\ Given("realloc", v)' = Given("realloc", v)
    BY <2>1, <2>3, SameLowering DEF Given, Realloc
  <2>5. AfterRealloc(v)'
    BY <2>1, <2>3, <2>4 DEF AfterRealloc, Entering, Realloc, Agree, Left
  <2> QED
    BY <2>1, <2>2, <2>5, RecordCoupled DEF Recorded
<1>3. ASSUME RecReallocReturn(v) PROVE Coupling'
  <2> DEFINE events == Validation(Event("realloc_return", None, v))
             steps == <<Step("realloc_done", "none", None, v)>>
  <2>1. Leave({"realloc"}) /\ Record(events, steps)
    BY <1>3 DEF RecReallocReturn
  <2>2. events \in Seq(EventSet) /\ (events = <<>> \/ Head(events).ev # "diagnostic")
    BY OneEvent
  <2>3. /\ Agree /\ Due' = events /\ script' = steps /\ validated' = validated
        /\ UNCHANGED <<stack, postArgs>> /\ ReplayLowering' = ReplayLowering
    BY <2>1, <2>2, RecordFacts
  <2>4. AfterReallocReturn(v)'
    BY <2>1, <2>3
       DEF AfterReallocReturn, Left, Leaving, Leave, Agree, Validation, Innermost
  <2> QED
    BY <2>1, <2>2, <2>4, RecordCoupled DEF Recorded
<1>4. ASSUME RecWrite(v) PROVE Coupling'
  <2> DEFINE events == <<Event("write", None, v)>>
             steps == <<Step("write", LowerDir, LowerIdx, v)>>
  <2>1. Lowers /\ Record(events, steps) /\ UNCHANGED execVars
    BY <1>4 DEF RecWrite
  <2>2. events \in Seq(EventSet) /\ Head(events).ev # "diagnostic"
    BY OneEvent
  <2>3. /\ Agree /\ StateProper /\ Due' = events /\ script' = steps
        /\ UNCHANGED <<dstate, stack, postArgs>> /\ ReplayLowering' = ReplayLowering
        /\ ReplayLowers' = ReplayLowers
    BY <2>1, <2>2, RecordFacts
  <2>4. /\ ReplayLowers /\ steps = <<Given("write", v)>>
        /\ Given("write", v)' = Given("write", v)
    BY <2>1, <2>3, SameLowering DEF Given
  <2>5. AfterWrite(v)'
    BY <2>1, <2>3, <2>4 DEF AfterWrite, Agree, execVars, Left
  <2> QED
    BY <2>1, <2>2, <2>5, RecordCoupled DEF Recorded
<1> QED
  BY <1>1, <1>2, <1>3, <1>4

LEMMA RecordedCode ==
  ASSUME DriverInv, Coupling, UNCHANGED deviated, NEW v \in Args
  PROVE  /\ RecEntry(v) \/ RecExit(v) \/ RecGrow(v) => Coupling'
         /\ \A k \in {"start", "post"} : RecLeave(k) => Coupling'
<1> USE DEF EventKinds
<1>1. ASSUME RecEntry(v) PROVE Coupling'
  <2> DEFINE events == <<Event("entry", None, v)>>
             steps == <<Step("enter", "export", lowering, v)>>
  <2>1. Enter /\ Record(events, steps)
    BY <1>1 DEF RecEntry
  <2>2. events \in Seq(EventSet) /\ Head(events).ev # "diagnostic"
    BY OneEvent
  <2>3. /\ Agree /\ Due' = events /\ script' = steps
        /\ UNCHANGED <<dstate, stack, postArgs>>
    BY <2>1, <2>2, RecordFacts
  <2>4. stack = <<>> /\ dstate.kind = "setup" /\ lowering = dstate.idx /\ owed = postArgs
    BY <2>1, <2>3 DEF Agree, Enter, ReplayLowering, LoweringIn
  <2>5. AfterEntry(v)'
    BY <2>1, <2>3, <2>4 DEF AfterEntry, Left, Enter
  <2> QED
    BY <2>1, <2>2, <2>5, RecordCoupled DEF Recorded
<1>2. ASSUME RecExit(v) PROVE Coupling'
  <2> DEFINE events == Validation(Event("wasm_return", None, v))
             steps == <<Step("exit", "export", Head(frames).idx, v)>>
  <2>1. Exit(v) /\ Record(events, steps)
    BY <1>2 DEF RecExit
  <2>2. events \in Seq(EventSet) /\ (events = <<>> \/ Head(events).ev # "diagnostic")
    BY OneEvent
  <2>3. /\ Agree /\ Due' = events /\ script' = steps /\ validated' = validated
        /\ UNCHANGED <<stack, postArgs>> /\ ReplayLowering' = ReplayLowering
    BY <2>1, <2>2, RecordFacts
  <2>4. AfterExit(v)'
    BY <2>1, <2>3 DEF AfterExit, Left, Leaving, Exit, Agree, Validation, Innermost
  <2> QED
    BY <2>1, <2>2, <2>4, RecordCoupled DEF Recorded
<1>3. ASSUME RecGrow(v) PROVE Coupling'
  <2> DEFINE events == <<Event("grow", None, v)>>
             steps == <<Step("grow", "none", None, None), Step("grown", "none", None, v)>>
  <2>1. Innermost(frames, GuestKinds) /\ Record(events, steps) /\ UNCHANGED execVars
    BY <1>3 DEF RecGrow
  <2>2. events \in Seq(EventSet) /\ Head(events).ev # "diagnostic"
    BY OneEvent
  <2>3. /\ Agree /\ Due' = events /\ script' = steps
        /\ UNCHANGED <<stack, postArgs>> /\ ReplayLowering' = ReplayLowering
    BY <2>1, <2>2, RecordFacts
  <2>4. AfterGrow(v)'
    BY <2>1, <2>3 DEF AfterGrow, Left, Agree, execVars, Innermost
  <2> QED
    BY <2>1, <2>2, <2>4, RecordCoupled DEF Recorded
<1>4. ASSUME NEW k \in {"start", "post"}, RecLeave(k) PROVE Coupling'
  <2> DEFINE steps == <<Step(DoneOp[k], "none", None, None)>>
  <2>1. Leave({k}) /\ Record(<<>>, steps) /\ <<>> \in Seq(EventSet)
    BY <1>4 DEF RecLeave
  <2>2. /\ Agree /\ Due' = <<>> /\ script' = steps
        /\ UNCHANGED <<stack, postArgs>> /\ ReplayLowering' = ReplayLowering
    BY <2>1, RecordFacts
  <2>3. AfterLeave(k)'
    BY <2>1, <2>2 DEF AfterLeave, Left, Leaving, Leave, Agree, Innermost
  <2> QED
    BY <2>1, <2>3, RecordCoupled DEF Recorded
<1> QED
  BY <1>1, <1>2, <1>3, <1>4

LEMMA RecordedCalls ==
  ASSUME DriverInv, Coupling, UNCHANGED deviated, NEW v \in Args
  PROVE  /\ \A i \in Imports : RecCall(i, v) => Coupling'
         /\ RecHostReturn(v) => Coupling'
         /\ RecDtorReturn => Coupling'
<1> USE DEF EventKinds
<1>1. ASSUME NEW i \in Imports, RecCall(i, v) PROVE Coupling'
  <2> DEFINE events == Validation(Event(EntryEvent[CallKind(i)], None, v))
             steps == <<Step("call", "import", i, v)>>
  <2>1. Call(i) /\ Record(events, steps)
    BY <1>1 DEF RecCall
  <2>2. EntryEvent[CallKind(i)] \in {"host_entry", "builtin_entry"}
    BY DEF EntryEvent, CallKind
  <2>3. events \in Seq(EventSet) /\ (events = <<>> \/ Head(events).ev # "diagnostic")
    BY <2>2, OneEvent
  <2>4. /\ Agree /\ Due' = events /\ script' = steps /\ validated' = validated
        /\ UNCHANGED <<stack, postArgs>> /\ ReplayLowering' = ReplayLowering
    BY <2>1, <2>3, RecordFacts
  <2>5. AfterCall(i, v)'
    BY <2>1, <2>4 DEF AfterCall, Left, Entering, Call, Agree, Validation, Innermost
  <2> QED
    BY <2>1, <2>3, <2>5, RecordCoupled DEF Recorded
<1>2. ASSUME RecHostReturn(v) PROVE Coupling'
  <2> DEFINE steps == <<Step("ret", "import", Head(frames).idx, v)>>
  <2>1. PICK e \in {Event("host_return", None, v)}
                \cup (IF v = NoArgs THEN {Event("host_return_empty", None, None)} ELSE {}) :
          Record(<<e>>, steps)
    BY <1>2 DEF RecHostReturn
  <2>2. HostReturn /\ (Head(frames).kind = "hdtor" => v = NoArgs)
    BY <1>2 DEF RecHostReturn
  <2>3. /\ \/ e = Event("host_return", None, v)
           \/ e = Event("host_return_empty", None, None) /\ v = NoArgs
        /\ e \in EventSet /\ <<e>> \in Seq(EventSet) /\ Head(<<e>>).ev # "diagnostic"
    <3>1. \/ e = Event("host_return", None, v)
          \/ e = Event("host_return_empty", None, None) /\ v = NoArgs
      BY <2>1
    <3> QED
      BY <3>1, OneEvent, EventType
  <2>4. /\ Agree /\ Due' = <<e>> /\ script' = steps
        /\ UNCHANGED <<stack, postArgs>> /\ ReplayLowering' = ReplayLowering
    BY <2>1, <2>3, RecordFacts
  <2>5. AfterHostReturn(e, v)'
    BY <2>2, <2>3, <2>4 DEF AfterHostReturn, Left, Leaving, HostReturn, Agree, Innermost
  <2> QED
    BY <2>1, <2>3, <2>5, RecordCoupled DEF Recorded
<1>3. ASSUME RecDtorReturn PROVE Coupling'
  <2> DEFINE steps == <<Step("dtor_done", "none", None, None),
                        Step("ret", "import", Head(frames).idx, NoArgs)>>
  <2>1. Leave({"dtor"}) /\ Record(<<>>, steps) /\ <<>> \in Seq(EventSet)
    BY <1>3 DEF RecDtorReturn
  <2>2. /\ Agree /\ Due' = <<>> /\ script' = steps
        /\ UNCHANGED <<stack, postArgs>> /\ ReplayLowering' = ReplayLowering
    BY <2>1, RecordFacts
  <2>3. AfterDtorReturn'
    BY <2>1, <2>2 DEF AfterDtorReturn, Left, Leaving, Leave, Agree, Innermost
  <2> QED
    BY <2>1, <2>3, RecordCoupled DEF Recorded
<1> QED
  BY <1>1, <1>2, <1>3

LEMMA RecordedBuiltin ==
  ASSUME DriverInv, Coupling, UNCHANGED deviated, NEW rep \in U32 \cup {None},
         RecBuiltinReturn(rep)
  PROVE  Coupling'
<1> DEFINE i == Head(frames).idx
           dtor == DtorFrames(i, rep)
           ret == Event("builtin_return", None, rep)
           again == Validation(Event("host_entry", None, rep))
           res == IF Kind[i] = "value" THEN rep ELSE NoArgs
<1>1. BuiltinReturn(rep) /\ frames # <<>> /\ Head(frames).kind = "builtin"
  BY DEF RecBuiltinReturn, BuiltinReturn, Innermost
<1>2. i \in Exports \cup Imports \cup {None}
  <2>1. Head(frames) \in FrameSet
    BY <1>1, PopFacts DEF DriverInv, DriverTypeOK, ExecTypeOK
  <2> QED
    BY <2>1 DEF FrameSet
<1>3. \/ dtor = <<>>
      \/ dtor = <<Frame("dtor", i)>> /\ Kind[i] = "guest_dtor"
      \/ dtor = <<Frame("hdtor", i)>> /\ Kind[i] = "host_dtor"
  BY <1>2, DtorFramesFacts
<1>4. /\ <<ret>> \in Seq(EventSet) /\ <<ret>> # <<>>
      /\ Head(<<ret>>) = ret /\ Tail(<<ret>>) = <<>>
      /\ again \in Seq(EventSet)
  <2>1. ret \in EventSet /\ <<ret>> \in Seq(EventSet) /\ again \in Seq(EventSet)
    BY EventType DEF EventKinds, U32
  <2> QED
    BY <2>1, Single
<1>5. /\ Push(ret, again) \in Seq(EventSet)
      /\ Push(ret, again) # <<>>
      /\ Head(Push(ret, again)) = ret /\ Tail(Push(ret, again)) = again
      /\ ret.ev # "diagnostic"
  <2>1. ret \in EventSet
    BY EventType DEF EventKinds, U32
  <2> QED
    BY <1>4, <2>1, PushPop DEF Event
<1> HIDE DEF i, dtor, ret, again, res
<1>6. ASSUME NEW events \in Seq(EventSet), NEW steps, Record(events, steps),
             events # <<>>, Head(events) = ret, NEW checks, Tail(events) = checks
      PROVE  /\ script' = steps /\ UNCHANGED <<stack, validated>>
             /\ i = Head(stack).idx /\ Innermost(stack, {"builtin"})
             /\ AfterBuiltin(rep, checks)'
  <2>1. /\ Agree /\ Due' = events /\ script' = steps
        /\ UNCHANGED <<stack, postArgs, validated>>
    BY <1>5, <1>6, RecordFacts
  <2>2. stack # <<>> /\ Head(stack).kind = "builtin" /\ lowering = None
    BY <1>1, <2>1 DEF Agree, ReplayLowering, LoweringIn
  <2>3. i = Head(stack).idx
    BY <2>1 DEF Agree, i
  <2>4. /\ frames' = DtorFrames(Head(stack).idx, rep) \o Tail(stack)
        /\ rep \in BuiltinResults(Head(stack).idx)
        /\ lowering' = None /\ owed' = postArgs
    BY <1>1, <2>1, <2>2 DEF Agree, BuiltinReturn
  <2>5. AfterBuiltin(rep, checks)'
    BY <1>6, <2>1, <2>4 DEF AfterBuiltin, ret
  <2> QED
    BY <2>1, <2>2, <2>3, <2>5 DEF Innermost
<1>7. CASE dtor = <<>>
  <2>1. Record(<<ret>>, <<Step("ret", "import", i, res)>>)
    BY <1>7 DEF RecBuiltinReturn, i, dtor, ret, res
  <2>2. AfterBuiltin(rep, <<>>)'
    BY <1>4, <1>6, <2>1
  <2>3. AfterBuiltinReturn(rep)'
    BY <1>4, <1>6, <1>7, <2>1, <2>2 DEF AfterBuiltinReturn, dtor, res, Innermost
  <2> QED
    BY <1>4, <1>5, <2>1, <2>3, RecordCoupled DEF Recorded
<1>8. CASE dtor = <<Frame("dtor", i)>> /\ Kind[i] = "guest_dtor"
  <2>1. Record(<<ret>>, <<Step("dtor", "import", i, rep)>>)
    BY <1>8 DEF RecBuiltinReturn, i, dtor, ret
  <2>2. AfterBuiltin(rep, <<>>)'
    BY <1>4, <1>6, <2>1
  <2>3. AfterGuestDtor(rep)'
    BY <1>4, <1>6, <1>8, <2>1, <2>2 DEF AfterGuestDtor, dtor, Innermost
  <2> QED
    BY <1>4, <1>5, <2>1, <2>3, RecordCoupled DEF Recorded
<1>9. CASE dtor = <<Frame("hdtor", i)>> /\ Kind[i] = "host_dtor"
  <2>1. Record(Push(ret, again), <<>>)
    BY <1>9 DEF RecBuiltinReturn, Push, i, dtor, ret, again
  <2>2. PICK checks : checks = again
    OBVIOUS
  <2>3. AfterBuiltin(rep, checks)' /\ validated' = validated
    BY <1>5, <1>6, <2>1, <2>2
  <2>4. Validation(Event("host_entry", None, rep))' = checks
    BY <2>2, <2>3 DEF Validation, again
  <2>5. AfterHostDtor(rep)'
    BY <1>5, <1>6, <1>9, <2>1, <2>2, <2>3, <2>4 DEF AfterHostDtor, dtor, Innermost
  <2> QED
    BY <1>5, <2>1, <2>5, RecordCoupled DEF Recorded
<1> QED
  BY <1>3, <1>7, <1>8, <1>9

(* The recording ends.                                                     *)
LEMMA RecordedEnd ==
  ASSUME DriverInv, Coupling, UNCHANGED deviated, RecFinish \/ RecCrash
  PROVE  Coupling'
<1>1. Synced /\ UNCHANGED <<validated, status, globalVars, localVars, script>>
  BY DEF RecFinish, RecCrash
<1>2. /\ Live /\ initialized /\ Sound /\ Agree /\ StateProper
      /\ trace = <<>> /\ script = <<>>
  BY <1>1, SyncedFacts
<1>3. /\ UNCHANGED <<status, dstate, backing, initialized, stack, reallocs, postArgs>>
      /\ StateProper' /\ status \in {"boot", "running"} /\ script' = <<>>
  BY <1>1, <1>2 DEF globalVars, localVars, StateProper, Live
<1>4. CASE RecFinish
  <2> DEFINE events == <<Event("eof", None, None)>>
  <2>1. events \in Seq(EventSet) /\ Head(events).ev # "diagnostic"
    BY OneEvent DEF EventKinds
  <2>2. Due' = events /\ (NextIs("diagnostic")' => Due' # <<>>)
    BY <1>4, <2>1, WriteDue DEF RecFinish
  <2>3. Idle /\ UNCHANGED <<frames, lowering, owed>> /\ recording' = "closed"
    BY <1>4 DEF RecFinish, Finish
  <2>4. stack = <<>> /\ dstate = Root
    BY <1>2, <2>3, IdleRoot
  <2>5. Agree'
    BY <1>2, <1>3, <2>3 DEF Agree, ReplayLowering, LoweringIn
  <2>6. Finished'
    BY <1>2, <1>3, <2>2, <2>3, <2>4, <2>5 DEF Finished, Left, Sound
  <2> QED
    BY <1>2, <1>3, <2>2, <2>3, <2>6 DEF Coupling, Coupled, Live
<1>5. CASE RecCrash
  <2>1. /\ trace' = <<Event("read_error", None, None)>> /\ recording' = "torn"
        /\ ~NextIs("diagnostic")'
    BY <1>5 DEF RecCrash, NextIs, Event
  <2>2. Torn'
    BY <1>2, <1>3, <2>1 DEF Torn, Left, Due, Sound
  <2> QED
    BY <1>2, <1>3, <2>1, <2>2 DEF Coupling, Coupled, Live
<1> QED
  BY <1>4, <1>5

LEMMA RecorderCoupled ==
  ASSUME DriverInv, Coupling, UNCHANGED deviated, Recorder
  PROVE  Coupling'
<1>1. \E v : v \in Args
  BY ArgsAssumption
<1> QED
  BY <1>1, RecordedExports, RecordedLowering, RecordedCode, RecordedCalls,
     RecordedBuiltin, RecordedEnd DEF Recorder

----------------------------------------------------------------------------
(* The replay: what every step of it may rely on.                          *)

LEMMA RunningFacts ==
  ASSUME DriverInv, Coupling, Live, stack # <<>> => stack[1].kind # "start",
         stack = <<>> => status = "running"
  PROVE  /\ status = "running" /\ initialized /\ recording # "foreign"
         /\ Coupled /\ StateProper
<1>1. StateProper /\ status = "running"
  BY DEF Coupling, StateProper, Live
<1>2. recording # "foreign"
  BY <1>1 DEF Coupling, AtBoot
<1>3. initialized
  BY <1>1, <1>2 DEF Coupling, AtBoot
<1> QED
  BY <1>1, <1>2, <1>3 DEF Coupling

LEMMA LoopFacts ==
  ASSUME DriverInv, Coupling, InRunReplay \/ InHostCall \/ InBuiltinCall
  PROVE  /\ status = "running" /\ initialized /\ recording # "foreign"
         /\ Coupled /\ StateProper /\ Live
         /\ ReplayInv /\ ReplayTypeOK /\ Context
<1>1. ReplayInv /\ ReplayTypeOK /\ Context /\ Live
  BY SplitInv DEF ReplayInv, InRunReplay, InHostCall, InBuiltinCall, Live
<1>2. /\ stack # <<>> => stack[1].kind # "start"
      /\ stack = <<>> => status = "running"
  BY <1>1, InnermostFacts DEF InRunReplay, InHostCall, InBuiltinCall, Innermost
<1> QED
  BY <1>1, <1>2, RunningFacts

LEMMA ActFacts ==
  ASSUME DriverInv, Coupling, NEW kinds, NEW op, GuestDoes(kinds, op)
  PROVE  /\ Live /\ initialized /\ recording # "foreign"
         /\ Coupled /\ StateProper /\ Innermost(stack, kinds)
         /\ script # <<>> /\ Head(script).op = op
         /\ ReplayInv /\ ReplayTypeOK /\ Context
<1>1. /\ Live /\ Innermost(stack, kinds) /\ script # <<>> /\ Head(script).op = op
      /\ ReplayInv /\ ReplayTypeOK /\ Context
  BY SplitInv DEF GuestDoes, ReplayInv
<1>2. recording # "foreign" /\ initialized
  BY <1>1 DEF Coupling, AtBoot, Live
<1> QED
  BY <1>1, <1>2 DEF Coupling

(* The event that is read, and what reading it leaves.                     *)
LEMMA NextDue ==
  ASSUME NEW e \in EventKinds \ {"diagnostic"}, NextIs(e)
  PROVE  Due = trace /\ Due # <<>> /\ Head(Due).ev = e
BY DEF NextIs, Due

LEMMA ReadAll ==
  ASSUME NEW e, Due = trace, Left(<<e>>, script), Read
  PROVE  /\ Head(trace) = e /\ trace' = <<>> /\ Due' = <<>>
         /\ ~NextIs("diagnostic")'
<1>1. trace = <<e>>
  BY DEF Left
<1>2. Head(trace) = e /\ trace' = <<>>
  BY <1>1, Single DEF Read
<1> QED
  BY <1>2 DEF Due, NextIs

LEMMA Delivered ==
  ASSUME NEW step, Deliver(<<step>>, step)
  PROVE  script' = <<>> /\ status' = status
BY Single DEF Deliver

(* What a step of the replay must leave.                                   *)
LEMMA CoupledStays ==
  ASSUME Live, recording # "foreign", initialized,
         UNCHANGED <<recording, initialized, status>>,
         StateProper', (NextIs("diagnostic") => Due # <<>>)', Coupled'
  PROVE  Coupling'
BY DEF Coupling, Live

LEMMA StepDone ==
  ASSUME Live, initialized, Sound, UNCHANGED <<recording, initialized, status>>,
         StateProper', Matched', ~deviated', Agree',
         trace' = <<>>, script' = <<>>
  PROVE  Coupling'
<1>1. Due' = <<>> /\ ~NextIs("diagnostic")'
  BY DEF Due, NextIs
<1>2. InStep'
  BY <1>1 DEF InStep, Left
<1>3. Coupled'
  BY <1>2 DEF Coupled, Recorded, Sound
<1> QED
  BY <1>1, <1>3, CoupledStays DEF Sound

LEMMA PanicCoupled ==
  ASSUME Coupling, Live, Panic, UNCHANGED <<recorderVars, deviated>>,
         \/ recording \in {"torn", "foreign"}
         \/ recording = "live" /\ trace # <<>> /\ deviated
  PROVE  Coupling'
<1>1. /\ UNCHANGED <<recording, trace, script, dstate, stack, initialized, deviated>>
      /\ status' = "panicked"
  BY DEF Panic, recorderVars, globalVars, localVars
<1>2. StateProper' /\ (NextIs("diagnostic") => Due # <<>>)' /\ ~Live'
  BY <1>1 DEF Coupling, StateProper, NextIs, Due, Live
<1> QED
  BY <1>1, <1>2 DEF Coupling

(* Nothing that Coupled speaks of has moved, but for a diagnostic event.   *)
LEMMA CoupledKept ==
  ASSUME Coupled, Due' = Due,
         UNCHANGED <<recorderVars, script, deviated, dstate, backing, localVars>>,
         status = "running" => status' = "running"
  PROVE  Coupled'
<1>1. UNCHANGED <<frames, lowering, owed, validated, recording, script, deviated,
                  dstate, backing, stack, reallocs, postArgs>>
  BY DEF recorderVars, execVars, localVars
<1> USE <1>1
<1>2. /\ ReplayLowering' = ReplayLowering /\ ReplayLowers' = ReplayLowers
      /\ (Agree <=> Agree')
      /\ \A fr : Entering(fr) <=> Entering(fr)'
      /\ \A kinds : Leaving(kinds) <=> Leaving(kinds)'
      /\ \A events, steps : Left(events, steps) <=> Left(events, steps)'
      /\ Matched <=> Matched'
  BY DEF ReplayLowering, ReplayLowers, Agree, Entering, Leaving, Left, Matched,
         Innermost, LoweringIn
<1>3. /\ InStep => InStep'
      /\ \A f : AfterBegin(f) => AfterBegin(f)'
      /\ \A f : AfterPostReturn(f) => AfterPostReturn(f)'
      /\ \A e : AfterLower(e) => AfterLower(e)'
  BY <1>2 DEF InStep, AfterBegin, AfterPostReturn, AfterLower
<1>4. \A v : /\ AfterRealloc(v) => AfterRealloc(v)'
             /\ AfterReallocReturn(v) => AfterReallocReturn(v)'
             /\ AfterWrite(v) => AfterWrite(v)'
             /\ AfterEntry(v) => AfterEntry(v)'
             /\ AfterExit(v) => AfterExit(v)'
             /\ AfterGrow(v) => AfterGrow(v)'
  BY <1>2 DEF AfterRealloc, AfterReallocReturn, AfterWrite, AfterEntry, AfterExit,
              AfterGrow, Given, Validation, Innermost
<1>5. /\ \A k : AfterLeave(k) => AfterLeave(k)'
      /\ \A i, v : AfterCall(i, v) => AfterCall(i, v)'
      /\ \A e, v : AfterHostReturn(e, v) => AfterHostReturn(e, v)'
      /\ AfterDtorReturn => AfterDtorReturn'
  BY <1>2 DEF AfterLeave, AfterCall, AfterHostReturn, AfterDtorReturn,
              Validation, Innermost
<1>6. \A rep : /\ AfterBuiltinReturn(rep) => AfterBuiltinReturn(rep)'
               /\ AfterGuestDtor(rep) => AfterGuestDtor(rep)'
               /\ AfterHostDtor(rep) => AfterHostDtor(rep)'
  BY DEF AfterBuiltinReturn, AfterGuestDtor, AfterHostDtor, AfterBuiltin,
         Validation, Innermost
<1>7. Recorded => Recorded'
  BY <1>3, <1>4, <1>5, <1>6 DEF Recorded
<1>8. Checked => Checked'
  BY <1>2 DEF Checked, CheckExit, CheckEntry, Innermost
<1>9. \A v : CheckRealloc(v) => CheckRealloc(v)'
  BY <1>2 DEF CheckRealloc, Innermost
<1>10. (Torn => Torn') /\ (Finished => Finished')
  BY <1>2 DEF Torn, Finished
<1> QED
  BY <1>2, <1>7, <1>8, <1>9, <1>10 DEF Coupled

----------------------------------------------------------------------------
(* The driver outside calls: booting, exports, the end.                    *)

LEMMA BootCoupled ==
  ASSUME DriverInv, Coupling, UNCHANGED <<recorderVars, deviated>>,
         status = "boot", ~initialized, NEW after \in {"boot", "running"},
         InitReplayer(after), UNCHANGED <<script, localVars>>
  PROVE  Coupling'
<1>1. /\ trace' = Tail(trace) /\ initialized' /\ dstate' = Root
      /\ status' = IF NextIs("inst") THEN after ELSE "panicked"
      /\ UNCHANGED <<recording, validated, frames, lowering, owed, stack, reallocs,
                     postArgs, script, deviated>>
  BY DEF InitReplayer, Read, recorderVars, execVars, localVars
<1>2. StateProper /\ dstate = Root /\ StateProper'
  BY <1>1 DEF Coupling, StateProper, Root
<1>3. CASE recording = "foreign"
  <2>1. trace = <<Event("foreign_inst", None, None)>>
    BY <1>3 DEF Coupling, AtBoot
  <2>2. ~NextIs("inst") /\ trace' = <<>>
    BY <1>1, <2>1, Single DEF NextIs, Event
  <2> QED
    BY <1>1, <1>2, <1>3, <2>2 DEF Coupling, NextIs, Live
<1>4. CASE recording # "foreign"
  <2>1. recording = "live" /\ AtBoot("inst") /\ Agree /\ Matched
    BY <1>4 DEF Coupling, Live
  <2>2. NextIs("inst") /\ trace' = <<>> /\ script = <<>> /\ ~deviated
    BY <1>1, <2>1, Single DEF AtBoot, NextIs, Event
  <2>3. Due' = <<>> /\ ~NextIs("diagnostic")'
    BY <2>2 DEF Due, NextIs
  <2>4. Agree' /\ Matched'
    BY <1>1, <1>2, <2>1 DEF Agree, ReplayLowering, Matched
  <2>5. Coupled'
    BY <1>1, <2>1, <2>2, <2>3, <2>4 DEF Coupled, Recorded, InStep, Left
  <2>6. recording' = "live" /\ status' \in {"boot", "running"} /\ initialized'
    BY <1>1, <2>1, <2>2
  <2> QED
    BY <1>2, <2>3, <2>5, <2>6 DEF Coupling
<1> QED
  BY <1>3, <1>4

LEMMA StartCoupled ==
  ASSUME DriverInv, Coupling, UNCHANGED <<recorderVars, deviated>>,
         StartFunction \/ RunReplay
  PROVE  Coupling'
<1>1. CASE StartFunction
  BY <1>1, BootCoupled DEF StartFunction
<1>2. CASE RunReplay /\ ~initialized
  BY <1>2, BootCoupled DEF RunReplay
<1>3. CASE RunReplay /\ initialized
  <2>1. /\ status = "boot" /\ stack = <<>> /\ status' = "running"
        /\ UNCHANGED <<trace, globalVars, script, localVars>>
    BY <1>3 DEF RunReplay, InitReplayer
  <2>2. /\ recording # "foreign" /\ Live /\ Live' /\ recording' = recording
        /\ initialized'
    BY <1>3, <2>1 DEF Coupling, AtBoot, Live, globalVars, recorderVars
  <2>3. /\ UNCHANGED <<dstate, backing, stack, trace>> /\ Due' = Due
        /\ StateProper' /\ (NextIs("diagnostic") => Due # <<>>)'
    BY <2>1 DEF Coupling, StateProper, Due, NextIs, globalVars, localVars
  <2>4. Coupled'
    BY <1>3, <2>1, <2>2, <2>3, CoupledKept DEF Coupling
  <2> QED
    BY <2>1, <2>2, <2>3, <2>4 DEF Coupling
<1> QED
  BY <1>1, <1>2, <1>3

LEMMA SkipCoupled ==
  ASSUME DriverInv, Coupling, UNCHANGED <<recorderVars, deviated>>, SkipDiagnostic
  PROVE  Coupling'
<1>1. /\ NextIs("diagnostic") /\ trace' = Tail(trace)
      /\ UNCHANGED <<script, status, globalVars, localVars>>
  BY DEF SkipDiagnostic, Read
<1>2. /\ Live /\ initialized /\ recording # "foreign" /\ Coupled /\ StateProper
  <2>1. CASE InRunReplay \/ InHostCall \/ InBuiltinCall
    BY <2>1, LoopFacts
  <2>2. CASE Live /\ script # <<>>
    BY <2>2 DEF Coupling, AtBoot, Live
  <2> QED
    BY <2>1, <2>2 DEF SkipDiagnostic
<1>3. Due = Tail(trace) /\ Due # <<>> /\ Head(Due).ev # "diagnostic"
  BY <1>1, <1>2, Expected DEF Coupling, Due
<1>4. Due' = Due /\ ~NextIs("diagnostic")'
  BY <1>1, <1>3 DEF Due, NextIs
<1>5. /\ UNCHANGED <<recording, dstate, backing, initialized, stack>>
      /\ StateProper'
  BY <1>1, <1>2 DEF StateProper, globalVars, localVars, recorderVars
<1>6. Coupled'
  BY <1>1, <1>2, <1>4, <1>5, CoupledKept
<1> QED
  BY <1>1, <1>2, <1>4, <1>5, <1>6, CoupledStays

LEMMA NoLowering ==
  ASSUME NEW st, NEW state,
         state.kind # "setup" \/ (st # <<>> /\ Head(st).kind # "realloc")
  PROVE  LoweringIn(st, state) = None
BY DEF LoweringIn

LEMMA PushOnEmpty ==
  ASSUME NEW x
  PROVE  Push(x, <<>>) = <<x>>
BY ConcatEmptySeq DEF Push

LEMMA BeginCoupled ==
  ASSUME DriverInv, Coupling, UNCHANGED <<recorderVars, deviated>>, WasmFuncBegin
  PROVE  Coupling'
<1>1. InRunReplay /\ NextIs("begin")
  BY DEF WasmFuncBegin
<1>2. /\ initialized /\ Coupled /\ StateProper /\ Live /\ recording # "foreign"
  BY <1>1, LoopFacts
<1>3. Due = trace /\ Due # <<>> /\ Head(Due).ev = "begin"
  BY <1>1, NextDue DEF EventKinds
<1>4. PICK f \in Exports : AfterBegin(f)
  BY <1>2, <1>3, Expected
<1>5. Sound
  BY <1>2, <1>3, Expected
<1>6. Left(<<Event("begin", f, None)>>, script) /\ script = <<>> /\ dstate = Root
  BY <1>4 DEF AfterBegin, Left
<1>7. /\ Read /\ dstate' = LoweringSetup(Head(trace).idx)
      /\ UNCHANGED <<script, status, initialized, stack, reallocs, postArgs>>
  BY <1>6 DEF WasmFuncBegin, OrPanic, localVars
<1>8. Head(trace) = Event("begin", f, None) /\ trace' = <<>>
  BY <1>3, <1>6, <1>7, ReadAll
<1>9. dstate' = LoweringSetup(f)
  BY <1>7, <1>8 DEF Event
<1>10. Agree'
  BY <1>4, <1>7, <1>9
     DEF AfterBegin, Agree, ReplayLowering, LoweringIn, LoweringSetup, recorderVars, execVars
<1>11. StateProper'
  BY <1>1, <1>7, <1>9 DEF StateProper, LoweringSetup, InRunReplay
<1>12. Matched' /\ recording' = recording /\ ~deviated'
  BY <1>5, <1>7 DEF Sound, Matched, recorderVars
<1> QED
  BY <1>2, <1>5, <1>6, <1>7, <1>8, <1>10, <1>11, <1>12, StepDone

LEMMA EntryCoupled ==
  ASSUME DriverInv, Coupling, UNCHANGED <<recorderVars, deviated>>, WasmFuncEntry
  PROVE  Coupling'
<1>1. InRunReplay /\ NextIs("entry")
  BY DEF WasmFuncEntry
<1>2. /\ initialized /\ Coupled /\ StateProper /\ Live /\ recording # "foreign"
  BY <1>1, LoopFacts
<1>3. Due = trace /\ Due # <<>> /\ Head(Due).ev = "entry"
  BY <1>1, NextDue DEF EventKinds
<1>4. PICK v \in Args : AfterEntry(v)
  BY <1>2, <1>3, Expected
<1>5. Sound
  BY <1>2, <1>3, Expected
<1> DEFINE step == Step("enter", "export", dstate.idx, v)
<1>6. Left(<<Event("entry", None, v)>>, script) /\ script = <<step>>
  BY <1>4 DEF AfterEntry, Left
<1>7. /\ Read /\ Deliver(script, Step("enter", "export", dstate.idx, Value))
      /\ stack' = Push(Frame("core", dstate.idx), stack)
      /\ UNCHANGED <<dstate, initialized, reallocs, postArgs>>
  BY <1>4 DEF WasmFuncEntry, AfterEntry, OrPanic, globalVars
<1>8. Head(trace) = Event("entry", None, v) /\ trace' = <<>>
  BY <1>3, <1>6, <1>7, ReadAll
<1>9. Value = v
  BY <1>8 DEF Value, Event
<1>10. script' = <<>> /\ status' = status
  BY <1>6, <1>7, <1>9, Delivered
<1>11. stack' = <<Frame("core", dstate.idx)>>
  BY <1>4, <1>7, PushOnEmpty DEF AfterEntry
<1>12. stack' # <<>> /\ Head(stack').kind = "core"
  BY <1>11 DEF Frame
<1>13. Agree'
  BY <1>4, <1>7, <1>11, <1>12, NoLowering
     DEF AfterEntry, Agree, ReplayLowering, recorderVars, execVars
<1>14. StateProper'
  BY <1>1, <1>2, <1>7, <1>10 DEF StateProper, InRunReplay
<1>15. Matched' /\ recording' = recording /\ ~deviated'
  BY <1>5, <1>7 DEF Sound, Matched, recorderVars
<1> QED
  BY <1>2, <1>5, <1>7, <1>8, <1>10, <1>13, <1>14, <1>15, StepDone

LEMMA PostReturnCoupled ==
  ASSUME DriverInv, Coupling, UNCHANGED <<recorderVars, deviated>>, ReadPostReturn
  PROVE  Coupling'
<1>1. InRunReplay /\ NextIs("post_return")
  BY DEF ReadPostReturn
<1>2. /\ initialized /\ Coupled /\ StateProper /\ Live /\ recording # "foreign"
  BY <1>1, LoopFacts
<1>3. Due = trace /\ Due # <<>> /\ Head(Due).ev = "post_return"
  BY <1>1, NextDue DEF EventKinds
<1>4. PICK f \in Exports : AfterPostReturn(f)
  BY <1>2, <1>3, Expected
<1>5. Sound
  BY <1>2, <1>3, Expected
<1> DEFINE step == Step("post", "export", f, postArgs[f])
<1>6. /\ Left(<<Event("post_return", f, None)>>, script)
      /\ script = IF f \in Posts THEN <<step>> ELSE <<>>
      /\ stack = <<>> /\ dstate = Root /\ postArgs[f] # None
  BY <1>4 DEF AfterPostReturn, Left
<1>7. Head(trace) = Event("post_return", f, None) /\ Head(trace).idx = f
  <2>1. trace = <<Event("post_return", f, None)>>
    BY <1>3, <1>6 DEF Left
  <2> QED
    BY <2>1, Single DEF Event
<1>8. /\ Read /\ postArgs' = [postArgs EXCEPT ![f] = None]
      /\ IF f \in Posts
         THEN Deliver(script, step) /\ stack' = Push(Frame("post", f), stack)
         ELSE UNCHANGED <<script, status, stack>>
      /\ UNCHANGED <<dstate, initialized, reallocs>>
  BY <1>6, <1>7 DEF ReadPostReturn, OrPanic, PostArgsTaken, globalVars
<1>9. trace' = <<>>
  BY <1>3, <1>6, <1>8, ReadAll
<1>10. script' = <<>> /\ status' = status
  BY <1>6, <1>8, Delivered
<1>11. stack' = IF f \in Posts THEN <<Frame("post", f)>> ELSE <<>>
  BY <1>6, <1>8, PushOnEmpty
<1>12. Agree'
  BY <1>4, <1>6, <1>8, <1>11, NoLowering
     DEF AfterPostReturn, Agree, ReplayLowering, recorderVars, execVars, Root
<1>13. StateProper'
  BY <1>1, <1>2, <1>8, <1>10 DEF StateProper, InRunReplay
<1>14. Matched' /\ recording' = recording /\ ~deviated'
  BY <1>5, <1>8 DEF Sound, Matched, recorderVars
<1> QED
  BY <1>2, <1>5, <1>8, <1>9, <1>10, <1>12, <1>13, <1>14, StepDone

LEMMA EofCoupled ==
  ASSUME DriverInv, Coupling, UNCHANGED <<recorderVars, deviated>>, Eof
  PROVE  Coupling'
<1>1. InRunReplay /\ NextIs("eof")
  BY DEF Eof, EndOfTrace
<1>2. Coupled /\ StateProper
  BY <1>1, LoopFacts
<1>3. Due = trace /\ Due # <<>> /\ Head(Due).ev = "eof"
  BY <1>1, NextDue DEF EventKinds
<1>4. Finished
  BY <1>2, <1>3, Expected
<1>5. /\ trace' = <<>> /\ status' = "done"
      /\ UNCHANGED <<dstate, stack, recording, deviated>>
  BY <1>3, <1>4, Single DEF Eof, Read, Finished, Left, globalVars, localVars, recorderVars
<1>6. StateProper' /\ ~NextIs("diagnostic")'
  BY <1>2, <1>5 DEF StateProper, NextIs
<1> QED
  BY <1>4, <1>5, <1>6 DEF Coupling, Finished, Live

(* A handler that reads an event and changes nothing else.                 *)
LEMMA ReadCoupled ==
  ASSUME Live, initialized, Sound, StateProper, Agree, script = <<>>,
         UNCHANGED <<recorderVars, deviated>>,
         NEW e, Due = trace, Left(<<e>>, script), Read,
         UNCHANGED <<script, status, globalVars, localVars>>
  PROVE  Coupling'
<1>1. trace' = <<>>
  BY ReadAll
<1>2. /\ UNCHANGED <<dstate, initialized, stack, reallocs, postArgs, frames, lowering,
                     owed, recording, validated>>
  BY DEF globalVars, localVars, recorderVars, execVars
<1>3. Agree' /\ StateProper' /\ Matched'
  BY <1>2 DEF Agree, ReplayLowering, StateProper, Matched, Sound
<1> QED
  BY <1>1, <1>2, <1>3, StepDone DEF Sound

LEMMA WasmReturnCoupled ==
  ASSUME DriverInv, Coupling, UNCHANGED <<recorderVars, deviated>>, WasmFuncReturn
  PROVE  Coupling'
<1>1. (InRunReplay \/ InHostCall) /\ NextIs("wasm_return")
  BY DEF WasmFuncReturn
<1>2. /\ initialized /\ Coupled /\ StateProper /\ Live /\ recording # "foreign"
  BY <1>1, LoopFacts
<1>3. Due = trace /\ Due # <<>> /\ Head(Due).ev = "wasm_return"
  BY <1>1, NextDue DEF EventKinds
<1>4. \A v : ~AfterExit(v)
  BY <1>1 DEF AfterExit, Leaving, InRunReplay, InHostCall, Innermost
<1>5. PICK v \in Args : CheckExit(v)
  BY <1>2, <1>3, <1>4, Expected
<1>6. Validating /\ Matched
  BY <1>2, <1>3, <1>4, Expected
<1>7. /\ Left(<<Event("wasm_return", None, v)>>, script) /\ script = <<>>
      /\ Value = v /\ dstate = Root /\ deviated = (backing # v)
  <2>1. Due = <<Event("wasm_return", None, v)>> /\ script = <<>>
        /\ dstate = Root /\ deviated = (backing # v)
    BY <1>5 DEF CheckExit, Left
  <2> QED
    BY <1>3, <2>1, Single DEF Left, Value, Event
<1>8. CASE deviated
  <2>1. ~Valid(Value)
    BY <1>7, <1>8 DEF Valid
  <2> QED
    BY <1>2, <1>3, <1>6, <1>8, <2>1, PanicCoupled DEF WasmFuncReturn, OrPanic, Validating
<1>9. CASE ~deviated
  <2>1. Valid(Value)
    BY <1>7, <1>9 DEF Valid
  <2>2. Read /\ UNCHANGED <<script, status, globalVars, localVars>>
    BY <1>7, <2>1 DEF WasmFuncReturn, OrPanic
  <2>3. Agree
    BY <1>5, <1>9, NoLowering DEF CheckExit, Agree, ReplayLowering, Root
  <2>4. Sound
    BY <1>6, <1>9 DEF Sound, Validating
  <2> HIDE DEF Validating
  <2> QED
    BY <1>2, <1>3, <1>7, <2>2, <2>3, <2>4, ReadCoupled
<1> QED
  BY <1>8, <1>9

----------------------------------------------------------------------------
(* The driver while arguments or results are lowered.                      *)

LEMMA LoopLowers ==
  ASSUME ReplayInv, ReplayLowers
  PROVE  LowersState(dstate)
<1>1. CASE stack = <<>>
  BY <1>1 DEF ReplayLowers, Innermost, LowersState
<1>2. CASE stack # <<>>
  <2>1. InHost(stack)
    BY <1>2, InnermostFacts DEF ReplayLowers, InHost, ReplayInv
  <2> QED
    BY <2>1 DEF ReplayInv, Context, HostCall, LowersState
<1> QED
  BY <1>1, <1>2

LEMMA LowerCoupled ==
  ASSUME DriverInv, Coupling, UNCHANGED <<recorderVars, deviated>>, ReadLower
  PROVE  Coupling'
<1>1. PICK e \in {"lower_entry", "lower_return"} : NextIs(e)
  BY DEF ReadLower
<1>2. /\ initialized /\ Coupled /\ StateProper /\ Live /\ ReplayInv
  BY LoopFacts DEF ReadLower
<1>3. Due = trace /\ Due # <<>> /\ Head(Due).ev = e
  BY <1>1, NextDue DEF EventKinds
<1>4. Sound /\ AfterLower(e)
  BY <1>2, <1>3, Expected
<1>5. Left(<<Event(e, None, None)>>, script) /\ script = <<>> /\ Agree
  BY <1>4 DEF AfterLower, Left
<1>6. LowersState(dstate)
  BY <1>2, <1>4, LoopLowers DEF AfterLower
<1>7. Read /\ UNCHANGED <<script, status, globalVars, localVars>>
  BY <1>6 DEF ReadLower, OrPanic
<1> QED
  BY <1>2, <1>3, <1>4, <1>5, <1>7, ReadCoupled

LEMMA ReallocCoupled ==
  ASSUME DriverInv, Coupling, UNCHANGED <<recorderVars, deviated>>, ReallocEntry
  PROVE  Coupling'
<1>1. (InRunReplay \/ InHostCall) /\ NextIs("realloc")
  BY DEF ReallocEntry
<1>2. /\ initialized /\ Coupled /\ StateProper /\ Live /\ recording # "foreign"
      /\ status = "running" /\ ReplayInv /\ ReplayTypeOK /\ Context
  BY <1>1, LoopFacts
<1>3. Due = trace /\ Due # <<>> /\ Head(Due).ev = "realloc"
  BY <1>1, NextDue DEF EventKinds
<1>4. PICK v \in Args : AfterRealloc(v)
  BY <1>2, <1>3, Expected
<1>5. Sound
  BY <1>2, <1>3, Expected
<1>6. /\ Left(<<Event("realloc", None, v)>>, script) /\ script = <<Given("realloc", v)>>
      /\ Entering(Frame("realloc", None)) /\ LowersState(dstate)
  BY <1>2, <1>4, LoopLowers DEF AfterRealloc, Left
<1>7. /\ Read /\ Deliver(script, Step("realloc", DriverDir(dstate), dstate.idx, Value))
      /\ stack' = Push(Frame("realloc", None), stack)
      /\ UNCHANGED <<dstate, initialized, reallocs, postArgs>>
  BY <1>6 DEF ReallocEntry, OrPanic, globalVars
<1>8. Head(trace) = Event("realloc", None, v) /\ trace' = <<>>
  BY <1>3, <1>6, <1>7, ReadAll
<1>9. Value = v
  BY <1>8 DEF Value, Event
<1>10. script' = <<>> /\ status' = status
  BY <1>6, <1>7, <1>9, Delivered DEF Given
<1>11. stack' # <<>> /\ Head(stack').kind = "realloc"
  <2>1. Frame("realloc", None) \in FrameSet /\ Frame("realloc", None).kind = "realloc"
    BY FrameType DEF FrameKinds, GuestKinds, Frame
  <2>2. stack \in Seq(FrameSet)
    BY <1>2 DEF ReplayTypeOK
  <2> QED
    BY <1>7, <2>1, <2>2, PushPop
<1>12. LoweringIn(stack', dstate) = LoweringIn(stack, dstate)
  <2>1. CASE stack = <<>>
    BY <1>11, <2>1 DEF LoweringIn
  <2>2. CASE stack # <<>>
    <3>1. InHost(stack)
      BY <1>1, <1>2, <2>2, InnermostFacts DEF InHost, InRunReplay, InHostCall
    <3>2. dstate.kind = "host"
      BY <1>2, <3>1 DEF Context, HostCall
    <3> QED
      BY <3>2, NoLowering
  <2> QED
    BY <2>1, <2>2
<1>13. Agree'
  BY <1>6, <1>7, <1>12
     DEF Entering, Agree, ReplayLowering, recorderVars, execVars
<1>14. StateProper'
  BY <1>2, <1>7, <1>10 DEF StateProper
<1>15. Matched' /\ recording' = recording /\ ~deviated'
  BY <1>5, <1>7 DEF Sound, Matched, recorderVars
<1> QED
  BY <1>2, <1>5, <1>7, <1>8, <1>10, <1>13, <1>14, <1>15, StepDone

LEMMA WriteCoupled ==
  ASSUME DriverInv, Coupling, UNCHANGED <<recorderVars, deviated>>, MemorySliceWrite
  PROVE  Coupling'
<1>1. (InRunReplay \/ InHostCall) /\ NextIs("write")
  BY DEF MemorySliceWrite
<1>2. /\ initialized /\ Coupled /\ StateProper /\ Live /\ recording # "foreign"
      /\ status = "running" /\ ReplayInv
  BY <1>1, LoopFacts
<1>3. Due = trace /\ Due # <<>> /\ Head(Due).ev = "write"
  BY <1>1, NextDue DEF EventKinds
<1>4. PICK v \in Args : AfterWrite(v)
  BY <1>2, <1>3, Expected
<1>5. Sound
  BY <1>2, <1>3, Expected
<1>6. /\ Left(<<Event("write", None, v)>>, script) /\ script = <<Given("write", v)>>
      /\ Agree /\ LowersState(dstate)
  BY <1>2, <1>4, LoopLowers DEF AfterWrite, Left
<1>7. /\ Read /\ Deliver(script, Step("write", DriverDir(dstate), dstate.idx, Value))
      /\ UNCHANGED <<dstate, initialized, stack, reallocs, postArgs>>
  BY <1>6 DEF MemorySliceWrite, OrPanic, globalVars, localVars
<1>8. Head(trace) = Event("write", None, v) /\ trace' = <<>>
  BY <1>3, <1>6, <1>7, ReadAll
<1>9. Value = v
  BY <1>8 DEF Value, Event
<1>10. script' = <<>> /\ status' = status
  BY <1>6, <1>7, <1>9, Delivered DEF Given
<1>11. Agree'
  BY <1>6, <1>7 DEF Agree, ReplayLowering, recorderVars, execVars
<1>12. StateProper'
  BY <1>2, <1>7, <1>10 DEF StateProper
<1>13. Matched' /\ recording' = recording /\ ~deviated'
  BY <1>5, <1>7 DEF Sound, Matched, recorderVars
<1> QED
  BY <1>2, <1>5, <1>7, <1>8, <1>10, <1>11, <1>12, <1>13, StepDone

LEMMA PushSame ==
  ASSUME NEW S, NEW x \in S, NEW s \in Seq(S), \A k \in 1..Len(s) : s[k] = x
  PROVE  \A k \in DOMAIN Push(x, s) : Push(x, s)[k] = x
<1> DEFINE up == Push(x, s)
<1>1. /\ up \in Seq(S) /\ Len(up) = Len(s) + 1 /\ up[1] = x
      /\ \A k \in 1..Len(s) : up[k + 1] = s[k]
  BY PushFacts
<1> HIDE DEF up
<1>2. DOMAIN up = 1..Len(up) /\ Len(s) \in Nat
  BY <1>1, LenProperties
<1>3. ASSUME NEW k \in DOMAIN up PROVE up[k] = x
  <2>1. k = 1 \/ (k - 1 \in 1..Len(s) /\ (k - 1) + 1 = k)
    BY <1>1, <1>2
  <2> QED
    BY <1>1, <2>1
<1> QED
  BY <1>3 DEF up

LEMMA ReallocReturnCoupled ==
  ASSUME DriverInv, Coupling, UNCHANGED <<recorderVars, deviated>>, ReallocReturn
  PROVE  Coupling'
<1> DEFINE top == Head(reallocs)
           rest == Tail(reallocs)
<1>1. (InRunReplay \/ InHostCall) /\ NextIs("realloc_return")
  BY DEF ReallocReturn
<1>2. /\ initialized /\ Coupled /\ StateProper /\ Live /\ recording # "foreign"
      /\ status = "running" /\ ReplayInv /\ ReplayTypeOK /\ Context
  BY <1>1, LoopFacts
<1>3. Due = trace /\ Due # <<>> /\ Head(Due).ev = "realloc_return"
  BY <1>1, NextDue DEF EventKinds
<1>4. \A v : ~AfterReallocReturn(v)
  BY <1>1 DEF AfterReallocReturn, Leaving, InRunReplay, InHostCall, Innermost
<1>5. PICK v \in Args : CheckRealloc(v)
  BY <1>2, <1>3, <1>4, Expected
<1>6. Validating
  BY <1>2, <1>3, <1>4, Expected
<1>7. /\ Left(<<Event("realloc_return", None, v)>>, script) /\ script = <<>>
      /\ Value = v /\ Agree /\ Len(top) = 1 /\ deviated = (Head(top) # v)
      /\ \A k \in DOMAIN reallocs : k > 1 => reallocs[k] = <<>>
  <2>1. /\ Due = <<Event("realloc_return", None, v)>> /\ script = <<>>
        /\ Agree /\ Len(top) = 1 /\ deviated = (Head(top) # v)
        /\ \A k \in DOMAIN reallocs : k > 1 => reallocs[k] = <<>>
    BY <1>5 DEF CheckRealloc, Left
  <2> QED
    BY <1>3, <2>1, Single DEF Left, Value, Event
<1>8. LowersState(dstate)
  <2>1. CASE stack = <<>>
    BY <1>5, <2>1 DEF CheckRealloc, Innermost, LowersState
  <2>2. CASE stack # <<>>
    <3>1. InHost(stack)
      BY <1>2, <1>5, <2>2, InnermostFacts DEF CheckRealloc, InHost
    <3> QED
      BY <1>2, <3>1 DEF Context, HostCall, LowersState
  <2> QED
    BY <2>1, <2>2
<1>9. /\ top \in Seq(Args) /\ rest \in Seq(Seq(Args)) /\ reallocs \in Seq(Seq(Args))
      /\ reallocs # <<>>
  BY <1>2, ReallocFacts
<1>10. top # <<>> /\ Tail(top) = <<>>
  <2>1. top # <<>>
    BY <1>7
  <2> QED
    BY <1>7, <1>9, <2>1, PopFacts
<1>11. CASE deviated
  BY <1>2, <1>3, <1>6, <1>7, <1>11, PanicCoupled DEF ReallocReturn, OrPanic, Validating
<1>12. CASE ~deviated
  <2>1. /\ Read /\ reallocs' = Push(Tail(top), rest)
        /\ UNCHANGED <<script, status, dstate, initialized, stack, postArgs>>
    BY <1>7, <1>8, <1>10, <1>12 DEF ReallocReturn, OrPanic, ReallocPopped, globalVars
  <2>2. trace' = <<>>
    BY <1>3, <1>7, <2>1, ReadAll
  <2>3. \A k \in DOMAIN reallocs' : reallocs'[k] = <<>>
    <3>1. <<>> \in Seq(Args) /\ rest \in Seq(Seq(Args))
      BY <1>9
    <3>2. /\ Len(rest) = Len(reallocs) - 1 /\ Len(reallocs) \in Nat \ {0}
          /\ DOMAIN reallocs = 1..Len(reallocs)
          /\ \A k \in 1..(Len(reallocs) - 1) : rest[k] = reallocs[k + 1]
      BY <1>9, PopFacts, LenProperties
    <3> HIDE DEF rest
    <3>3. \A k \in 1..Len(rest) : rest[k] = <<>>
      BY <1>7, <3>2
    <3>4. \A k \in DOMAIN Push(<<>>, rest) : Push(<<>>, rest)[k] = <<>>
      BY <3>1, <3>3, PushSame
    <3> QED
      BY <1>10, <2>1, <3>4
  <2>4. /\ Agree' /\ StateProper' /\ Matched' /\ recording' = recording /\ ~deviated'
    BY <1>2, <1>7, <1>12, <2>1, <2>3
       DEF Agree, ReplayLowering, StateProper, Matched, recorderVars, execVars
  <2>5. recording = "live" /\ UNCHANGED <<recording, initialized, status>>
        /\ script' = <<>>
    BY <1>6, <1>7, <2>1, <2>4 DEF Validating
  <2>6. InStep' /\ ~NextIs("diagnostic")' /\ Due' = <<>>
    BY <2>2, <2>4, <2>5 DEF InStep, Left, Due, NextIs
  <2>7. Coupled'
    BY <2>4, <2>5, <2>6 DEF Coupled, Recorded
  <2> QED
    BY <1>2, <2>4, <2>5, <2>6, <2>7, CoupledStays
<1> QED
  BY <1>11, <1>12

----------------------------------------------------------------------------
(* The driver in calls of imports.                                         *)

LEMMA CallEntryCoupled ==
  ASSUME DriverInv, Coupling, UNCHANGED <<recorderVars, deviated>>,
         HostFuncEntry \/ BuiltinEntry
  PROVE  Coupling'
<1>1. PICK e \in {"host_entry", "builtin_entry"} :
        /\ NextIs(e)
        /\ IF e = "host_entry" THEN HostFuncEntry ELSE BuiltinEntry
  BY DEF HostFuncEntry, BuiltinEntry
<1>2. InHostCall \/ InBuiltinCall
  BY DEF HostFuncEntry, BuiltinEntry
<1>3. /\ initialized /\ Coupled /\ StateProper /\ Live /\ recording # "foreign"
      /\ ReplayInv /\ ReplayTypeOK /\ Context
  BY <1>2, LoopFacts
<1>4. Due = trace /\ Due # <<>> /\ Head(Due).ev = e
  BY <1>1, NextDue DEF EventKinds
<1>5. \A i, v : ~AfterCall(i, v)
  BY <1>2 DEF AfterCall, InHostCall, InBuiltinCall, Innermost, CodeKinds
<1>6. Validating /\ Matched
  BY <1>3, <1>4, <1>5, Expected
<1>7. PICK v \in Args : CheckEntry(e, v)
  BY <1>3, <1>4, <1>5, Expected
<1>8. /\ Left(<<Event(e, None, v)>>, script) /\ script = <<>>
      /\ Value = v /\ Agree /\ deviated = (backing # v)
  <2>1. Due = <<Event(e, None, v)>> /\ script = <<>> /\ Agree
        /\ deviated = (backing # v)
    BY <1>7 DEF CheckEntry, Left
  <2> QED
    BY <1>4, <2>1, Single DEF Left, Value, Event
<1>9. IF e = "host_entry" THEN InHostCall /\ dstate.kind = "host"
      ELSE InBuiltinCall /\ dstate.kind = "builtin"
  <2>1. IF e = "host_entry" THEN InHostCall ELSE InBuiltinCall
    BY <1>1 DEF HostFuncEntry, BuiltinEntry
  <2>2. InHostCall => dstate.kind = "host"
    BY <1>3, InnermostFacts DEF InHostCall, Context, InHost, HostCall
  <2>3. InBuiltinCall => dstate.kind = "builtin"
    BY <1>3, InnermostFacts DEF InBuiltinCall, Context, BuiltinCall
  <2> QED
    BY <2>1, <2>2, <2>3
<1>10. OrPanic(Valid(Value), Read /\ UNCHANGED <<script, status, globalVars, localVars>>)
  BY <1>1, <1>9 DEF HostFuncEntry, BuiltinEntry, OrPanic
<1>11. CASE deviated
  <2>1. ~Valid(Value)
    BY <1>8, <1>11 DEF Valid
  <2> QED
    BY <1>3, <1>4, <1>6, <1>10, <1>11, <2>1, PanicCoupled DEF OrPanic, Validating
<1>12. CASE ~deviated
  <2>1. Valid(Value)
    BY <1>8, <1>12 DEF Valid
  <2>2. Read /\ UNCHANGED <<script, status, globalVars, localVars>>
    BY <1>10, <2>1 DEF OrPanic
  <2>3. Sound
    BY <1>6, <1>12 DEF Sound, Validating
  <2> QED
    BY <1>3, <1>4, <1>8, <2>2, <2>3, ReadCoupled
<1> QED
  BY <1>11, <1>12

LEMMA HostReturnCoupled ==
  ASSUME DriverInv, Coupling, UNCHANGED <<recorderVars, deviated>>, HostFuncReturn
  PROVE  Coupling'
<1>1. InHostCall
  BY DEF HostFuncReturn
<1>2. /\ initialized /\ Coupled /\ StateProper /\ Live /\ recording # "foreign"
      /\ status = "running" /\ ReplayInv /\ ReplayTypeOK /\ Context
  BY <1>1, LoopFacts
<1>3. /\ Due = trace /\ Due # <<>>
      /\ Head(Due).ev \in {"host_return", "host_return_empty"}
  BY NextDue DEF EventKinds, HostFuncReturn
<1>4. PICK e \in EventSet, v \in Args : AfterHostReturn(e, v)
  BY <1>2, <1>3, Expected
<1>5. Sound
  BY <1>2, <1>3, Expected
<1> DEFINE step == Step("ret", "import", Head(stack).idx, v)
<1>6. /\ Left(<<e>>, script) /\ script = <<step>>
      /\ Innermost(stack, {"host", "hdtor"})
      /\ frames = Tail(stack) /\ lowering = ReplayLowering /\ owed = postArgs
      /\ Head(stack).kind = "hdtor" => v = NoArgs
  BY <1>4 DEF AfterHostReturn, Left, Leaving
<1>7. Head(trace) = e
  BY <1>3, <1>6, Single DEF Left
<1>8. ReturnedArgs = v
  BY <1>3, <1>4, <1>7 DEF AfterHostReturn, ReturnedArgs, NextIs, Value, Event
<1>9. dstate.kind = "host"
  BY <1>1, <1>2, InnermostFacts DEF InHostCall, Context, InHost, HostCall
<1>10. /\ Read /\ Deliver(script, step)
       /\ stack' = Tail(stack) /\ reallocs' = Tail(reallocs)
       /\ UNCHANGED <<dstate, initialized, postArgs>>
  <2>1. (IF Head(stack).kind = "hdtor" THEN NoArgs ELSE ReturnedArgs) = v
    BY <1>6, <1>8
  <2> QED
    BY <1>9, <2>1 DEF HostFuncReturn, OrPanic
<1>11. trace' = <<>>
  BY <1>3, <1>6, <1>10, ReadAll
<1>12. script' = <<>> /\ status' = status
  BY <1>6, <1>10, Delivered
<1>13. Agree'
  BY <1>6, <1>9, <1>10, NoLowering DEF Agree, ReplayLowering, recorderVars, execVars
<1>14. StateProper'
  BY <1>2, <1>10, <1>12 DEF StateProper
<1>15. Matched'
  <2>1. /\ reallocs \in Seq(Seq(Args)) /\ reallocs # <<>>
        /\ reallocs' \in Seq(Seq(Args)) /\ reallocs' = Tail(reallocs)
    BY <1>2, <1>10, ReallocFacts
  <2>2. /\ Len(reallocs') = Len(reallocs) - 1 /\ Len(reallocs) \in Nat
        /\ DOMAIN reallocs = 1..Len(reallocs) /\ DOMAIN reallocs' = 1..Len(reallocs')
        /\ \A k \in 1..(Len(reallocs) - 1) : reallocs'[k] = reallocs[k + 1]
    BY <2>1, PopFacts, LenProperties
  <2>3. \A k \in DOMAIN reallocs' : k + 1 \in DOMAIN reallocs /\ reallocs'[k] = reallocs[k + 1]
    BY <2>2
  <2> QED
    BY <1>5, <2>3 DEF Sound, Matched, recorderVars
<1>16. recording' = recording /\ ~deviated'
  BY <1>5 DEF Sound, recorderVars
<1> QED
  BY <1>2, <1>5, <1>10, <1>11, <1>12, <1>13, <1>14, <1>15, <1>16, StepDone

(* What the builtin's return event leaves when no call of the host follows.*)
LEMMA BuiltinDone ==
  ASSUME DriverInv, Coupling, UNCHANGED <<recorderVars, deviated>>,
         InBuiltinCall, Sound, Due = trace, NEW rep, AfterBuiltin(rep, <<>>),
         NEW step, script = <<step>>, Read, Deliver(script, step),
         stack' = DtorFrames(Head(stack).idx, rep) \o Tail(stack),
         UNCHANGED <<dstate, reallocs, initialized, postArgs>>
  PROVE  Coupling'
<1>1. /\ initialized /\ Coupled /\ StateProper /\ Live /\ recording # "foreign"
      /\ status = "running" /\ ReplayTypeOK /\ Context
  BY LoopFacts
<1>2. trace' = <<>>
  BY DEF AfterBuiltin, Read
<1>3. script' = <<>> /\ status' = status
  BY Delivered
<1>4. dstate.kind = "builtin"
  BY <1>1, InnermostFacts DEF InBuiltinCall, Context, BuiltinCall
<1>5. Agree'
  BY <1>4, NoLowering
     DEF AfterBuiltin, Agree, ReplayLowering, recorderVars, execVars
<1>6. StateProper'
  BY <1>1, <1>3 DEF StateProper
<1>7. Matched' /\ recording' = recording /\ ~deviated'
  BY DEF Sound, Matched, recorderVars
<1> QED
  BY <1>1, <1>2, <1>3, <1>5, <1>6, <1>7, StepDone

LEMMA BuiltinReturnCoupled ==
  ASSUME DriverInv, Coupling, UNCHANGED <<recorderVars, deviated>>, ReadBuiltinReturn
  PROVE  Coupling'
<1> DEFINE i == Head(stack).idx
<1>1. InBuiltinCall /\ NextIs("builtin_return")
  BY DEF ReadBuiltinReturn
<1>2. /\ initialized /\ Coupled /\ StateProper /\ Live /\ recording # "foreign"
      /\ status = "running" /\ ReplayInv /\ ReplayTypeOK /\ Context
  BY <1>1, LoopFacts
<1>3. Due = trace /\ Due # <<>> /\ Head(Due).ev = "builtin_return"
  BY <1>1, NextDue DEF EventKinds
<1>4. PICK rep \in U32 \cup {None} :
        AfterBuiltinReturn(rep) \/ AfterGuestDtor(rep) \/ AfterHostDtor(rep)
  BY <1>2, <1>3, Expected
<1>5. Sound
  BY <1>2, <1>3, Expected
<1>6. Value = rep
  <2>1. ASSUME NEW checks, AfterBuiltin(rep, checks) PROVE Value = rep
    BY <1>3, <2>1 DEF AfterBuiltin, Value, Event
  <2> QED
    BY <1>4, <2>1 DEF AfterBuiltinReturn, AfterGuestDtor, AfterHostDtor
<1>7. dstate.kind = "builtin"
  BY <1>1, <1>2, InnermostFacts DEF InBuiltinCall, Context, BuiltinCall
<1> DEFINE dtor == DtorFrames(i, rep)
<1>8. /\ Read /\ backing' = rep /\ stack' = dtor \o Tail(stack)
      /\ UNCHANGED <<initialized, postArgs>>
  BY <1>6, <1>7 DEF ReadBuiltinReturn, OrPanic
<1>9. CASE AfterBuiltinReturn(rep)
  <2> DEFINE step == Step("ret", "import", i, IF Kind[i] = "value" THEN rep ELSE NoArgs)
  <2>1. dtor = <<>> /\ AfterBuiltin(rep, <<>>) /\ script = <<step>>
    BY <1>9 DEF AfterBuiltinReturn
  <2>2. Deliver(script, step) /\ UNCHANGED <<dstate, reallocs>>
    BY <1>6, <1>7, <2>1 DEF ReadBuiltinReturn, OrPanic
  <2> HIDE DEF step
  <2> QED
    BY <1>1, <1>3, <1>5, <1>8, <2>1, <2>2, BuiltinDone
<1>10. CASE AfterGuestDtor(rep)
  <2> DEFINE step == Step("dtor", "import", i, rep)
  <2>1. /\ dtor = <<Frame("dtor", i)>> /\ Kind[i] = "guest_dtor"
        /\ AfterBuiltin(rep, <<>>) /\ script = <<step>>
    BY <1>10 DEF AfterGuestDtor
  <2>2. dtor # <<>>
    BY <2>1
  <2>3. Deliver(script, step) /\ UNCHANGED <<dstate, reallocs>>
    BY <1>6, <1>7, <2>1, <2>2 DEF ReadBuiltinReturn, OrPanic
  <2> HIDE DEF step
  <2> QED
    BY <1>1, <1>3, <1>5, <1>8, <2>1, <2>3, BuiltinDone
<1>11. CASE AfterHostDtor(rep)
  <2> DEFINE check == Event("host_entry", None, rep)
  <2>1. /\ dtor = <<Frame("hdtor", i)>> /\ Kind[i] = "host_dtor" /\ script = <<>>
        /\ AfterBuiltin(rep, Validation(check))
    BY <1>11 DEF AfterHostDtor
  <2>2. dtor # <<>> /\ Kind[i] # "guest_dtor"
    BY <2>1
  <2>3. /\ dstate' = HostCall(i) /\ reallocs' = Push(<<>>, reallocs)
        /\ UNCHANGED <<script, status>>
    BY <1>6, <1>7, <2>2 DEF ReadBuiltinReturn, OrPanic
  <2>4. /\ Tail(trace) = Validation(check) /\ rep \in Args
        /\ frames = dtor \o Tail(stack) /\ lowering = None /\ owed = postArgs
    <3>1. i \in Exports \cup Imports \cup {None}
      BY <1>1, <1>2, InnermostFacts DEF InBuiltinCall
    <3>2. rep # None
      BY <2>1, <2>2, <3>1, DtorFramesFacts
    <3> QED
      BY <1>3, <1>4, <2>1, <3>2 DEF AfterBuiltin, U32
  <2>5. trace' = Validation(check)
    BY <1>8, <2>4 DEF Read
  <2>6. Validation(check) = <<>> \/ (validated /\ Validation(check) = <<check>>)
    BY ValidationIs
  <2>7. check.ev = "host_entry"
    BY DEF Event
  <2>8. stack' # <<>> /\ Head(stack').kind = "hdtor"
    <3>1. Tail(stack) \in Seq(FrameSet) /\ i \in Exports \cup Imports \cup {None}
      BY <1>1, <1>2, InnermostFacts DEF InBuiltinCall
    <3>2. Frame("hdtor", i) \in FrameSet /\ Frame("hdtor", i).kind = "hdtor"
      BY <3>1, FrameType DEF FrameKinds, Frame
    <3>3. stack' = Push(Frame("hdtor", i), Tail(stack))
      BY <1>8, <2>1 DEF Push
    <3> QED
      BY <3>1, <3>2, <3>3, PushPop
  <2>9. dstate'.kind = "host"
    BY <2>3 DEF HostCall
  <2>10. Agree'
    BY <1>8, <2>4, <2>9, NoLowering DEF Agree, ReplayLowering, recorderVars, execVars
  <2>11. StateProper'
    BY <1>2, <2>3, <2>9 DEF StateProper
  <2>12. Matched' /\ recording' = recording /\ ~deviated' /\ validated' = validated
    <3>1. validated => \A k \in DOMAIN reallocs' : reallocs'[k] = <<>>
      <4>1. <<>> \in Seq(Args) /\ reallocs \in Seq(Seq(Args))
            /\ DOMAIN reallocs = 1..Len(reallocs)
        BY <1>2 DEF ReplayTypeOK
      <4>2. SUFFICES ASSUME validated
                     PROVE  \A k \in DOMAIN reallocs' : reallocs'[k] = <<>>
        OBVIOUS
      <4>3. \A k \in 1..Len(reallocs) : reallocs[k] = <<>>
        BY <1>5, <4>1, <4>2 DEF Sound, Matched
      <4>4. \A k \in DOMAIN Push(<<>>, reallocs) : Push(<<>>, reallocs)[k] = <<>>
        BY <4>1, <4>3, PushSame
      <4> QED
        BY <2>3, <4>4
    <3> QED
      BY <1>5, <3>1 DEF Sound, Matched, recorderVars
  <2> HIDE DEF check
  <2>13. CASE Validation(check) = <<>>
    BY <1>2, <1>5, <1>8, <2>1, <2>3, <2>5, <2>10, <2>11, <2>12, <2>13, StepDone
  <2>14. CASE validated /\ Validation(check) = <<check>>
    <3>1. trace' = <<check>> /\ Due' = <<check>> /\ ~NextIs("diagnostic")'
      BY <2>5, <2>7, <2>14, Single DEF Due, NextIs
    <3>2. CheckEntry("host_entry", rep)'
      <4>1. Left(<<check>>, <<>>)'
        BY <2>1, <2>3, <3>1 DEF Left
      <4>2. deviated' = (backing' # rep)
        BY <1>2, <1>5, <1>8 DEF ReplayTypeOK, Sound
      <4> QED
        BY <2>8, <2>10, <4>1, <4>2 DEF CheckEntry, Innermost, check
    <3>3. Coupled'
      BY <1>2, <1>5, <2>3, <2>4, <2>12, <2>14, <3>2 DEF Coupled, Checked, Sound
    <3> QED
      BY <1>2, <1>8, <2>3, <2>11, <2>12, <3>1, <3>3, CoupledStays
  <2> QED
    BY <2>6, <2>13, <2>14
<1> QED
  BY <1>4, <1>9, <1>10, <1>11

(* No loop meets an event it has no handler for, but a failed read.        *)
LEMMA UnexpectedCoupled ==
  ASSUME DriverInv, Coupling, UNCHANGED <<recorderVars, deviated>>, UnexpectedEvent
  PROVE  Coupling'
<1> DEFINE ev == Head(trace).ev
<1>1. /\ trace # <<>> /\ ev # "diagnostic" /\ Panic
      /\ InRunReplay \/ InHostCall \/ InBuiltinCall
  BY DEF UnexpectedEvent, Unread
<1>2. Coupled /\ Live
  BY <1>1, LoopFacts
<1>3. Due = trace
  BY <1>1 DEF Due, NextIs
<1>4. \A f \in Exports : AfterBegin(f) \/ AfterPostReturn(f) => stack = <<>>
  BY DEF AfterBegin, AfterPostReturn
<1>5. ev \in {"begin", "post_return", "entry", "eof"} => stack = <<>>
  <2>1. \A v \in Args : AfterEntry(v) => stack = <<>>
    BY DEF AfterEntry
  <2>2. Finished => stack = <<>>
    BY DEF Finished
  <2> QED
    BY <1>1, <1>2, <1>3, <1>4, <2>1, <2>2, Expected
<1>6. ev = "wasm_return" => ~InBuiltinCall
  <2>1. \A v \in Args : AfterExit(v) => ~InBuiltinCall
    BY DEF AfterExit, Leaving, InBuiltinCall, Innermost
  <2>2. \A v \in Args : CheckExit(v) => ~InBuiltinCall
    BY DEF CheckExit, InBuiltinCall, Innermost
  <2> QED
    BY <1>1, <1>2, <1>3, <2>1, <2>2, Expected
<1>7. ev = "realloc_return" => ~InBuiltinCall
  <2>1. \A v \in Args : AfterReallocReturn(v) => ~InBuiltinCall
    BY DEF AfterReallocReturn, Leaving, InBuiltinCall, Innermost
  <2>2. \A v \in Args : CheckRealloc(v) => ~InBuiltinCall
    BY DEF CheckRealloc, InBuiltinCall, Innermost
  <2> QED
    BY <1>1, <1>2, <1>3, <2>1, <2>2, Expected
<1>8. ev \in {"lower_entry", "lower_return", "realloc", "write"} => ~InBuiltinCall
  <2>1. ReplayLowers => ~InBuiltinCall
    BY DEF ReplayLowers, InBuiltinCall, Innermost
  <2>2. /\ \A e : AfterLower(e) => ReplayLowers
        /\ \A v \in Args : AfterRealloc(v) \/ AfterWrite(v) => ReplayLowers
    BY DEF AfterLower, AfterRealloc, AfterWrite
  <2> QED
    BY <1>1, <1>2, <1>3, <2>1, <2>2, Expected
<1>9. ev # "grow"
  <2>1. \A v \in Args : ~AfterGrow(v)
    BY <1>1 DEF AfterGrow, InRunReplay, InHostCall, InBuiltinCall, Innermost,
                GuestKinds, CodeKinds
  <2> QED
    BY <1>1, <1>2, <1>3, <2>1, Expected
<1>10. ev \in {"host_return", "host_return_empty"} => ~InRunReplay /\ ~InBuiltinCall
  <2>1. \A e \in EventSet, v \in Args :
          AfterHostReturn(e, v) => ~InRunReplay /\ ~InBuiltinCall
    BY DEF AfterHostReturn, Leaving, InRunReplay, InBuiltinCall, Innermost
  <2> QED
    BY <1>1, <1>2, <1>3, <2>1, Expected
<1>11. ev = "builtin_return" => ~InRunReplay /\ ~InHostCall
  <2>1. \A rep : AfterBuiltinReturn(rep) \/ AfterGuestDtor(rep) \/ AfterHostDtor(rep)
                   => ~InRunReplay /\ ~InHostCall
    BY DEF AfterBuiltinReturn, AfterGuestDtor, AfterHostDtor, InRunReplay, InHostCall,
           Innermost
  <2> QED
    BY <1>1, <1>2, <1>3, <2>1, Expected
<1>12. /\ ev = "host_entry" => ~InRunReplay /\ ~InBuiltinCall
       /\ ev = "builtin_entry" => ~InRunReplay /\ ~InHostCall
  <2>1. \A i \in Imports, v \in Args : ~AfterCall(i, v)
    BY <1>1 DEF AfterCall, InRunReplay, InHostCall, InBuiltinCall, Innermost, CodeKinds
  <2>2. /\ \A v \in Args : CheckEntry("host_entry", v) => ~InRunReplay /\ ~InBuiltinCall
        /\ \A v \in Args : CheckEntry("builtin_entry", v) => ~InRunReplay /\ ~InHostCall
    BY DEF CheckEntry, InRunReplay, InHostCall, InBuiltinCall, Innermost
  <2> QED
    BY <1>1, <1>2, <1>3, <2>1, <2>2, Expected
<1>13. stack = <<>> => ~InHostCall /\ ~InBuiltinCall
  BY DEF InHostCall, InBuiltinCall, Innermost
<1>14. ev \in {"begin", "entry", "post_return", "lower_entry", "lower_return",
               "realloc", "write", "grow", "host_return", "host_return_empty",
               "builtin_return", "eof", "read_error", "wasm_return",
               "realloc_return", "host_entry", "builtin_entry"}
  BY <1>1, <1>2, <1>3, Expected
<1> HIDE DEF ev
<1>15. \/ InRunReplay /\ ev \notin MainEvents
       \/ InHostCall /\ ev \notin HostEvents
       \/ InBuiltinCall /\ ev \notin BuiltinEvents
  BY DEF UnexpectedEvent, ev
<1>16. ev = "read_error"
  <2>1. CASE InRunReplay /\ ev \notin MainEvents
    BY <2>1, <1>9, <1>10, <1>11, <1>12, <1>14 DEF MainEvents
  <2>2. CASE InHostCall /\ ev \notin HostEvents
    BY <2>2, <1>5, <1>9, <1>11, <1>12, <1>13, <1>14 DEF HostEvents
  <2>3. CASE InBuiltinCall /\ ev \notin BuiltinEvents
    BY <2>3, <1>5, <1>6, <1>7, <1>8, <1>9, <1>10, <1>12, <1>13, <1>14 DEF BuiltinEvents
  <2> QED
    BY <1>15, <2>1, <2>2, <2>3
<1>17. recording = "torn"
  BY <1>1, <1>2, <1>3, <1>16, Expected DEF Torn, ev
<1> QED
  BY <1>1, <1>2, <1>17, PanicCoupled

----------------------------------------------------------------------------
(* The guest.  Where it deviates, the event to notice it is next.          *)

(* The script is one step, and the guest takes it, or something else.      *)
LEMMA DoesIt ==
  ASSUME ReplayTypeOK, ~deviated, NEW step, script = <<step>>, NEW v, Does(v)
  PROVE  /\ Head(script) = step /\ Tail(script) = <<>>
         /\ deviated' = (v # step.val)
         /\ deviated' => validated
BY Single DEF Does, ReplayTypeOK

LEMMA TraceKept ==
  ASSUME Coupling, UNCHANGED trace
  PROVE  Due' = Due /\ (NextIs("diagnostic") => Due # <<>>)'
BY DEF Coupling, Due, NextIs

LEMMA NotBoot ==
  ASSUME ReplayTypeOK, StateProper, Live, NEW kinds, Innermost(stack, kinds),
         "start" \notin kinds
  PROVE  status = "running"
BY InnermostFacts DEF StateProper, Live

LEMMA CallCoupled ==
  ASSUME DriverInv, Coupling, UNCHANGED recorderVars, NEW v \in Args, GuestCall(v)
  PROVE  Coupling'
<1>1. GuestDoes(CodeKinds, "call") /\ Does(v)
  BY DEF GuestCall
<1>2. /\ initialized /\ Coupled /\ StateProper /\ Live /\ recording # "foreign"
      /\ Innermost(stack, CodeKinds) /\ script # <<>> /\ Head(script).op = "call"
      /\ ReplayInv /\ ReplayTypeOK
  BY <1>1, ActFacts
<1>3. PICK i \in Imports, w \in Args : AfterCall(i, w)
  BY <1>2, Acting
<1>4. Sound
  BY <1>2, Acting
<1> DEFINE check == Event(EntryEvent[CallKind(i)], None, w)
<1>5. /\ Left(Validation(check), <<Step("call", "import", i, w)>>)
      /\ Entering(Frame(CallKind(i), i))
  BY <1>3 DEF AfterCall
<1>6. /\ Head(script) = Step("call", "import", i, w) /\ Tail(script) = <<>>
      /\ deviated' = (v # w) /\ (deviated' => validated)
  BY <1>1, <1>2, <1>4, <1>5, DoesIt DEF Left, Sound, Step
<1>7. /\ backing' = v /\ stack' = Push(Frame(CallKind(i), i), stack)
      /\ dstate' = IF Kind[i] = "host" THEN HostCall(i) ELSE BuiltinCall(i)
      /\ reallocs' = IF Kind[i] = "host" THEN Push(<<>>, reallocs) ELSE reallocs
      /\ script' = <<>> /\ UNCHANGED <<trace, status, initialized, postArgs>>
  BY <1>6 DEF GuestCall, CalleeState, Step
<1>8. Due' = Validation(check) /\ (NextIs("diagnostic") => Due # <<>>)'
  BY <1>5, <1>7, TraceKept DEF Left
<1>9. /\ stack' # <<>> /\ Head(stack').kind = CallKind(i)
      /\ dstate'.kind \in {"host", "builtin"}
  <2>1. Frame(CallKind(i), i) \in FrameSet /\ Frame(CallKind(i), i).kind = CallKind(i)
    BY FrameType DEF CallKind, FrameKinds, Frame
  <2>2. stack \in Seq(FrameSet)
    BY <1>2 DEF ReplayTypeOK
  <2> QED
    BY <1>7, <2>1, <2>2, PushPop DEF HostCall, BuiltinCall
<1>10. Agree'
  <2>1. lowering = None
    BY <1>2, <1>5, NoLowering DEF Entering, ReplayLowering, Innermost, CodeKinds
  <2> QED
    BY <1>5, <1>7, <1>9, <2>1, NoLowering
       DEF Entering, Agree, ReplayLowering, recorderVars, execVars
<1>11. status = "running" /\ StateProper'
  <2>1. status = "running"
    BY <1>2, NotBoot DEF CodeKinds
  <2> QED
    BY <1>7, <1>9, <2>1 DEF StateProper
<1>12. Matched' /\ UNCHANGED <<recording, validated>>
  <2>1. /\ <<>> \in Seq(Args) /\ reallocs \in Seq(Seq(Args))
        /\ DOMAIN reallocs = 1..Len(reallocs)
    BY <1>2 DEF ReplayTypeOK
  <2>2. ASSUME validated PROVE \A k \in DOMAIN reallocs' : reallocs'[k] = <<>>
    <3>1. \A k \in DOMAIN reallocs : reallocs[k] = <<>>
      BY <1>4, <2>2 DEF Sound, Matched
    <3>2. \A k \in DOMAIN Push(<<>>, reallocs) : Push(<<>>, reallocs)[k] = <<>>
      BY <2>1, <3>1, PushSame
    <3> QED
      BY <1>7, <3>1, <3>2
  <2> QED
    BY <2>2 DEF Matched, recorderVars
<1> HIDE DEF check
<1>13. CASE ~validated
  <2>1. Due' = <<>> /\ ~deviated'
    BY <1>6, <1>8, <1>13 DEF Validation
  <2>2. InStep'
    BY <1>7, <1>10, <2>1 DEF InStep, Left
  <2>3. Coupled'
    BY <1>4, <1>12, <2>1, <2>2 DEF Coupled, Recorded, Sound
  <2> QED
    BY <1>2, <1>7, <1>8, <1>11, <1>12, <2>3, CoupledStays
<1>14. CASE validated
  <2> DEFINE e == EntryEvent[CallKind(i)]
  <2>1. Left(<<check>>, <<>>)'
    BY <1>7, <1>8, <1>14 DEF Left, Validation
  <2>2. e \in {"host_entry", "builtin_entry"}
        /\ CallKind(i) \in IF e = "host_entry" THEN {"host", "hdtor"} ELSE {"builtin"}
    BY DEF EntryEvent, CallKind
  <2>3. deviated' = (backing' # w)
    BY <1>6, <1>7
  <2>4. CheckEntry(e, w)'
    BY <1>9, <1>10, <2>1, <2>2, <2>3 DEF CheckEntry, Innermost, check
  <2>5. Coupled'
    <3> HIDE DEF e
    <3> QED
      BY <1>4, <1>7, <1>11, <1>12, <1>14, <2>2, <2>4 DEF Coupled, Checked, Sound
  <2> QED
    BY <1>2, <1>7, <1>8, <1>11, <1>12, <2>5, CoupledStays
<1> QED
  BY <1>13, <1>14

LEMMA ExitCoupled ==
  ASSUME DriverInv, Coupling, UNCHANGED recorderVars, NEW v \in Args, GuestExit(v)
  PROVE  Coupling'
<1>1. GuestDoes({"core"}, "exit") /\ Does(v)
  BY DEF GuestExit
<1>2. /\ initialized /\ Coupled /\ StateProper /\ Live /\ recording # "foreign"
      /\ Innermost(stack, {"core"}) /\ script # <<>> /\ Head(script).op = "exit"
      /\ ReplayInv /\ ReplayTypeOK
  BY <1>1, ActFacts
<1>3. PICK w \in Args : AfterExit(w)
  BY <1>2, Acting
<1>4. Sound
  BY <1>2, Acting
<1> DEFINE check == Event("wasm_return", None, w)
           f == Head(stack).idx
<1>5. /\ Left(Validation(check), <<Step("exit", "export", f, w)>>)
      /\ Leaving({"core"}) /\ owed = [postArgs EXCEPT ![f] = w]
  BY <1>3 DEF AfterExit
<1>6. /\ Tail(script) = <<>> /\ deviated' = (v # w) /\ (deviated' => validated)
  BY <1>1, <1>2, <1>4, <1>5, DoesIt DEF Left, Sound, Step
<1>7. /\ backing' = v /\ postArgs' = [postArgs EXCEPT ![f] = v] /\ dstate' = Root
      /\ stack' = Tail(stack) /\ script' = <<>>
      /\ UNCHANGED <<trace, status, initialized, reallocs>>
  BY <1>6 DEF GuestExit, ResultBuffer, StateAfterCall
<1>8. Due' = Validation(check) /\ (NextIs("diagnostic") => Due # <<>>)'
  BY <1>5, <1>7, TraceKept DEF Left
<1>9. stack' = <<>>
  BY <1>2, <1>7, InnermostFacts, PoppedStack DEF ReplayInv
<1>10. /\ frames = <<>> /\ lowering = None /\ LoweringIn(stack', dstate') = None
       /\ UNCHANGED <<frames, lowering, owed, recording, validated>>
  BY <1>2, <1>5, <1>7, <1>9, NoLowering
     DEF Leaving, ReplayLowering, Root, Innermost, recorderVars, execVars
<1>11. status = "running" /\ StateProper'
  <2>1. status = "running"
    BY <1>2, NotBoot
  <2> QED
    BY <1>7, <2>1 DEF StateProper, Root
<1>12. Matched'
  BY <1>4, <1>7, <1>10 DEF Sound, Matched
<1> HIDE DEF check, f
<1>13. CASE ~validated
  <2>1. Due' = <<>> /\ ~deviated' /\ v = w
    BY <1>6, <1>8, <1>13 DEF Validation
  <2>2. InStep'
    BY <1>5, <1>7, <1>9, <1>10, <2>1 DEF InStep, Left, Agree, ReplayLowering
  <2>3. Coupled'
    BY <1>4, <1>10, <1>12, <2>1, <2>2 DEF Coupled, Recorded, Sound
  <2> QED
    BY <1>2, <1>7, <1>8, <1>10, <1>11, <2>3, CoupledStays
<1>14. CASE validated
  <2>1. Left(<<check>>, <<>>)'
    BY <1>7, <1>8, <1>14 DEF Left, Validation
  <2>2. deviated' = (backing' # w) /\ (~deviated' => owed' = postArgs')
    BY <1>5, <1>6, <1>7, <1>10
  <2>3. CheckExit(w)'
    BY <1>7, <1>9, <1>10, <2>1, <2>2 DEF CheckExit, check
  <2>4. Coupled'
    BY <1>4, <1>7, <1>10, <1>11, <1>12, <1>14, <2>3 DEF Coupled, Checked, Sound
  <2> QED
    BY <1>2, <1>7, <1>8, <1>10, <1>11, <2>4, CoupledStays
<1> QED
  BY <1>13, <1>14

LEMMA ReallocDoneCoupled ==
  ASSUME DriverInv, Coupling, UNCHANGED recorderVars, NEW v \in Args,
         GuestReallocDone(v)
  PROVE  Coupling'
<1>1. GuestDoes({"realloc"}, "realloc_done") /\ Does(v)
  BY DEF GuestReallocDone
<1>2. /\ initialized /\ Coupled /\ StateProper /\ Live /\ recording # "foreign"
      /\ Innermost(stack, {"realloc"}) /\ script # <<>>
      /\ Head(script).op = "realloc_done"
      /\ ReplayInv /\ ReplayTypeOK /\ Context
  BY <1>1, ActFacts
<1>3. PICK w \in Args : AfterReallocReturn(w)
  BY <1>2, Acting
<1>4. Sound
  BY <1>2, Acting
<1> DEFINE check == Event("realloc_return", None, w)
<1>5. /\ Left(Validation(check), <<Step("realloc_done", "none", None, w)>>)
      /\ Leaving({"realloc"}) /\ owed = postArgs
  BY <1>3 DEF AfterReallocReturn
<1>6. /\ Tail(script) = <<>> /\ deviated' = (v # w) /\ (deviated' => validated)
  BY <1>1, <1>2, <1>4, <1>5, DoesIt DEF Left, Sound, Step
<1>7. /\ reallocs' = Push(Push(v, Head(reallocs)), Tail(reallocs))
      /\ stack' = Tail(stack) /\ script' = <<>>
      /\ UNCHANGED <<trace, status, dstate, initialized, postArgs>>
  BY <1>6 DEF GuestReallocDone, ReallocResult, globalVars
<1>8. Due' = Validation(check) /\ (NextIs("diagnostic") => Due # <<>>)'
  BY <1>5, <1>7, TraceKept DEF Left
<1>9. /\ \/ stack' = <<>> /\ dstate.kind = "setup"
         \/ Innermost(stack', {"host", "hdtor"}) /\ dstate.kind = "host"
      /\ LoweringIn(stack', dstate) = LoweringIn(stack, dstate)
  <2>1. /\ stack # <<>> /\ stack[1].kind = "realloc" /\ Head(stack) = stack[1]
        /\ stack' \in Seq(FrameSet)
        /\ IF Len(stack) = 1 THEN stack' = <<>>
           ELSE /\ stack' # <<>> /\ stack'[1] = stack[2]
                /\ stack[2].kind \in {"host", "hdtor"}
    BY <1>2, <1>7, InnermostFacts, PoppedStack DEF ReplayInv
  <2>2. CASE Len(stack) = 1
    BY <1>2, <2>1, <2>2 DEF Context, LoweringIn
  <2>3. CASE Len(stack) # 1
    <3>1. dstate.kind = "host"
      BY <1>2, <2>1, <2>3 DEF Context, HostCall
    <3>2. Head(stack') = stack'[1]
      BY <2>1, <2>3, PopFacts
    <3> QED
      BY <2>1, <2>3, <3>1, <3>2, NoLowering DEF Innermost
  <2> QED
    BY <2>2, <2>3
<1>10. Agree' /\ UNCHANGED <<recording, validated>>
  BY <1>5, <1>7, <1>9 DEF Leaving, Agree, ReplayLowering, recorderVars, execVars
<1>11. status = "running" /\ StateProper'
  <2>1. status = "running"
    BY <1>2, NotBoot
  <2> QED
    BY <1>2, <1>7, <2>1 DEF StateProper
<1> HIDE DEF check
<1>12. CASE ~validated
  <2>1. Due' = <<>> /\ ~deviated' /\ Matched'
    BY <1>6, <1>8, <1>10, <1>12 DEF Validation, Matched
  <2>2. InStep'
    BY <1>7, <1>10, <2>1 DEF InStep, Left
  <2>3. Coupled'
    BY <1>4, <1>10, <2>1, <2>2 DEF Coupled, Recorded, Sound
  <2> QED
    BY <1>2, <1>7, <1>8, <1>10, <1>11, <2>3, CoupledStays
<1>13. CASE validated
  <2>1. Left(<<check>>, <<>>)'
    BY <1>7, <1>8, <1>13 DEF Left, Validation
  <2> DEFINE top == Push(v, Head(reallocs))
  <2>2. /\ reallocs \in Seq(Seq(Args)) /\ reallocs # <<>>
        /\ Head(reallocs) \in Seq(Args) /\ Tail(reallocs) \in Seq(Seq(Args))
    BY <1>2, ReallocFacts
  <2>3. /\ Head(reallocs) = reallocs[1]
        /\ Len(Tail(reallocs)) = Len(reallocs) - 1 /\ Len(reallocs) \in Nat \ {0}
        /\ DOMAIN reallocs = 1..Len(reallocs)
        /\ \A k \in 1..(Len(reallocs) - 1) : Tail(reallocs)[k] = reallocs[k + 1]
    BY <2>2, PopFacts, LenProperties
  <2>4. \A k \in DOMAIN reallocs : reallocs[k] = <<>>
    BY <1>4, <1>13 DEF Sound, Matched
  <2>5. top = <<v>>
    BY <2>3, <2>4, PushOnEmpty
  <2>6. top \in Seq(Args) /\ Len(top) = 1 /\ Head(top) = v
    <3>1. <<v>> \in Seq(Args) /\ Len(<<v>>) = 1 /\ Head(<<v>>) = v
      OBVIOUS
    <3> QED
      BY <2>5, <3>1
  <2> DEFINE rest == Tail(reallocs)
  <2>r. rest \in Seq(Seq(Args)) /\ reallocs' = Push(top, rest)
    BY <1>7, <2>2
  <2> HIDE DEF top, rest
  <2>7. /\ reallocs' \in Seq(Seq(Args)) /\ Len(reallocs') = Len(Tail(reallocs)) + 1
        /\ reallocs' # <<>> /\ reallocs'[1] = top
        /\ \A k \in 1..Len(Tail(reallocs)) : reallocs'[k + 1] = Tail(reallocs)[k]
    <3>1. /\ Push(top, rest) \in Seq(Seq(Args)) /\ Push(top, rest) # <<>>
          /\ Len(Push(top, rest)) = Len(rest) + 1 /\ Push(top, rest)[1] = top
          /\ \A k \in 1..Len(rest) : Push(top, rest)[k + 1] = rest[k]
      <4>1. top \in Seq(Args) /\ rest \in Seq(Seq(Args))
        BY <2>6, <2>r
      <4> QED
        BY ONLY <4>1, PushFacts
    <3> QED
      BY <2>r, <3>1 DEF rest
  <2>8. Head(reallocs') = top
    BY <2>7, PopFacts
  <2>9. \A k \in DOMAIN reallocs' : k > 1 => reallocs'[k] = <<>>
    <3>1. SUFFICES ASSUME NEW k \in DOMAIN reallocs', k > 1 PROVE reallocs'[k] = <<>>
      OBVIOUS
    <3>2. DOMAIN reallocs' = 1..Len(reallocs') /\ k \in 1..Len(reallocs)
      BY <2>3, <2>7, <3>1, LenProperties
    <3>3. k - 1 \in 1..(Len(reallocs) - 1) /\ (k - 1) + 1 = k
      BY <2>3, <3>1, <3>2
    <3> QED
      BY <2>3, <2>4, <2>7, <3>2, <3>3
  <2>10. deviated' = (Head(Head(reallocs')) # w)
    BY <1>6, <2>6, <2>8
  <2>11. CheckRealloc(w)'
    BY <1>7, <1>9, <1>10, <2>1, <2>6, <2>8, <2>9, <2>10
       DEF CheckRealloc, Innermost, check
  <2>12. Coupled'
    BY <1>4, <1>7, <1>10, <1>11, <1>13, <2>11 DEF Coupled, Sound
  <2> QED
    BY <1>2, <1>7, <1>8, <1>10, <1>11, <2>12, CoupledStays
<1> QED
  BY <1>12, <1>13

LEMMA GrowCoupled ==
  ASSUME DriverInv, Coupling, UNCHANGED recorderVars, GuestGrow
  PROVE  Coupling'
<1>1. GuestDoes(GuestKinds, "grow") /\ Unread
  BY DEF GuestGrow
<1>2. /\ initialized /\ Coupled /\ StateProper /\ Live /\ recording # "foreign"
      /\ script # <<>> /\ Head(script).op = "grow"
  BY <1>1, ActFacts
<1>3. PICK v \in Args : AfterGrow(v)
  BY <1>2, Acting
<1>4. Sound
  BY <1>2, Acting
<1> DEFINE first == Step("grow", "none", None, None)
           step == Step("grown", "none", None, v)
           e == Event("grow", None, v)
<1>5. trace = <<e>> /\ script = <<first, step>> /\ Agree
  BY <1>1, <1>3 DEF AfterGrow, Left, Due, Unread, NextIs
<1>6. e.ev = "grow" /\ e.val = v
  BY DEF Event
<1> HIDE DEF first, step, e
<1>7. NextIs("grow") /\ Value = v /\ Tail(script) = <<step>> /\ Tail(trace) = <<>>
  BY <1>5, <1>6, Single DEF NextIs, Value
<1>8. /\ trace' = <<>> /\ Deliver(<<step>>, step) /\ deviated' = deviated
      /\ UNCHANGED <<dstate, initialized, stack, reallocs, postArgs>>
  BY <1>7 DEF GuestGrow, OrPanic, Read, step, globalVars, localVars
<1>9. script' = <<>> /\ status' = status
  BY <1>8, Delivered
<1>10. Agree' /\ StateProper' /\ Matched' /\ recording' = recording /\ ~deviated'
  BY <1>2, <1>4, <1>5, <1>8, <1>9
     DEF Agree, ReplayLowering, StateProper, Matched, Sound, recorderVars, execVars
<1> QED
  BY <1>2, <1>4, <1>8, <1>9, <1>10, StepDone

(* A return of the guest after which the recorded run and the replay are   *)
(* at the same place: what is left of the script is taken, or delivered.   *)
LEMMA ReturnCoupled ==
  ASSUME DriverInv, Coupling, Coupled, Sound, UNCHANGED <<recorderVars, deviated>>,
         Live, initialized, StateProper, Due = <<>>,
         NEW k \in {"start", "post", "dtor"}, Leaving({k}), owed = postArgs,
         stack' = Tail(stack), script' = <<>>,
         UNCHANGED <<trace, status, globalVars, reallocs, postArgs>>
  PROVE  Coupling'
<1>1. ReplayTypeOK /\ Nested(stack) /\ Context /\ Innermost(stack, {k})
  BY SplitInv DEF ReplayInv, Leaving
<1>2. /\ stack # <<>> /\ Head(stack) = stack[1] /\ stack[1].kind = k
      /\ stack' \in Seq(FrameSet)
      /\ k \in {"start", "post"} => stack' = <<>>
      /\ k = "dtor" => stack' # <<>> /\ stack'[1].kind \in CodeKinds
  BY <1>1, InnermostFacts, PoppedStack
<1>3. LoweringIn(stack, dstate) = None /\ LoweringIn(stack', dstate) = None
  <2>1. LoweringIn(stack, dstate) = None
    BY <1>2, NoLowering
  <2>2. CASE k \in {"start", "post"}
    <3>1. dstate = Root
      BY <1>1, <1>2, <2>2 DEF Context
    <3> QED
      BY <2>1, <3>1, NoLowering DEF Root
  <2>3. CASE k = "dtor"
    <3>1. stack' # <<>> /\ Head(stack').kind \in CodeKinds
      BY <1>2, <2>3, PopFacts
    <3> QED
      BY <2>1, <3>1, NoLowering DEF CodeKinds
  <2> QED
    BY <2>2, <2>3
<1>4. UNCHANGED <<dstate, initialized, recording, validated, frames, lowering, owed>>
  BY DEF globalVars, recorderVars, execVars
<1>5. Agree' /\ Matched'
  BY <1>3, <1>4 DEF Leaving, Agree, ReplayLowering, Matched, Sound
<1>6. StateProper'
  <2>1. status = "boot" => k = "start"
    BY <1>2 DEF StateProper
  <2> QED
    BY <1>2, <1>4, <2>1 DEF StateProper
<1>7. Due' = <<>> /\ (NextIs("diagnostic") => Due # <<>>)'
  BY TraceKept
<1>8. Coupled'
  BY <1>4, <1>5, <1>7 DEF Coupled, Recorded, InStep, Left, Sound
<1> QED
  BY <1>4, <1>6, <1>7, <1>8, CoupledStays DEF Sound

LEMMA LeaveCoupled ==
  ASSUME DriverInv, Coupling, UNCHANGED recorderVars,
         NEW k \in {"start", "post"}, GuestLeave(k)
  PROVE  Coupling'
<1>1. GuestDoes({k}, DoneOp[k])
  BY DEF GuestLeave
<1>2. /\ initialized /\ Coupled /\ StateProper /\ Live /\ recording # "foreign"
      /\ script # <<>> /\ Head(script).op = DoneOp[k]
  BY <1>1, ActFacts
<1>3. DoneOp["start"] = "start_done" /\ DoneOp["post"] = "post_done"
  BY DEF DoneOp
<1>4. Sound /\ AfterLeave(k)
  BY <1>2, <1>3, Acting
<1>5. /\ Due = <<>> /\ Tail(script) = <<>> /\ Leaving({k}) /\ owed = postArgs
  BY <1>4, Single DEF AfterLeave, Left
<1>6. /\ stack' = Tail(stack) /\ script' = <<>>
      /\ UNCHANGED <<trace, status, deviated, globalVars, reallocs, postArgs>>
  BY <1>5 DEF GuestLeave
<1> QED
  BY <1>2, <1>4, <1>5, <1>6, ReturnCoupled

LEMMA DtorDoneCoupled ==
  ASSUME DriverInv, Coupling, UNCHANGED recorderVars, GuestDtorDone
  PROVE  Coupling'
<1>1. GuestDoes({"dtor"}, "dtor_done")
  BY DEF GuestDtorDone
<1>2. /\ initialized /\ Coupled /\ StateProper /\ Live /\ recording # "foreign"
      /\ script # <<>> /\ Head(script).op = "dtor_done"
  BY <1>1, ActFacts
<1>3. Sound /\ AfterDtorReturn
  BY <1>2, Acting
<1> DEFINE step == Step("ret", "import", Head(stack).idx, NoArgs)
           first == Step("dtor_done", "none", None, None)
<1>4. Due = <<>> /\ script = <<first, step>> /\ Leaving({"dtor"}) /\ owed = postArgs
  BY <1>3 DEF AfterDtorReturn, Left
<1>5. /\ Deliver(Tail(script), step) /\ stack' = Tail(stack)
      /\ UNCHANGED <<trace, deviated, globalVars, reallocs, postArgs>>
  BY DEF GuestDtorDone
<1> HIDE DEF first, step
<1>6. Tail(script) = <<step>>
  BY <1>4
<1>7. script' = <<>> /\ status' = status
  BY <1>5, <1>6, Delivered
<1> QED
  BY <1>2, <1>3, <1>4, <1>5, <1>7, ReturnCoupled

----------------------------------------------------------------------------
(* The theorems.                                                           *)

LEMMA CouplingInit == ASSUME Init PROVE Coupling
<1>1. /\ status = "boot" /\ ~initialized /\ ~deviated /\ script = <<>>
      /\ recording \in {"live", "foreign"} /\ dstate = Root
      /\ reallocs = <<<<>>>> /\ stack = frames
      /\ frames \in {<<>>, <<Frame("start", None)>>}
      /\ lowering = None /\ owed = [f \in Exports |-> None]
      /\ postArgs = [f \in Exports |-> None]
  BY DEF Init, ExecInit
<1>2. AtBoot(IF recording = "live" THEN "inst" ELSE "foreign_inst")
  BY <1>1 DEF Init, AtBoot
<1>3. StateProper
  <2>1. stack # <<>> => stack[1].kind = "start"
    BY <1>1 DEF Frame
  <2> QED
    BY <1>1, <2>1 DEF StateProper, Root
<1>4. Agree
  BY <1>1, NoLowering DEF Agree, ReplayLowering, Root
<1>5. Matched
  BY <1>1 DEF Matched
<1>6. ~NextIs("diagnostic")
  BY <1>2, Single DEF AtBoot, NextIs, Event
<1> QED
  BY <1>1, <1>2, <1>3, <1>4, <1>5, <1>6 DEF Coupling

LEMMA CouplingStep ==
  ASSUME DriverInv, Coupling, [Next]_vars
  PROVE  Coupling'
<1>1. CASE Recorder /\ UNCHANGED deviated
  BY <1>1, RecorderCoupled
<1>2. CASE Driver /\ UNCHANGED deviated /\ UNCHANGED recorderVars
  BY <1>2, SkipCoupled, StartCoupled, BeginCoupled, EntryCoupled, PostReturnCoupled,
     EofCoupled, WasmReturnCoupled, LowerCoupled, ReallocCoupled, ReallocReturnCoupled,
     WriteCoupled, CallEntryCoupled, HostReturnCoupled, BuiltinReturnCoupled,
     UnexpectedCoupled DEF Driver
<1>3. CASE Guest /\ UNCHANGED recorderVars
  BY <1>3, CallCoupled, ExitCoupled, ReallocDoneCoupled, GrowCoupled, LeaveCoupled,
     DtorDoneCoupled DEF Guest
<1>4. CASE UNCHANGED vars
  <2>1. /\ UNCHANGED <<recorderVars, trace, script, status, deviated, globalVars, localVars>>
        /\ UNCHANGED <<recording, dstate, backing, initialized, stack, validated,
                       reallocs, postArgs, frames, lowering, owed>>
    BY <1>4 DEF vars, recorderVars, execVars, globalVars, localVars
  <2>2. Due' = Due /\ StateProper' /\ (NextIs("diagnostic") => Due # <<>>)'
    BY <2>1, TraceKept DEF Coupling, StateProper
  <2>3. Coupled => Coupled'
    BY <2>1, <2>2, CoupledKept
  <2>4. /\ AtBoot("inst") => AtBoot("inst")'
        /\ AtBoot("foreign_inst") => AtBoot("foreign_inst")'
        /\ Agree => Agree'
        /\ Matched => Matched'
        /\ Live' => Live
    BY <2>1 DEF AtBoot, Agree, ReplayLowering, Matched, Live
  <2>5. /\ recording' = recording /\ status' = status /\ trace' = trace
        /\ deviated' = deviated /\ initialized' = initialized
        /\ stack' = stack /\ dstate' = dstate
    BY <2>1
  <2>6. StateProper' /\ (NextIs("diagnostic") => Due # <<>>)'
    BY <2>2
  <2>7. (recording = "foreign" => AtBoot("foreign_inst") \/ status = "panicked")'
    BY <2>4, <2>5 DEF Coupling
  <2>8. (Live /\ recording # "foreign" =>
           IF initialized THEN Coupled
           ELSE recording = "live" /\ AtBoot("inst") /\ Agree /\ Matched)'
    <3>1. SUFFICES ASSUME Live', recording # "foreign"
          PROVE  IF initialized THEN Coupled'
                 ELSE recording = "live" /\ AtBoot("inst")' /\ Agree' /\ Matched'
      BY <2>5
    <3>2. IF initialized THEN Coupled
          ELSE recording = "live" /\ AtBoot("inst") /\ Agree /\ Matched
      BY <2>4, <3>1 DEF Coupling
    <3> QED
      BY <2>3, <2>4, <3>2
  <2>9. /\ (status = "panicked" =>
              \/ recording \in {"torn", "foreign"}
              \/ (recording = "live" /\ trace # <<>> /\ deviated))'
        /\ (status = "done" =>
              recording = "closed" /\ stack = <<>> /\ dstate = Root /\ ~deviated)'
        /\ status' # "diverged"
    BY <2>5 DEF Coupling, Root
  <2> QED
    BY <2>6, <2>7, <2>8, <2>9 DEF Coupling
<1> QED
  BY <1>1, <1>2, <1>3, <1>4 DEF Next, Replay, Ended

LEMMA CouplingAlways == Spec => [](DriverInv /\ Coupling)
<1>1. Init => DriverInv /\ Coupling
  BY DriverInvInit, CouplingInit
<1>2. (DriverInv /\ Coupling) /\ [Next]_vars => (DriverInv /\ Coupling)'
  BY DriverInvStep, CouplingStep
<1> QED
  BY <1>1, <1>2, PTL DEF Spec

(* Replay of an intact trace of this component, by a guest that behaves as *)
(* recorded, never panics, whatever the component and the execution.       *)
THEOREM NoSpuriousPanicAlways == Spec => []NoSpuriousPanic
<1>1. DriverInv /\ Coupling => NoSpuriousPanic
  BY DEF Coupling, NoSpuriousPanic
<1> QED
  BY <1>1, CouplingAlways, PTL

(* The guest is given exactly what it was given when recorded: arguments,  *)
(* results, reallocs, writes, destructor calls and post-returns.           *)
THEOREM FaithfulAlways == Spec => []Faithful
<1>1. DriverInv /\ Coupling => Faithful
  BY DEF Coupling, Faithful
<1> QED
  BY <1>1, CouplingAlways, PTL

(* The replay reports success only on a whole recording of this component, *)
(* and when all of it has been replayed.                                   *)
THEOREM CompletesOnlyWholeAlways == Spec => []CompletesOnlyWhole
<1>1. DriverInv /\ Coupling => CompletesOnlyWhole
  BY DEF Coupling, CompletesOnlyWhole, AtBoot
<1> QED
  BY <1>1, CouplingAlways, PTL

(* In a validated trace, every realloc the guest ran has been matched with *)
(* its return event by the time the loop that dispatched it goes on.       *)
THEOREM ReallocsMatchedAlways == Spec => []ReallocsMatched
<1>1. DriverInv /\ Coupling => ReallocsMatched
  BY SyncedFacts DEF Sound, Matched, ReallocsMatched
<1> QED
  BY <1>1, CouplingAlways, PTL

----------------------------------------------------------------------------
(* A guest that has deviated waits for the event that notices it.          *)

LEMMA DeviatedFacts ==
  ASSUME Coupling, Live, deviated
  PROVE  /\ script = <<>> /\ status = "running" /\ initialized
         /\ Due # <<>> /\ Head(Due).ev \in
              {"wasm_return", "realloc_return", "host_entry", "builtin_entry"}
<1>1. initialized /\ Coupled
  BY DEF Coupling, AtBoot, Live
<1>2. status = "running" /\ (Checked \/ \E v \in Args : CheckRealloc(v))
  BY <1>1 DEF Coupled, Torn, Finished
<1>3. ASSUME NEW v, CheckExit(v) \/ CheckRealloc(v)
      PROVE  /\ script = <<>> /\ Due # <<>>
             /\ Head(Due).ev \in {"wasm_return", "realloc_return"}
  <2>1. \/ Left(<<Event("wasm_return", None, v)>>, <<>>)
        \/ Left(<<Event("realloc_return", None, v)>>, <<>>)
    BY <1>3 DEF CheckExit, CheckRealloc
  <2> QED
    BY <2>1 DEF Left, Event
<1>4. ASSUME NEW e, NEW v, CheckEntry(e, v)
      PROVE  script = <<>> /\ Due # <<>> /\ Head(Due).ev = e
  BY <1>4 DEF CheckEntry, Left, Event
<1> QED
  BY <1>1, <1>2, <1>3, <1>4 DEF Checked

RecordsOnly == Synced /\ UNCHANGED <<status, globalVars, localVars>>

LEMMA RecorderOnly ==
  ASSUME Recorder PROVE RecordsOnly
<1> USE DEF Record, RecordsOnly
<1>1. /\ \A f : RecBegin(f) \/ RecPostReturn(f) => RecordsOnly
      /\ \A ev : RecLower(ev) => RecordsOnly
  BY DEF RecBegin, RecPostReturn, RecLower
<1>2. \A v : RecRealloc(v) \/ RecReallocReturn(v) \/ RecWrite(v) => RecordsOnly
  BY DEF RecRealloc, RecReallocReturn, RecWrite
<1>3. \A v : RecEntry(v) \/ RecExit(v) \/ RecGrow(v) \/ RecHostReturn(v) => RecordsOnly
  BY DEF RecEntry, RecExit, RecGrow, RecHostReturn
<1>4. /\ \A k : RecLeave(k) => RecordsOnly
      /\ \A i, v : RecCall(i, v) => RecordsOnly
      /\ RecDtorReturn \/ RecFinish \/ RecCrash => RecordsOnly
  BY DEF RecLeave, RecCall, RecDtorReturn, RecFinish, RecCrash
<1>5. ASSUME NEW rep, RecBuiltinReturn(rep) PROVE RecordsOnly
  <2> DEFINE dtor == DtorFrames(Head(frames).idx, rep)
  <2>1. CASE dtor = <<>>
    BY <1>5, <2>1 DEF RecBuiltinReturn
  <2>2. CASE dtor # <<>> /\ Kind[Head(frames).idx] = "guest_dtor"
    BY <1>5, <2>2 DEF RecBuiltinReturn
  <2>3. CASE dtor # <<>> /\ Kind[Head(frames).idx] # "guest_dtor"
    BY <1>5, <2>3 DEF RecBuiltinReturn
  <2> QED
    BY <2>1, <2>2, <2>3
<1> QED
  BY <1>1, <1>2, <1>3, <1>4, <1>5 DEF Recorder

LEMMA StopsStep ==
  ASSUME DriverInv, Coupling, [Next]_vars, deviated
  PROVE  UNCHANGED script /\ status' \in {status, "panicked"}
<1>1. CASE Recorder
  BY <1>1, RecorderOnly, SyncedFacts DEF RecordsOnly, Sound
<1>2. CASE Driver
  <2>1. CASE SkipDiagnostic \/ WasmFuncReturn \/ ReadLower \/ HostFuncEntry
             \/ BuiltinEntry \/ UnexpectedEvent
    BY <2>1 DEF SkipDiagnostic, WasmFuncReturn, ReadLower, HostFuncEntry,
                BuiltinEntry, UnexpectedEvent, OrPanic, Panic
  <2>2. CASE ReallocReturn
    BY <2>2 DEF ReallocReturn, OrPanic, Panic
  <2>3. CASE StartFunction \/ RunReplay
    BY <2>3, DeviatedFacts DEF StartFunction, RunReplay, Live
  <2>4. \A e \in {"begin", "entry", "post_return", "eof", "realloc", "write",
                  "host_return", "host_return_empty", "builtin_return"} :
          Live => ~NextIs(e)
    <3>1. SUFFICES ASSUME Live,
                          NEW e \in {"begin", "entry", "post_return", "eof", "realloc",
                            "write", "host_return", "host_return_empty", "builtin_return"},
                          NextIs(e)
                   PROVE  FALSE
      OBVIOUS
    <3>2. Head(Due).ev = e
      BY <3>1, NextDue DEF EventKinds
    <3> QED
      BY <3>1, <3>2, DeviatedFacts
  <2>5. InRunReplay \/ InHostCall \/ InBuiltinCall => Live
    BY DEF InRunReplay, InHostCall, InBuiltinCall, Live
  <2>6. ~(WasmFuncBegin \/ WasmFuncEntry \/ ReadPostReturn \/ Eof)
    BY <2>4, <2>5 DEF WasmFuncBegin, WasmFuncEntry, ReadPostReturn, Eof, EndOfTrace
  <2>7. ~(ReallocEntry \/ MemorySliceWrite \/ HostFuncReturn \/ ReadBuiltinReturn)
    BY <2>4, <2>5 DEF ReallocEntry, MemorySliceWrite, HostFuncReturn, ReadBuiltinReturn
  <2> QED
    BY <1>2, <2>1, <2>2, <2>3, <2>6, <2>7 DEF Driver
<1>3. CASE Guest
  <2>1. \A kinds, op : GuestDoes(kinds, op) => Live /\ script # <<>>
    BY DEF GuestDoes
  <2>2. Live /\ script # <<>>
    BY <1>3, <2>1 DEF Guest, GuestCall, GuestExit, GuestReallocDone, GuestGrow,
                      GuestLeave, GuestDtorDone
  <2> QED
    BY <2>2, DeviatedFacts
<1>4. CASE UNCHANGED vars
  BY <1>4 DEF vars
<1> QED
  BY <1>1, <1>2, <1>3, <1>4 DEF Next, Replay, Ended

(* A guest that passes or returns another value than the recorded one is   *)
(* given nothing more: the next event of its trace that it waits for is    *)
(* the one that validates that value.                                      *)
THEOREM DeviationStopsAlways == Spec => DeviationStops
<1>1. DriverInv /\ Coupling /\ [Next]_vars
        => [deviated => UNCHANGED script /\ status' \in {status, "panicked"}]_vars
  BY StopsStep
<1> QED
  BY <1>1, CouplingAlways, PTL DEF Spec, DeviationStops

----------------------------------------------------------------------------
(* Refinement.  The replay implements Execution under the mapping of       *)
(* Replayed: each step of the driver or the guest is a step of the         *)
(* execution or leaves it where it is.                                     *)

Refines == [Replayed!ExecNext]_(Replayed!execVars)

(* Steps that the execution does not see, or sees only the end of.         *)
Unseen == UNCHANGED <<stack, ReplayLowering, postArgs>>
NotOver == status # "done" /\ status' # "done"

LEMMA UnseenRefines ==
  ASSUME Unseen, status' = status \/ NotOver
  PROVE  Refines
<1>1. (status' = "done") = (status = "done")
  BY DEF NotOver
<1> QED
  BY <1>1 DEF Unseen, Refines, Replayed!execVars, ReplayLowering, LoweringIn

LEMMA PanicUnseen ==
  ASSUME Live, Panic
  PROVE  Refines
<1>1. Unseen /\ NotOver
  BY DEF Panic, Live, Unseen, NotOver, ReplayLowering, LoweringIn, globalVars, localVars
<1> QED
  BY <1>1, UnseenRefines

LEMMA ReadUnseen ==
  ASSUME UNCHANGED <<status, dstate, stack, postArgs>>
  PROVE  Refines
<1>1. Unseen
  BY DEF Unseen, ReplayLowering, LoweringIn
<1> QED
  BY <1>1, UnseenRefines

LEMMA DeliverStatus ==
  ASSUME Live, NEW recorded, NEW step, Deliver(recorded, step)
  PROVE  NotOver
BY DEF Deliver, Live, NotOver

LEMMA IdleMaps ==
  ASSUME stack = <<>>, dstate = Root, Live
  PROVE  Replayed!Idle /\ ReplayLowering = None /\ status # "done"
BY DEF Replayed!Idle, ReplayLowering, LoweringIn, Root, Live

LEMMA BeginRefines ==
  ASSUME DriverInv, Coupling, WasmFuncBegin
  PROVE  Refines
<1>1. InRunReplay /\ NextIs("begin") /\ Live /\ stack = <<>>
  BY DEF WasmFuncBegin, InRunReplay, Live
<1>2. Coupled
  BY <1>1, LoopFacts
<1>3. Due = trace /\ Due # <<>> /\ Head(Due).ev = "begin"
  BY <1>1, NextDue DEF EventKinds
<1>4. PICK f \in Exports : AfterBegin(f)
  BY <1>2, <1>3, Expected
<1>5. /\ trace = <<Event("begin", f, None)>> /\ dstate = Root /\ postArgs[f] = None
  BY <1>3, <1>4 DEF AfterBegin, Left
<1>6. Head(trace).idx = f
  BY <1>5, Single DEF Event
<1>7. /\ dstate' = LoweringSetup(f) /\ UNCHANGED <<status, stack, postArgs>>
  BY <1>5, <1>6 DEF WasmFuncBegin, OrPanic, localVars
<1>8. Replayed!Begin(f)
  BY <1>1, <1>5, <1>7, IdleMaps DEF Replayed!Begin, LoweringSetup
<1> QED
  BY <1>8 DEF Refines, Replayed!ExecNext

LEMMA EntryRefines ==
  ASSUME DriverInv, Coupling, WasmFuncEntry
  PROVE  Refines
<1>1. InRunReplay /\ NextIs("entry") /\ Live /\ stack = <<>>
  BY DEF WasmFuncEntry, InRunReplay, Live
<1>2. Coupled /\ StateProper
  BY <1>1, LoopFacts
<1>3. Due = trace /\ Due # <<>> /\ Head(Due).ev = "entry"
  BY <1>1, NextDue DEF EventKinds
<1>4. dstate.kind = "setup" /\ dstate.idx \in Exports
  BY <1>2, <1>3, Expected DEF AfterEntry, StateProper
<1>5. /\ Deliver(script, Step("enter", "export", dstate.idx, Value))
      /\ stack' = Push(Frame("core", dstate.idx), stack)
      /\ UNCHANGED <<dstate, postArgs>>
  BY <1>4 DEF WasmFuncEntry, OrPanic, globalVars
<1>6. NotOver
  BY <1>1, <1>5, DeliverStatus
<1>7. stack' = <<Frame("core", dstate.idx)>> /\ stack' # <<>> /\ Head(stack').kind = "core"
  BY <1>1, <1>5, PushOnEmpty, Single DEF Frame
<1>8. Replayed!Enter
  BY <1>1, <1>4, <1>5, <1>6, <1>7, IndexAssumption
     DEF Replayed!Enter, Replayed!Frame, Frame, NotOver
<1> QED
  BY <1>8 DEF Refines, Replayed!ExecNext

LEMMA PostReturnRefines ==
  ASSUME DriverInv, Coupling, ReadPostReturn
  PROVE  Refines
<1>1. InRunReplay /\ NextIs("post_return") /\ Live /\ stack = <<>>
  BY DEF ReadPostReturn, InRunReplay, Live
<1>2. Coupled
  BY <1>1, LoopFacts
<1>3. Due = trace /\ Due # <<>> /\ Head(Due).ev = "post_return"
  BY <1>1, NextDue DEF EventKinds
<1>4. PICK f \in Exports : AfterPostReturn(f)
  BY <1>2, <1>3, Expected
<1>5. /\ trace = <<Event("post_return", f, None)>> /\ dstate = Root /\ postArgs[f] # None
  BY <1>3, <1>4 DEF AfterPostReturn, Left
<1>6. Head(trace).idx = f
  BY <1>5, Single DEF Event
<1>7. /\ postArgs' = [postArgs EXCEPT ![f] = None] /\ dstate' = dstate
      /\ IF f \in Posts
         THEN /\ Deliver(script, Step("post", "export", f, postArgs[f]))
              /\ stack' = Push(Frame("post", f), stack)
         ELSE UNCHANGED <<status, stack>>
  BY <1>5, <1>6 DEF ReadPostReturn, OrPanic, PostArgsTaken, globalVars
<1>8. NotOver /\ stack' = IF f \in Posts THEN <<Frame("post", f)>> ELSE <<>>
  BY <1>1, <1>7, DeliverStatus, PushOnEmpty DEF NotOver, Live
<1>9. Replayed!PostReturn(f)
  BY <1>1, <1>5, <1>7, <1>8, IdleMaps
     DEF Replayed!PostReturn, Replayed!Frame, Frame, Root, NotOver
<1> QED
  BY <1>9 DEF Refines, Replayed!ExecNext

LEMMA EofRefines ==
  ASSUME DriverInv, Coupling, Eof
  PROVE  Refines
<1>1. InRunReplay /\ NextIs("eof") /\ Live
  BY DEF Eof, EndOfTrace, InRunReplay, Live
<1>2. Coupled
  BY <1>1, LoopFacts
<1>3. Due # <<>> /\ Head(Due).ev = "eof"
  BY <1>1, NextDue DEF EventKinds
<1>4. stack = <<>> /\ dstate = Root
  BY <1>2, <1>3, Expected DEF Finished
<1>5. status' = "done" /\ UNCHANGED <<stack, dstate, postArgs>>
  BY DEF Eof, globalVars, localVars
<1>6. Replayed!Finish
  BY <1>1, <1>4, <1>5, IdleMaps DEF Replayed!Finish, Root
<1> QED
  BY <1>6 DEF Refines, Replayed!ExecNext

LEMMA ReallocRefines ==
  ASSUME DriverInv, Coupling, ReallocEntry
  PROVE  Refines
<1>1. (InRunReplay \/ InHostCall) /\ NextIs("realloc")
  BY DEF ReallocEntry
<1>2. /\ Coupled /\ StateProper /\ Live /\ ReplayInv /\ ReplayTypeOK /\ Context
  BY <1>1, LoopFacts
<1>3. Due = trace /\ Due # <<>> /\ Head(Due).ev = "realloc"
  BY <1>1, NextDue DEF EventKinds
<1>4. LowersState(dstate) /\ ReplayLowers
  BY <1>2, <1>3, Expected, LoopLowers DEF AfterRealloc
<1>5. /\ Deliver(script, Step("realloc", DriverDir(dstate), dstate.idx, Value))
      /\ stack' = Push(Frame("realloc", None), stack)
      /\ UNCHANGED <<dstate, postArgs>>
  BY <1>4 DEF ReallocEntry, OrPanic, globalVars
<1>6. NotOver
  BY <1>2, <1>5, DeliverStatus
<1>7. stack' # <<>> /\ Head(stack').kind = "realloc"
  <2>1. Frame("realloc", None) \in FrameSet /\ Frame("realloc", None).kind = "realloc"
    BY FrameType DEF FrameKinds, GuestKinds, Frame
  <2> QED
    BY <1>2, <1>5, <2>1, PushPop DEF ReplayTypeOK
<1>8. /\ LoweringIn(stack', dstate) = LoweringIn(stack, dstate)
      /\ stack = <<>> => LoweringIn(stack, dstate) # None
      /\ stack # <<>> => Innermost(stack, {"host"})
  <2>1. CASE stack = <<>>
    BY <1>2, <1>4, <1>7, <2>1, IndexAssumption
       DEF LoweringIn, ReplayLowers, Innermost, StateProper
  <2>2. CASE stack # <<>>
    <3>1. Innermost(stack, {"host"}) /\ InHost(stack)
      BY <1>2, <1>4, <2>2, InnermostFacts DEF ReplayLowers, InHost
    <3>2. dstate.kind = "host"
      BY <1>2, <3>1 DEF Context, HostCall
    <3> QED
      BY <2>2, <3>1, <3>2, NoLowering
  <2> QED
    BY <2>1, <2>2
<1>9. Replayed!Realloc
  BY <1>5, <1>6, <1>8
     DEF Replayed!Realloc, Replayed!Lowers, Replayed!Innermost, Replayed!Push,
         Replayed!Frame, Innermost, Push, Frame, LoweringIn, NotOver
<1> QED
  BY <1>9 DEF Refines, Replayed!ExecNext

LEMMA HostReturnRefines ==
  ASSUME DriverInv, Coupling, HostFuncReturn
  PROVE  Refines
<1>1. InHostCall
  BY DEF HostFuncReturn
<1>2. ReplayTypeOK /\ Context /\ Live
  BY <1>1, LoopFacts
<1>3. dstate.kind = "host"
  BY <1>1, <1>2, InnermostFacts DEF InHostCall, Context, InHost, HostCall
<1>4. PICK step : Deliver(script, step)
  BY <1>3 DEF HostFuncReturn, OrPanic
<1>5. stack' = Tail(stack) /\ UNCHANGED <<dstate, postArgs>>
  BY <1>3 DEF HostFuncReturn, OrPanic
<1>6. NotOver
  BY <1>2, <1>4, DeliverStatus
<1>7. Replayed!HostReturn
  BY <1>1, <1>3, <1>5, <1>6
     DEF Replayed!HostReturn, Replayed!Innermost, InHostCall, Innermost, NotOver
<1> QED
  BY <1>7 DEF Refines, Replayed!ExecNext

LEMMA BuiltinReturnRefines ==
  ASSUME DriverInv, Coupling, ReadBuiltinReturn
  PROVE  Refines
<1> DEFINE i == Head(stack).idx
           dtor == DtorFrames(i, Value)
<1>1. InBuiltinCall /\ NextIs("builtin_return")
  BY DEF ReadBuiltinReturn
<1>2. Coupled /\ Live /\ ReplayTypeOK /\ Context
  BY <1>1, LoopFacts
<1>3. Due = trace /\ Due # <<>> /\ Head(Due).ev = "builtin_return"
  BY <1>1, NextDue DEF EventKinds
<1>4. dstate.kind = "builtin"
  BY <1>1, <1>2, InnermostFacts DEF InBuiltinCall, Context, BuiltinCall
<1>5. Value \in BuiltinResults(i) /\ Value \in U32 \cup {None}
  <2>1. PICK rep \in U32 \cup {None} :
          AfterBuiltinReturn(rep) \/ AfterGuestDtor(rep) \/ AfterHostDtor(rep)
    BY <1>2, <1>3, Expected
  <2>2. ASSUME NEW checks, AfterBuiltin(rep, checks)
        PROVE  Value = rep /\ rep \in BuiltinResults(i)
    BY <1>3, <2>2 DEF AfterBuiltin, Value, Event
  <2> QED
    BY <2>1, <2>2 DEF AfterBuiltinReturn, AfterGuestDtor, AfterHostDtor
<1>6. stack' = dtor \o Tail(stack) /\ postArgs' = postArgs
  BY <1>4 DEF ReadBuiltinReturn, OrPanic
<1>7. NotOver /\ dstate'.kind \in {"builtin", "host"}
  <2>1. CASE dtor = <<>>
    <3>1. /\ Deliver(script, Step("ret", "import", i,
                       IF Kind[i] = "value" THEN Value ELSE NoArgs))
          /\ dstate' = dstate
      BY <1>4, <2>1 DEF ReadBuiltinReturn, OrPanic
    <3> QED
      BY <1>2, <1>4, <3>1, DeliverStatus
  <2>2. CASE dtor # <<>> /\ Kind[i] = "guest_dtor"
    <3>1. Deliver(script, Step("dtor", "import", i, Value)) /\ dstate' = dstate
      BY <1>4, <2>2 DEF ReadBuiltinReturn, OrPanic
    <3> QED
      BY <1>2, <1>4, <3>1, DeliverStatus
  <2>3. CASE dtor # <<>> /\ Kind[i] # "guest_dtor"
    <3>1. dstate' = HostCall(i) /\ status' = status
      BY <1>4, <2>3 DEF ReadBuiltinReturn, OrPanic
    <3> QED
      BY <1>2, <3>1 DEF HostCall, NotOver, Live
  <2> QED
    BY <2>1, <2>2, <2>3
<1>8. dtor = Replayed!DtorFrames(i, Value)
  BY DEF DtorFrames, Replayed!DtorFrames, Frame, Replayed!Frame
<1>9. Value \in Replayed!BuiltinResults(i)
  BY <1>5 DEF BuiltinResults, Replayed!BuiltinResults, U32, Replayed!U32
<1> HIDE DEF dtor
<1>10. Replayed!BuiltinReturn(Value)
  BY <1>1, <1>4, <1>6, <1>7, <1>8, <1>9
     DEF Replayed!BuiltinReturn, Replayed!Innermost, InBuiltinCall, Innermost, NotOver
<1> QED
  BY <1>5, <1>10 DEF Refines, Replayed!ExecNext, U32, Replayed!U32

----------------------------------------------------------------------------
(* The guest.                                                              *)

LEMMA CallRefines ==
  ASSUME DriverInv, Coupling, NEW v, GuestCall(v)
  PROVE  Refines
<1>1. GuestDoes(CodeKinds, "call")
  BY DEF GuestCall
<1>2. /\ Coupled /\ Live /\ Innermost(stack, CodeKinds) /\ script # <<>>
      /\ Head(script).op = "call" /\ ReplayTypeOK
  BY <1>1, ActFacts
<1>3. PICK i \in Imports, w \in Args : AfterCall(i, w)
  BY <1>2, Acting
<1>4. Head(script).idx = i /\ Len(stack) < MaxDepth
  BY <1>3, Single DEF AfterCall, Left, Step
<1>5. /\ stack' = Push(Frame(CallKind(i), i), stack)
      /\ dstate' = CalleeState(i) /\ UNCHANGED <<status, postArgs>>
  BY <1>4 DEF GuestCall
<1>6. LoweringIn(stack, dstate) = None /\ LoweringIn(stack', dstate') = None
  <2>1. dstate'.kind \in {"host", "builtin"}
    BY <1>5 DEF CalleeState, HostCall, BuiltinCall
  <2> QED
    BY <1>2, <2>1, NoLowering DEF Innermost, CodeKinds
<1>7. Replayed!Call(i)
  BY <1>2, <1>4, <1>5, <1>6
     DEF Replayed!Call, Replayed!Innermost, Replayed!Push, Replayed!Frame,
         Replayed!CallKind, Replayed!CodeKinds, Innermost, Push, Frame, CallKind,
         CodeKinds, LoweringIn
<1> QED
  BY <1>7 DEF Refines, Replayed!ExecNext

LEMMA ExitRefines ==
  ASSUME DriverInv, Coupling, NEW v \in Args, GuestExit(v)
  PROVE  Refines
<1>1. GuestDoes({"core"}, "exit")
  BY DEF GuestExit
<1>2. Innermost(stack, {"core"})
  BY <1>1 DEF GuestDoes
<1>3. /\ stack' = Tail(stack) /\ dstate' = Root /\ status' = status
      /\ postArgs' = [postArgs EXCEPT ![Head(stack).idx] = v]
  BY DEF GuestExit, ResultBuffer, StateAfterCall
<1>4. LoweringIn(stack, dstate) = None /\ LoweringIn(stack', dstate') = None
  BY <1>2, <1>3, NoLowering DEF Innermost, Root
<1>5. Replayed!Exit(v)
  BY <1>2, <1>3, <1>4
     DEF Replayed!Exit, Replayed!Innermost, Innermost, LoweringIn
<1> QED
  BY <1>5 DEF Refines, Replayed!ExecNext

(* What the export that is lowered for is after a return.                  *)
LEMMA ReallocLowering ==
  ASSUME ReplayInv, ReplayTypeOK, Context, Innermost(stack, {"realloc"}),
         stack' = Tail(stack)
  PROVE  LoweringIn(stack', dstate) = LoweringIn(stack, dstate)
<1>1. /\ stack # <<>> /\ stack[1].kind = "realloc" /\ Head(stack) = stack[1]
      /\ stack' \in Seq(FrameSet)
      /\ IF Len(stack) = 1 THEN stack' = <<>>
         ELSE /\ stack' # <<>> /\ stack'[1] = stack[2]
              /\ stack[2].kind \in {"host", "hdtor"}
  BY InnermostFacts, PoppedStack DEF ReplayInv
<1>2. CASE Len(stack) = 1
  BY <1>1, <1>2 DEF Context, LoweringIn
<1>3. CASE Len(stack) # 1
  <2>1. dstate.kind = "host"
    BY <1>1, <1>3 DEF Context, HostCall
  <2> QED
    BY <2>1, NoLowering
<1> QED
  BY <1>2, <1>3

LEMMA LeftLowering ==
  ASSUME ReplayInv, NEW k \in {"start", "post", "dtor"}, Innermost(stack, {k}),
         stack' = Tail(stack)
  PROVE  LoweringIn(stack', dstate) = LoweringIn(stack, dstate)
<1>1. ReplayTypeOK /\ Nested(stack) /\ Context
  BY DEF ReplayInv
<1>2. /\ stack # <<>> /\ Head(stack) = stack[1] /\ stack[1].kind = k
      /\ stack' \in Seq(FrameSet)
      /\ k \in {"start", "post"} => stack' = <<>>
      /\ k = "dtor" => stack' # <<>> /\ stack'[1].kind \in CodeKinds
  BY <1>1, InnermostFacts, PoppedStack
<1>3. LoweringIn(stack, dstate) = None
  BY <1>2, NoLowering
<1>4. CASE k \in {"start", "post"}
  <2>1. dstate = Root
    BY <1>1, <1>2, <1>4 DEF Context
  <2> QED
    BY <1>3, <2>1, NoLowering DEF Root
<1>5. CASE k = "dtor"
  <2>1. stack' # <<>> /\ Head(stack').kind \in CodeKinds
    BY <1>2, <1>5, PopFacts
  <2> QED
    BY <1>3, <2>1, NoLowering DEF CodeKinds
<1> QED
  BY <1>4, <1>5

(* A guest function that returns nothing the execution keeps.              *)
LEMMA ReturnRefines ==
  ASSUME NEW k \in {"start", "realloc", "post", "dtor"}, Innermost(stack, {k}),
         stack' = Tail(stack), UNCHANGED <<dstate, postArgs>>,
         status' = status \/ NotOver,
         LoweringIn(stack', dstate) = LoweringIn(stack, dstate)
  PROVE  Refines
<1>1. (status' = "done") = (status = "done")
  BY DEF NotOver
<1>2. Replayed!Leave({"start", "realloc", "post", "dtor"})
  BY <1>1 DEF Replayed!Leave, Replayed!Innermost, Innermost, LoweringIn
<1> QED
  BY <1>2 DEF Refines, Replayed!ExecNext

LEMMA ReallocDoneRefines ==
  ASSUME DriverInv, Coupling, NEW v, GuestReallocDone(v)
  PROVE  Refines
<1>1. GuestDoes({"realloc"}, "realloc_done")
  BY DEF GuestReallocDone
<1>2. Innermost(stack, {"realloc"}) /\ ReplayInv /\ ReplayTypeOK /\ Context
  BY <1>1, ActFacts
<1>3. stack' = Tail(stack) /\ UNCHANGED <<dstate, postArgs, status>>
  BY DEF GuestReallocDone, globalVars
<1>4. LoweringIn(stack', dstate) = LoweringIn(stack, dstate)
  BY <1>2, <1>3, ReallocLowering
<1> QED
  BY <1>2, <1>3, <1>4, ReturnRefines

LEMMA LeaveRefines ==
  ASSUME DriverInv, Coupling, NEW k \in {"start", "post"}, GuestLeave(k)
  PROVE  Refines
<1>1. GuestDoes({k}, DoneOp[k])
  BY DEF GuestLeave
<1>2. Innermost(stack, {k}) /\ ReplayInv
  BY <1>1, ActFacts
<1>3. stack' = Tail(stack) /\ UNCHANGED <<dstate, postArgs, status>>
  BY DEF GuestLeave, globalVars
<1>4. LoweringIn(stack', dstate) = LoweringIn(stack, dstate)
  BY <1>2, <1>3, LeftLowering
<1> QED
  BY <1>2, <1>3, <1>4, ReturnRefines

LEMMA DtorDoneRefines ==
  ASSUME DriverInv, Coupling, GuestDtorDone
  PROVE  Refines
<1>1. GuestDoes({"dtor"}, "dtor_done")
  BY DEF GuestDtorDone
<1>2. Innermost(stack, {"dtor"}) /\ ReplayInv /\ Live
  BY <1>1, ActFacts
<1>3. stack' = Tail(stack) /\ UNCHANGED <<dstate, postArgs>> /\ NotOver
  BY <1>2, DeliverStatus DEF GuestDtorDone, globalVars
<1>4. LoweringIn(stack', dstate) = LoweringIn(stack, dstate)
  BY <1>2, <1>3, LeftLowering
<1> QED
  BY <1>2, <1>3, <1>4, ReturnRefines

LEMMA GrowRefines ==
  ASSUME DriverInv, Coupling, GuestGrow
  PROVE  Refines
<1>1. Live
  BY DEF GuestGrow, GuestDoes
<1>2. CASE ~NextIs("grow")
  BY <1>1, <1>2, PanicUnseen DEF GuestGrow, OrPanic
<1>3. CASE NextIs("grow")
  <2>1. /\ Deliver(Tail(script), Step("grown", "none", None, Value))
        /\ UNCHANGED <<globalVars, localVars>>
    BY <1>3 DEF GuestGrow, OrPanic
  <2>2. NotOver
    BY <1>1, <2>1, DeliverStatus
  <2>3. Unseen
    BY <2>1 DEF Unseen, ReplayLowering, LoweringIn, globalVars, localVars
  <2> QED
    BY <2>2, <2>3, UnseenRefines
<1> QED
  BY <1>2, <1>3

----------------------------------------------------------------------------
(* Steps that change nothing the execution sees, and every step.           *)

LEMMA WriteRefines ==
  ASSUME DriverInv, Coupling, MemorySliceWrite
  PROVE  Refines
<1>1. Live
  BY LoopFacts DEF MemorySliceWrite
<1>2. CASE ~LowersState(dstate)
  BY <1>1, <1>2, PanicUnseen DEF MemorySliceWrite, OrPanic
<1>3. CASE LowersState(dstate)
  <2>1. /\ Deliver(script, Step("write", DriverDir(dstate), dstate.idx, Value))
        /\ UNCHANGED <<globalVars, localVars>>
    BY <1>3 DEF MemorySliceWrite, OrPanic
  <2>2. NotOver
    BY <1>1, <2>1, DeliverStatus
  <2>3. Unseen
    BY <2>1 DEF Unseen, ReplayLowering, LoweringIn, globalVars, localVars
  <2> QED
    BY <2>2, <2>3, UnseenRefines
<1> QED
  BY <1>2, <1>3

(* The first call of init_replayer finds STATE as it leaves it.            *)
LEMMA BootRefines ==
  ASSUME DriverInv, Coupling, StartFunction \/ RunReplay
  PROVE  Refines
<1>1. /\ status = "boot" /\ dstate = Root
  BY DEF Coupling, StateProper, StartFunction, RunReplay
<1>2. UNCHANGED <<stack, postArgs>>
  BY DEF StartFunction, RunReplay, localVars
<1>3. dstate' = dstate /\ status' # "done"
  <2>1. PICK after \in {"boot", "running"} : InitReplayer(after)
    BY DEF StartFunction, RunReplay
  <2> QED
    BY <1>1, <2>1 DEF InitReplayer, globalVars
<1>4. Unseen /\ NotOver
  BY <1>1, <1>2, <1>3 DEF Unseen, NotOver, ReplayLowering, LoweringIn
<1> QED
  BY <1>4, UnseenRefines

(* Handlers that read the event and nothing else, or check with it.        *)
LEMMA ReadRefines ==
  ASSUME DriverInv, Coupling,
         \/ SkipDiagnostic \/ WasmFuncReturn \/ ReadLower \/ ReallocReturn
         \/ HostFuncEntry \/ BuiltinEntry \/ UnexpectedEvent
  PROVE  Refines
<1>1. InRunReplay \/ InHostCall \/ InBuiltinCall => Live
  BY DEF InRunReplay, InHostCall, InBuiltinCall, Live
<1>2. CASE SkipDiagnostic
  BY <1>2, ReadUnseen DEF SkipDiagnostic, globalVars, localVars
<1>3. CASE WasmFuncReturn \/ ReadLower \/ HostFuncEntry \/ BuiltinEntry
  <2>1. \/ Live /\ Panic
        \/ UNCHANGED <<status, globalVars, localVars>>
    BY <1>1, <1>3 DEF WasmFuncReturn, ReadLower, HostFuncEntry, BuiltinEntry, OrPanic
  <2> QED
    BY <2>1, PanicUnseen, ReadUnseen DEF globalVars, localVars
<1>4. CASE ReallocReturn
  <2>1. \/ Live /\ Panic
        \/ UNCHANGED <<status, globalVars, stack, postArgs>>
    BY <1>1, <1>4 DEF ReallocReturn, OrPanic
  <2> QED
    BY <2>1, PanicUnseen, ReadUnseen DEF globalVars
<1>5. CASE UnexpectedEvent
  BY <1>1, <1>5, PanicUnseen DEF UnexpectedEvent
<1> QED
  BY <1>2, <1>3, <1>4, <1>5

LEMMA RefinesStep ==
  ASSUME DriverInv, Coupling, [Next]_vars
  PROVE  Refines
<1>1. CASE Recorder
  BY <1>1, RecorderOnly, ReadUnseen DEF RecordsOnly, globalVars, localVars
<1>2. CASE Driver
  BY <1>2, BeginRefines, EntryRefines, PostReturnRefines, EofRefines, ReallocRefines,
     HostReturnRefines, BuiltinReturnRefines, WriteRefines, BootRefines, ReadRefines
     DEF Driver
<1>3. CASE Guest
  BY <1>3, CallRefines, ExitRefines, ReallocDoneRefines, LeaveRefines, DtorDoneRefines,
     GrowRefines DEF Guest
<1>4. CASE UNCHANGED vars
  BY <1>4, ReadUnseen DEF vars, globalVars, localVars
<1> QED
  BY <1>1, <1>2, <1>3, <1>4 DEF Next, Replay, Ended

LEMMA RefinesInit == Init => Replayed!ExecInit
<1>1. ASSUME Init PROVE Replayed!ExecInit
  BY <1>1 DEF Init, ExecInit, Replayed!ExecInit, Replayed!Frame, Frame, Root
<1> QED
  BY <1>1

(* What the guest goes through under replay is an execution as a host may  *)
(* run it: entered, called back and returned to in an order that the       *)
(* component may be run in, with the post-returns that are owed.           *)
THEOREM ReplayRefinesExecution == Spec => ReplayIsExecution
<1>1. DriverInv /\ Coupling /\ [Next]_vars
        => [Replayed!ExecNext]_(Replayed!execVars)
  BY RefinesStep DEF Refines
<1> QED
  BY <1>1, RefinesInit, CouplingAlways, PTL
     DEF Spec, ReplayIsExecution, Replayed!ExecSpec

=============================================================================
