----------------------------- MODULE Execution -----------------------------
(***************************************************************************)
(* One execution of a WebAssembly component, seen at the boundary between  *)
(* the guest modules and their host: the activations that are live, the    *)
(* export whose arguments are being lowered, and the calls whose           *)
(* post-return is still owed.                                              *)
(*                                                                         *)
(* This is what the recording engine (a patched wasmtime, not part of the  *)
(* repository) does when it runs a component, as far as the replay driver  *)
(* and the glue rely on it.  The recorder of ReplayDriver takes these      *)
(* steps and writes trace events for them; the same specification, under a *)
(* refinement mapping, is what the guest must go through under replay.     *)
(***************************************************************************)
EXTENDS Naturals, Sequences

CONSTANTS
  Exports,   (* record ids of the lifted exports                          *)
  Imports,   (* import ids of the replay stubs                            *)
  Kind,      (* what the stub of each import stands for, see StubKinds    *)
  Posts,     (* the exports that have a post-return function              *)
  Args,      (* flattened argument and result lists, and u32 values       *)
  NoArgs,    (* the empty list                                            *)
  None,      (* no index, no value                                        *)
  MaxDepth   (* bound of the checked instances: live activations          *)

(* A plain host import, a value-returning builtin (resource.new and        *)
(* resource.rep), and resource.drop of a resource without destructor, with *)
(* one in the guest, and with one in the host.                             *)
StubKinds == {"host", "value", "drop", "guest_dtor", "host_dtor"}

ASSUME KindAssumption == Kind \in [Imports -> StubKinds]
ASSUME PostsAssumption == Posts \subseteq Exports
ASSUME ArgsAssumption == NoArgs \in Args /\ None \notin Args
ASSUME IndexAssumption == None \notin Exports \cup Imports
ASSUME DepthAssumption == MaxDepth \in Nat

VARIABLES
  frames,    (* live activations, the innermost first                     *)
  lowering,  (* export whose arguments are being lowered, or None         *)
  owed,      (* results of the calls that still owe a post-return         *)
  over       (* the host has finished with the component                  *)

execVars == <<frames, lowering, owed, over>>

----------------------------------------------------------------------------
(* Activations.  Guest code runs in the first set of kinds, host code in   *)
(* the others.                                                             *)
CodeKinds == {"core", "dtor"}
GuestKinds == CodeKinds \cup {"start", "realloc", "post"}
FrameKinds == GuestKinds \cup {"host", "hdtor", "builtin"}

Frame(k, i) == [kind |-> k, idx |-> i]
FrameSet == [kind : FrameKinds, idx : Exports \cup Imports \cup {None}]

Push(x, stack) == <<x>> \o stack
Innermost(stack, kinds) == stack # <<>> /\ Head(stack).kind \in kinds

Idle == frames = <<>> /\ lowering = None
(* The host may call cabi_realloc and write guest memory only while it     *)
(* lowers arguments of an export or results of an import.                  *)
Lowers == (frames = <<>> /\ lowering # None) \/ Innermost(frames, {"host"})
U32 == Args \ {NoArgs}

ExecTypeOK ==
  /\ frames \in Seq(FrameSet)
  /\ lowering \in Exports \cup {None}
  /\ owed \in [Exports -> Args \cup {None}]
  /\ over \in BOOLEAN

(* A core module may have a start function, which runs at instantiation.   *)
ExecInit ==
  /\ frames \in {<<>>, <<Frame("start", None)>>}
  /\ lowering = None
  /\ owed = [f \in Exports |-> None]
  /\ over = FALSE

----------------------------------------------------------------------------
(* Calls of exports.                                                       *)

(* An export may be entered again only once its last post-return is done.  *)
Begin(f) ==
  /\ Idle /\ ~over /\ owed[f] = None
  /\ lowering' = f
  /\ UNCHANGED <<frames, owed, over>>

Enter ==
  /\ frames = <<>> /\ lowering # None
  /\ frames' = <<Frame("core", lowering)>>
  /\ lowering' = None
  /\ UNCHANGED <<owed, over>>

Exit(v) ==
  /\ Innermost(frames, {"core"})
  /\ frames' = Tail(frames)
  /\ owed' = [owed EXCEPT ![Head(frames).idx] = v]
  /\ UNCHANGED <<lowering, over>>

PostReturn(f) ==
  /\ Idle /\ ~over /\ owed[f] # None
  /\ frames' = IF f \in Posts THEN <<Frame("post", f)>> ELSE <<>>
  /\ owed' = [owed EXCEPT ![f] = None]
  /\ UNCHANGED <<lowering, over>>

(* The guest functions that return nothing the host keeps.                 *)
Leave(kinds) ==
  /\ Innermost(frames, kinds)
  /\ frames' = Tail(frames)
  /\ UNCHANGED <<lowering, owed, over>>

Realloc ==
  /\ Lowers
  /\ frames' = Push(Frame("realloc", None), frames)
  /\ UNCHANGED <<lowering, owed, over>>

(* Calls of imports.                                                       *)
CallKind(i) == IF Kind[i] = "host" THEN "host" ELSE "builtin"

Call(i) ==
  /\ Innermost(frames, CodeKinds)
  /\ Len(frames) < MaxDepth
  /\ frames' = Push(Frame(CallKind(i), i), frames)
  /\ UNCHANGED <<lowering, owed, over>>

HostReturn ==
  /\ Innermost(frames, {"host", "hdtor"})
  /\ frames' = Tail(frames)
  /\ UNCHANGED <<lowering, owed, over>>

(* A dropped resource that is owned has a representation rep, which goes   *)
(* to the destructor; dropping a borrow has none.                          *)
DtorFrames(i, rep) ==
  CASE rep # None /\ Kind[i] = "guest_dtor" -> <<Frame("dtor", i)>>
    [] rep # None /\ Kind[i] = "host_dtor" -> <<Frame("hdtor", i)>>
    [] OTHER -> <<>>

BuiltinResults(i) == IF Kind[i] = "value" THEN U32 ELSE U32 \cup {None}

BuiltinReturn(rep) ==
  /\ Innermost(frames, {"builtin"})
  /\ rep \in BuiltinResults(Head(frames).idx)
  /\ frames' = DtorFrames(Head(frames).idx, rep) \o Tail(frames)
  /\ UNCHANGED <<lowering, owed, over>>

Finish ==
  /\ Idle /\ ~over
  /\ over' = TRUE
  /\ UNCHANGED <<frames, lowering, owed>>

ExecNext ==
  \/ \E f \in Exports : Begin(f) \/ PostReturn(f)
  \/ Enter
  \/ \E v \in Args : Exit(v)
  \/ Leave({"start", "realloc", "post", "dtor"})
  \/ Realloc
  \/ \E i \in Imports : Call(i)
  \/ HostReturn
  \/ \E rep \in U32 \cup {None} : BuiltinReturn(rep)
  \/ Finish

ExecSpec == ExecInit /\ [][ExecNext]_execVars
=============================================================================
