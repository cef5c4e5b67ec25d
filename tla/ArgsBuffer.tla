----------------------------- MODULE ArgsBuffer -----------------------------
(***************************************************************************)
(* The capacity of ARGS_RESULTS_BACKING, the buffer through which the glue *)
(* and the replay driver pass arguments and results.  The glue asks the    *)
(* driver for room (allocate_args_results_buffer), stores through raw      *)
(* pointers and lets the driver set the lengths; returns of imports and    *)
(* builtins are moved into the buffer, which then has their capacity.      *)
(*                                                                         *)
(* ReplayDriver takes the buffer for a place that holds any list; here the *)
(* list is its number of bytes and of elements.                            *)
(***************************************************************************)
EXTENDS Naturals

CONSTANTS
  Params,  (* parameter lists of imports, as [bytes, count]               *)
  Results, (* result lists of imports and exports                         *)
  Slack    (* spare capacity the decoder of events may leave in a Vec     *)

(* The component model passes at most 16 flattened values and a return     *)
(* pointer, and the glue generates stubs for values of 4 or 8 bytes only.  *)
FlatValues == 17
ValueBytes == 8
Lists == [bytes : 0..FlatValues * ValueBytes, count : 0..FlatValues]

ASSUME ListsAssumption == Params \subseteq Lists /\ Results \subseteq Lists
ASSUME SlackAssumption == Slack \subseteq Nat

VARIABLES
  bytes,   (* the Vec of values: its length and capacity                  *)
  sizes,   (* the Vec of their sizes, one byte each                       *)
  running, (* the guest, or the driver: run_replay or a call of an import *)
  moved    (* the buffer has been moved from an event                     *)

vars == <<bytes, sizes, running, moved>>

Vecs == [len : Nat, cap : Nat]
Vec(n, c) == [len |-> n, cap |-> c]

TypeOK ==
  /\ bytes \in Vecs /\ sizes \in Vecs
  /\ running \in {"guest", "run_replay", "host_call", "builtin_call"}
  /\ moved \in BOOLEAN

MAX_ARGS_COUNT == 32
(* Fault: one byte for each value.                                         *)
MaxArgsCountBytes == MAX_ARGS_COUNT
MAX_ARGS_BYTES == MAX_ARGS_COUNT * 16

(* init_replayer.                                                          *)
Init ==
  /\ bytes = Vec(0, MAX_ARGS_BYTES)
  /\ sizes = Vec(0, MAX_ARGS_COUNT)
  /\ running = "run_replay"
  /\ moved = FALSE

----------------------------------------------------------------------------
(* Vec::reserve of an empty Vec<u8>: nothing when it has the capacity for  *)
(* n elements, else at least double, and at least 8.                       *)
Larger(m, n) == IF m < n THEN n ELSE m
Reserve(cap, n) == IF n <= cap THEN cap ELSE Larger(Larger(2 * cap, n), 8)

(* Fault: the length is set and the capacity left alone.                   *)
SetLenOnly(vec, n) == Vec(n, vec.cap)
(* Fault: the room that is left is taken for the capacity.                 *)
RoomLeft(vec, n) == Vec(n, vec.cap - n)
expand(vec, n) ==
  Vec(n, IF vec.cap < n THEN Reserve(vec.cap, n - vec.cap) ELSE vec.cap)

Allocate(list) ==
  /\ bytes' = expand(bytes, list.bytes)
  /\ sizes' = expand(sizes, list.count)

Decoded(n, spare) == Vec(n, n + spare)

(* to_backing_args: the Vecs of an event take the place of the buffer's.   *)
Move(list, spare) ==
  /\ bytes' = Decoded(list.bytes, spare)
  /\ sizes' = Decoded(list.count, spare)
  /\ moved' = TRUE

EnterExport ==
  /\ running = "run_replay"
  /\ running' = "guest"
  /\ UNCHANGED <<bytes, sizes, moved>>

(* The stub of an import stores its parameters and calls the driver.       *)
CallImport(list) ==
  /\ running = "guest"
  /\ Allocate(list)
  /\ running' = "host_call"
  /\ UNCHANGED moved

HostReturn(list, spare) ==
  /\ running = "host_call"
  /\ Move(list, spare)
  /\ running' = "guest"

(* resource.new, resource.rep and resource.drop take one u32.  They return *)
(* a u32 in 4 bytes or, resource.drop, an Option of one in 5, as one value *)
(* and in vectors of just that capacity.                                   *)
CallBuiltin ==
  /\ running = "guest"
  /\ Allocate([bytes |-> 4, count |-> 1])
  /\ running' = "builtin_call"
  /\ UNCHANGED moved

BuiltinReturn(n) ==
  /\ running = "builtin_call"
  /\ Move([bytes |-> n, count |-> 1], 0)
  /\ running' = "guest"

(* The wrapper of an export allocates only if there are results; then the  *)
(* driver sets the lengths.                                                *)
ExportReturn(list) ==
  /\ running = "guest"
  /\ IF list.count = 0
     THEN bytes' = Vec(0, bytes.cap) /\ sizes' = Vec(0, sizes.cap)
     ELSE Allocate(list)
  /\ running' = "run_replay"
  /\ UNCHANGED moved

Next ==
  \/ EnterExport
  \/ \E list \in Params : CallImport(list)
  \/ \E list \in Results, spare \in Slack : HostReturn(list, spare)
  \/ CallBuiltin
  \/ \E n \in {4, 5} : BuiltinReturn(n)
  \/ \E list \in Results : ExportReturn(list)

Spec == Init /\ [][Next]_vars

----------------------------------------------------------------------------
(* Properties.                                                             *)

Fits(vec) == vec.len <= vec.cap

(* As long as no return of an import or a builtin has replaced the buffer  *)
(* that init_replayer made, what the glue stores lies within it.           *)
FitsUntilReturn == ~moved => Fits(bytes) /\ Fits(sizes)

(* However small the buffer a return left behind, and however many calls   *)
(* have been made with it since, what the glue stores past its end is no   *)
(* more than another of its capacity: allocate_args_results_buffer may     *)
(* fail to grow the buffer, or grow it too little, but not by more.        *)
OverrunBounded == bytes.len <= 2 * bytes.cap /\ sizes.len <= 2 * sizes.cap

(* allocate_args_results_buffer allocates enough space for the glue to     *)
(* populate, as its comment says.                                          *)
BufferFits == Fits(bytes) /\ Fits(sizes)
=============================================================================
