---------------------------- MODULE TraceEvents ----------------------------
(***************************************************************************)
(* Events of a trace given to a consumer in another language               *)
(* (tracereader-ffi).  The buffers of an event are given away as a pointer *)
(* and a length; the consumer gives each event back once, when it likes,   *)
(* also after it has given back the replayer.  The module follows every    *)
(* allocation from the decoder to its release.                             *)
(*                                                                         *)
(* External: the decoder, which makes exact Vecs or leaves spare capacity, *)
(* the allocator, and the consumer, which keeps the documented rules.      *)
(***************************************************************************)
EXTENDS Naturals

CONSTANTS
  NumAddrs, (* bound of the checked instances: addresses of the heap       *)
  Slots,    (* the events a consumer can hold at a time                    *)
  Lens,     (* lengths of buffers                                          *)
  Slack,    (* spare capacity of a Vec from the decoder                    *)
  MaxTrace  (* bound: events of the trace, an Eof not counted              *)

ASSUME BoundsAssumption == NumAddrs \in Nat /\ MaxTrace \in Nat
ASSUME LensAssumption == Lens \subseteq Nat /\ Slack \subseteq Nat

VARIABLES
  replayer, (* CrimpReplayer, and its two allocations                      *)
  left,     (* events between the reader and the end of the file           *)
  held,     (* the events that the consumer has not given back             *)
  heap,     (* the live allocations                                        *)
  wrong     (* what was wrong with a release, if anything was              *)

vars == <<replayer, left, held, heap, wrong>>

----------------------------------------------------------------------------
(* Memory.                                                                 *)

Addr == 1..NumAddrs
Null == 0
(* The pointer of a Vec without an allocation.                             *)
Dangling == NumAddrs + 1
Ptr == 0..NumAddrs + 1
Free == [use |-> "free", len |-> 0, cap |-> 0]
Block(u, n, c) == [use |-> u, len |-> n, cap |-> c]
Blocks == [use : {"free", "replayer", "payload", "message"}, len : Nat, cap : Nat]
Live(h) == {a \in Addr : h[a] # Free}

Buffer(p, n) == [ptr |-> p, len |-> n]
EMPTY == Buffer(Null, 0)

(* A Vec moved into a CrimpBuffer: the capacity is not in it.  Fault: the  *)
(* buffer is a part of the reader's scratch space.                         *)
FromScratch(a, n, c) == Buffer(IF c = 0 THEN Dangling ELSE replayer.scratch, n)
FromVec(a, n, c) == Buffer(IF c = 0 THEN Dangling ELSE a, n)

(* CrimpBuffer::free and CrimpString::free, as a step of the pair of heap  *)
(* and errors: the Vec is made again with its length as capacity, and one  *)
(* without capacity has nothing to release.                                *)
FreeBuffer(s, b) ==
  IF b.ptr = Null \/ b.len = 0 THEN s
  ELSE IF b.ptr \notin Live(s.heap) THEN [s EXCEPT !.wrong = @ \cup {"address"}]
  ELSE [heap |-> [s.heap EXCEPT ![b.ptr] = Free],
        wrong |-> IF s.heap[b.ptr].cap = b.len THEN s.wrong
                  ELSE s.wrong \cup {"size"}]

----------------------------------------------------------------------------
(* Events.  Tags with the same fields are one tag here:                    *)
(*   args       HostFuncReturn and the entries of functions                *)
(*   returned   WasmFuncReturn: values, or the message of a trap           *)
(*   result     returns of lowerings, reallocs and builtins                *)
(*   slice      ComponentMemorySliceWrite                                  *)
(*   signature  a TraceSignature after the first                           *)
(*   fixed      everything without a buffer                                *)
Tags == {"Eof", "Error", "args", "returned", "result", "slice", "signature", "fixed"}
Field == {"bytes", "sizes", "msg"}
Payloads == [Field -> [ptr : Ptr, len : Nat]]
NoEvent == [tag |-> "none"]
Event(t, p) == [tag |-> t, payload |-> p]
Events == [tag : Tags, payload : Payloads]

TypeOK ==
  /\ replayer \in [state : {"unopened", "open", "null", "closed"}, eof : BOOLEAN,
                   box : Addr \cup {Null}, scratch : Addr \cup {Null}]
  /\ left \in 0..MaxTrace
  /\ held \in [Slots -> Events \cup {NoEvent}]
  /\ heap \in [Addr -> Blocks]
  /\ wrong \subseteq {"address", "size"}

Init ==
  /\ replayer = [state |-> "unopened", eof |-> FALSE, box |-> Null, scratch |-> Null]
  /\ left \in 0..MaxTrace
  /\ held = [s \in Slots |-> NoEvent]
  /\ heap = [a \in Addr |-> Free]
  /\ wrong = {}

(* The conversion of an event: the fields it fills.  Results have values   *)
(* or a message.  Diagnostic events are skipped.                           *)
Shape(t, fields) == [tag |-> t, fills |-> fields]
Converted ==
  {Shape("args", {"bytes", "sizes"}), Shape("slice", {"bytes"}),
   Shape("returned", {"bytes", "sizes"}), Shape("returned", {"msg"}),
   Shape("result", {}), Shape("result", {"msg"}),
   Shape("signature", {"msg"}), Shape("diagnostic", {"msg"}), Shape("fixed", {})}
Decoded == {e \in Converted : e.tag # "diagnostic"}
(* The Error that next_event itself makes, and the end of the trace.       *)
Failure == Shape("Error", {"msg"})
EofEvent == Shape("Eof", {})

(* The fields CrimpEvent::free releases.  Dropping a CrimpString, which    *)
(* has no Drop, releases nothing.  Fault: the sizes are forgotten.         *)
BytesFreed(tag) ==
  CASE tag = "args" -> {"bytes"}
    [] tag = "returned" -> {"bytes", "msg"}
    [] tag = "slice" -> {"bytes"}
    [] tag \in {"signature", "result"} -> {"msg"}
    [] OTHER -> {}
Freed(tag) ==
  CASE tag = "args" -> {"bytes", "sizes"}
    [] tag = "returned" -> {"bytes", "sizes", "msg"}
    [] tag = "slice" -> {"bytes"}
    [] tag \in {"signature", "result"} -> {"msg"}
    [] OTHER -> {}

----------------------------------------------------------------------------
(* The exported functions.                                                 *)

(* Where the allocator puts the buffers: at the lowest free addresses.     *)
Places(fields) ==
  {p \in [fields -> Addr \ Live(heap)] :
     /\ \A f, g \in fields : f # g => p[f] # p[g]
     /\ \A f \in fields : \A a \in Addr \ Live(heap) :
          a < p[f] => \E g \in fields : p[g] = a}

Vecs == [len : Lens, spare : Slack]

(* The event of a shape goes to the consumer, its Vecs become buffers.     *)
Give(s, shape, use) ==
  \E p \in Places(shape.fills), v \in [shape.fills -> Vecs] :
    LET Cap(f) == v[f].len + v[f].spare
        At(a) == CHOOSE f \in shape.fills : p[f] = a
        Used == {p[f] : f \in {g \in shape.fills : Cap(g) > 0}}
    IN /\ heap' = [a \in Addr |-> IF a \in Used
                     THEN Block(use, v[At(a)].len, Cap(At(a))) ELSE heap[a]]
       /\ held' = [held EXCEPT ![s] = Event(shape.tag,
            [f \in Field |-> IF f \in shape.fills
                             THEN FromVec(p[f], v[f].len, Cap(f)) ELSE EMPTY])]

(* crimp_replayer_open: the first event has to be a signature, which is    *)
(* dropped; without one, or without a file, there is no replayer.          *)
Open ==
  /\ replayer.state = "unopened"
  /\ \/ /\ left > 0
        /\ left' = left - 1
        /\ \E p \in Places({"box", "scratch"}) :
             /\ replayer' = [state |-> "open", eof |-> FALSE,
                             box |-> p["box"], scratch |-> p["scratch"]]
             /\ heap' = [a \in Addr |-> IF a \in {p["box"], p["scratch"]}
                                        THEN Block("replayer", 1, 1) ELSE heap[a]]
     \/ /\ replayer' = [replayer EXCEPT !.state = "null"]
        /\ UNCHANGED <<left, heap>>
  /\ UNCHANGED <<held, wrong>>

(* crimp_replayer_next_event.  Fault: the replayer reads on after an error.*)
StillOpen == replayer.eof
AtEnd == TRUE
NextEvent(s) ==
  /\ held[s] = NoEvent
  /\ UNCHANGED wrong
  /\ \/ /\ replayer.state = "null"
        /\ Give(s, Failure, "message")
        /\ UNCHANGED <<replayer, left>>
     \/ /\ replayer.state = "open" /\ replayer.eof
        /\ Give(s, EofEvent, "payload")
        /\ UNCHANGED <<replayer, left>>
     \/ /\ replayer.state = "open" /\ ~replayer.eof
        /\ \E rest \in 0..left : (* diagnostic events are skipped          *)
             /\ left' = rest
             /\ Give(s, EofEvent, "payload")
        /\ replayer' = [replayer EXCEPT !.eof = TRUE]
     \/ /\ replayer.state = "open" /\ ~replayer.eof
        /\ \E rest \in 0..left : left' = rest
        /\ Give(s, Failure, "message")
        /\ replayer' = [replayer EXCEPT !.eof = AtEnd]
     \/ /\ replayer.state = "open" /\ ~replayer.eof
        /\ \E rest \in 0..left - 1 : left' = rest
        /\ \E shape \in Decoded : Give(s, shape, "payload")
        /\ UNCHANGED replayer

(* crimp_event_free.                                                       *)
FreeEvent(s) ==
  /\ held[s] # NoEvent
  /\ LET Release(b, st) == FreeBuffer(st, b)
         Part(f) == IF f \in Freed(held[s].tag) THEN held[s].payload[f] ELSE EMPTY
         released == Release(Part("msg"), Release(Part("sizes"),
                       Release(Part("bytes"), [heap |-> heap, wrong |-> wrong])))
     IN heap' = released.heap /\ wrong' = released.wrong
  /\ held' = [held EXCEPT ![s] = NoEvent]
  /\ UNCHANGED <<replayer, left>>

(* crimp_replayer_free, of a null pointer too.                             *)
FreeReplayer ==
  /\ replayer.state \in {"open", "null"}
  /\ heap' = [a \in Addr |-> IF a \in {replayer.box, replayer.scratch}
                             THEN Free ELSE heap[a]]
  /\ replayer' = [replayer EXCEPT !.state = "closed", !.box = Null, !.scratch = Null]
  /\ UNCHANGED <<left, held, wrong>>

Next ==
  \/ Open
  \/ \E s \in Slots : NextEvent(s)
  \/ \E s \in Slots : FreeEvent(s)
  \/ FreeReplayer

(* The consumer is a loop that reads and frees.                            *)
Spec ==
  /\ Init /\ [][Next]_vars
  /\ WF_vars(\E s \in Slots : NextEvent(s))
  /\ \A s \in Slots : WF_vars(FreeEvent(s))

----------------------------------------------------------------------------
(* Properties.                                                             *)

(* Buffers that have an allocation, of an event that is held.              *)
Owned(s) == {f \in Field : held[s] # NoEvent /\ held[s].payload[f].ptr \in Addr}

(* Whatever was released before, the consumer can use what it holds: every *)
(* buffer is live, with its length, and shared with no other event and not *)
(* with the replayer, so that each is released once and never after use.   *)
HeldIntact ==
  /\ "address" \notin wrong
  /\ \A s \in Slots : \A f \in Owned(s) :
       LET b == held[s].payload[f]
       IN /\ heap[b.ptr].use \in {"payload", "message"}
          /\ heap[b.ptr].len = b.len
          /\ \A u \in Slots : \A g \in Owned(u) :
               held[u].payload[g].ptr = b.ptr => u = s /\ g = f

Referenced == {replayer.box, replayer.scratch} \cup
  UNION {{held[s].payload[f].ptr : f \in Owned(s)} : s \in Slots}

(* What crimp_event_free is given, it releases, but for the message of a   *)
(* failed read and the spare capacity of an empty Vec: nothing else stays  *)
(* allocated when its owner has been given back.                           *)
OnlyMessagesLost ==
  \A a \in Live(heap) \ Referenced : heap[a].use = "message" \/ heap[a].len = 0

(* A consumer that reads until Eof ends, also when the trace is torn or    *)
(* damaged and has no Eof event.                                           *)
ReadsEnd ==
  replayer.state = "open" ~>
    replayer.state = "closed" \/ \E s \in Slots : held[s] # NoEvent /\ held[s].tag = "Eof"
=============================================================================
