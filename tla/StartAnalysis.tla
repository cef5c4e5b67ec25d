---------------------------- MODULE StartAnalysis ----------------------------
(***************************************************************************)
(* validate_start_functions of the decomposer: may the start function of a *)
(* core module run before the replay begins?  It may if it calls nothing   *)
(* that is replayed.  The code walks the calls from the start function     *)
(* with a worklist; calls of imports that are linked to another core       *)
(* module (renames) are allowed and not followed, and tail calls are not   *)
(* looked at.                                                              *)
(*                                                                         *)
(* ReplayDriver relies on the verdict: its start activations make no       *)
(* calls of imports.                                                       *)
(***************************************************************************)
EXTENDS FiniteSets, Naturals

CONSTANTS
  Funcs,    (* the functions that the core modules define                 *)
  Home,     (* the module of each                                         *)
  Host,     (* what is replayed: true imports and builtins                *)
  Table,    (* what is called through a table: nobody knows which         *)
  Calls,    (* how calls are made: plain, or as tail calls                *)
  MaxCalls  (* bound of the checked instances: calls in a function        *)

ASSUME HostAssumption == Host \notin Funcs /\ Table \notin Funcs
ASSUME CallsAssumption == Calls \subseteq {"call", "return_call"}

VARIABLES
  body,     (* the calls in each function: the instruction and the target *)
  starts,   (* the start functions of the modules                         *)
  visited,
  worklist,
  verdict   (* unchecked, walking, accepted or rejected                   *)

vars == <<body, starts, visited, worklist, verdict>>

(* A call of Table is call_indirect, or return_call_indirect.              *)
Ops == [by : Calls, to : Funcs \cup {Host, Table}]

TypeOK ==
  /\ body \in [Funcs -> SUBSET Ops]
  /\ starts \subseteq Funcs
  /\ visited \subseteq Funcs
  /\ worklist \subseteq visited
  /\ verdict \in {"unchecked", "walking", "accepted", "rejected"}

Bodies == {ops \in SUBSET Ops : Cardinality(ops) <= MaxCalls}

Init ==
  /\ body \in [Funcs -> Bodies]
  /\ starts \in SUBSET Funcs
  /\ \A f, g \in starts : Home[f] = Home[g] => f = g
  /\ visited = {}
  /\ worklist = {}
  /\ verdict = "unchecked"

----------------------------------------------------------------------------
Single == \E s \in starts : starts = {s}

(* check_op: the host may not be called, and nothing through a table.      *)
(* Tail calls fall under the instructions it does not name: they are       *)
(* neither refused nor followed.                                           *)
(* Fault: a call through a table is taken for safe.                        *)
CallsHost(op) == op.by = "call" /\ op.to = Host
Offends(op) == op.by = "call" /\ op.to \in {Host, Table}

(* The calls that are followed are the direct ones within the module.      *)
Callees(f) == {g \in Funcs : [by |-> "call", to |-> g] \in body[f] /\ Home[g] = Home[f]}

(* Fault: a function is put on the worklist whenever it is called.         *)
EveryCallee(f) == Callees(f)
NotVisited(f) == Callees(f) \ visited
(* Fault: the start function is not marked as visited.                     *)
NothingMarked == {}
Marked == starts

Start ==
  /\ verdict = "unchecked"
  /\ IF Single
     THEN visited' = Marked /\ worklist' = starts /\ verdict' = "walking"
     ELSE /\ verdict' = IF starts = {} THEN "accepted" ELSE "rejected"
          /\ UNCHANGED <<visited, worklist>>
  /\ UNCHANGED <<body, starts>>

(* The code takes the function that has waited longest; here it is any.    *)
Visit(f) ==
  /\ verdict = "walking" /\ f \in worklist
  /\ IF \E op \in body[f] : Offends(op)
     THEN verdict' = "rejected" /\ UNCHANGED <<visited, worklist>>
     ELSE /\ visited' = visited \cup NotVisited(f)
          /\ worklist' = (worklist \ {f}) \cup NotVisited(f)
          /\ UNCHANGED verdict
  /\ UNCHANGED <<body, starts>>

Accept ==
  /\ verdict = "walking" /\ worklist = {}
  /\ verdict' = "accepted"
  /\ UNCHANGED <<body, starts, visited, worklist>>

(* The analysis has returned.                                              *)
Returned == verdict \in {"accepted", "rejected"} /\ UNCHANGED vars

Step == Start \/ (\E f \in Funcs : Visit(f)) \/ Accept

Next == Step \/ Returned

(* A loop of one thread.                                                   *)
Spec == Init /\ [][Next]_vars /\ WF_vars(Step)

----------------------------------------------------------------------------
(* Properties.                                                             *)

(* The functions in every set that has those of From and is closed under   *)
(* Next: the ones that can be reached.                                     *)
Closed(S, Succ(_)) == \A f \in S : Succ(f) \subseteq S
Reachable(Succ(_)) ==
  {f \in Funcs : \A S \in SUBSET Funcs : starts \subseteq S /\ Closed(S, Succ) => f \in S}

(* The reference is the rule that the code states for itself, whatever    *)
(* instruction makes a call: start functions are harmless if there is      *)
(* none, or one that reaches within its module no call of the host and     *)
(* none through a table.                                                   *)
OwnCalls(f) == {g \in Funcs : Home[g] = Home[f] /\ \E op \in body[f] : op.to = g}
Quiet(f) == \A op \in body[f] : op.to \in Funcs
Harmless ==
  /\ \A f, g \in starts : f = g
  /\ \A f \in Reachable(OwnCalls) : Quiet(f)

(* The gap of the code: a function that the walk gets to ends in a tail    *)
(* call, which the walk passes over.                                       *)
TailCalls == \E f \in Reachable(Callees) : \E op \in body[f] : op.by = "return_call"

(* Whatever the order of the walk and however the calls recur, a start     *)
(* function is rejected only if it breaks the rule, and one that breaks    *)
(* the rule is accepted only behind a tail call: nothing that plain calls  *)
(* reach is missed.                                                        *)
VerdictRight ==
  /\ verdict = "accepted" => Harmless \/ TailCalls
  /\ verdict = "rejected" => ~Harmless

(* The walk ends, also when functions call each other in circles.          *)
Terminates == <>(verdict \in {"accepted", "rejected"})

(* What the module documentation promises: nothing that the start function *)
(* calls transitively is replayed.  The code breaks it in two ways: by the *)
(* renames, which it does not follow, and by the tail calls.               *)
AllCallees(f) == {g \in Funcs : \E op \in body[f] : op.to = g}
NothingReplayed ==
  verdict = "accepted" =>
    \A f \in Reachable(AllCallees) : \A op \in body[f] : op.to # Host
=============================================================================
