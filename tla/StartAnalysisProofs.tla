------------------------ MODULE StartAnalysisProofs ------------------------
(***************************************************************************)
(* The verdict of the start-function analysis is right, but for tail       *)
(* calls, for every set of modules: any number of functions, any calls,    *)
(* any order of the walk.                                                  *)
(***************************************************************************)
EXTENDS StartAnalysis, TLAPS

(* What a visit lets pass.                                                 *)
Passes(f) == \A op \in body[f] : ~Offends(op)

(* Between two visits, what was taken off the worklist has passed, and its *)
(* callees are visited; and nothing is visited that plain calls do not     *)
(* reach.                                                                  *)
WalkInv ==
  verdict = "walking" =>
    /\ Single
    /\ starts \subseteq visited
    /\ visited \subseteq Reachable(Callees)
    /\ \A f \in visited \ worklist : Passes(f) /\ Callees(f) \subseteq visited

Inv == TypeOK /\ WalkInv /\ VerdictRight

----------------------------------------------------------------------------
(* What the code follows the reference follows too, and what it refuses    *)
(* the reference refuses; the converse holds where there is no tail call.  *)
LEMMA CalleesOwn == \A f : Callees(f) \subseteq OwnCalls(f)
  BY DEF Callees, OwnCalls

LEMMA NoneOwnMissed ==
  ASSUME TypeOK, NEW f \in Funcs, \A op \in body[f] : op.by # "return_call"
  PROVE  /\ OwnCalls(f) \subseteq Callees(f)
         /\ Passes(f) => Quiet(f)
<1>1. ASSUME NEW op \in body[f]
      PROVE  /\ op.by = "call" /\ op.to \in Funcs \cup {Host, Table}
             /\ op = [by |-> "call", to |-> op.to]
  <2>1. op \in [by : Calls, to : Funcs \cup {Host, Table}]
    BY <1>1 DEF TypeOK, Ops
  <2>2. op.by = "call"
    BY <1>1, <2>1, CallsAssumption
  <2> QED BY <2>1, <2>2
<1>2. OwnCalls(f) \subseteq Callees(f)
  BY <1>1 DEF OwnCalls, Callees
<1>3. Passes(f) => Quiet(f)
  BY <1>1 DEF Passes, Offends, Quiet
<1> QED BY <1>2, <1>3

LEMMA PassesOrLoud ==
  ASSUME NEW f \in Funcs, ~Passes(f) PROVE ~Quiet(f)
  BY HostAssumption DEF Passes, Offends, Quiet

(* Reachability: the start functions are reachable, so is what a reachable *)
(* function calls, and nothing else than what a closed set holds.          *)
LEMMA StartsReachable ==
  ASSUME TypeOK PROVE starts \subseteq Reachable(Callees)
  BY DEF TypeOK, Reachable

LEMMA CalleesReachable ==
  ASSUME NEW f \in Reachable(Callees)
  PROVE  Callees(f) \subseteq Reachable(Callees)
<1> SUFFICES ASSUME NEW g \in Callees(f), NEW S \in SUBSET Funcs,
                    starts \subseteq S, Closed(S, Callees)
             PROVE  g \in S
  BY DEF Reachable, Callees
<1>1. f \in S
  BY DEF Reachable
<1> QED BY <1>1 DEF Closed

LEMMA ReachableWithin ==
  ASSUME NEW S \in SUBSET Funcs, starts \subseteq S,
         \A f \in S : Callees(f) \subseteq S
  PROVE  Reachable(Callees) \subseteq S
  BY DEF Reachable, Closed

LEMMA OwnReachableWithin ==
  ASSUME NEW S \in SUBSET Funcs, starts \subseteq S,
         \A f \in S : OwnCalls(f) \subseteq S
  PROVE  Reachable(OwnCalls) \subseteq S
  BY DEF Reachable, Closed

(* A function that plain calls reach is within the reference's reach.      *)
LEMMA ReachedByBoth == Reachable(Callees) \subseteq Reachable(OwnCalls)
<1> SUFFICES ASSUME NEW f \in Reachable(Callees), NEW S \in SUBSET Funcs,
                    starts \subseteq S, Closed(S, OwnCalls)
             PROVE  f \in S
  BY DEF Reachable
<1>1. Closed(S, Callees)
  BY CalleesOwn DEF Closed
<1> QED BY <1>1 DEF Reachable

(* Without tail calls the reference reaches nothing else.                  *)
LEMMA ReachedBySame ==
  ASSUME TypeOK, ~TailCalls
  PROVE  Reachable(OwnCalls) \subseteq Reachable(Callees)
<1>1. ASSUME NEW f \in Reachable(Callees)
      PROVE  OwnCalls(f) \subseteq Reachable(Callees)
  <2>1. f \in Funcs /\ \A op \in body[f] : op.by # "return_call"
    BY DEF TailCalls, Reachable
  <2> QED BY <2>1, NoneOwnMissed, CalleesReachable
<1>2. Reachable(Callees) \in SUBSET Funcs
  BY DEF Reachable
<1> QED BY <1>1, <1>2, StartsReachable, OwnReachableWithin

----------------------------------------------------------------------------
LEMMA StartInv ==
  ASSUME Inv, Start PROVE Inv'
<1> USE DEF Inv
<1>1. UNCHANGED <<body, starts>>
  BY DEF Start
<1>2. CASE Single
  <2>1. visited' = starts /\ worklist' = starts /\ verdict' = "walking"
    BY <1>2 DEF Start, Marked
  <2>2. Reachable(Callees)' = Reachable(Callees) /\ Single'
    BY <1>1, <1>2 DEF Reachable, Closed, Callees, Single
  <2> QED BY <1>1, <2>1, <2>2, StartsReachable DEF TypeOK, WalkInv, VerdictRight
<1>3. CASE starts = {}
  <2>1. verdict' = "accepted" /\ UNCHANGED <<visited, worklist>>
    BY <1>3 DEF Start, Single
  <2>2. Reachable(OwnCalls)' \subseteq {}
    BY <1>1, <1>3 DEF Reachable, Closed
  <2>3. Harmless'
    BY <1>1, <1>3, <2>2 DEF Harmless
  <2> QED BY <1>1, <2>1, <2>3 DEF TypeOK, WalkInv, VerdictRight
<1>4. CASE ~Single /\ starts # {}
  <2>1. verdict' = "rejected" /\ UNCHANGED <<visited, worklist>>
    BY <1>4 DEF Start
  <2>2. ~Harmless'
    BY <1>1, <1>4 DEF Harmless, Single
  <2> QED BY <1>1, <2>1, <2>2 DEF TypeOK, WalkInv, VerdictRight
<1> QED BY <1>2, <1>3, <1>4

LEMMA VisitInv ==
  ASSUME Inv, NEW f \in Funcs, Visit(f) PROVE Inv'
<1> USE DEF Inv
<1>1. UNCHANGED <<body, starts>> /\ verdict = "walking" /\ f \in worklist
  BY DEF Visit
<1>2. f \in visited /\ visited \subseteq Reachable(Callees)
  BY <1>1 DEF TypeOK, WalkInv
<1>3. /\ Reachable(Callees)' = Reachable(Callees)
      /\ Reachable(OwnCalls)' = Reachable(OwnCalls)
      /\ Single' = Single
      /\ \A g : /\ Callees(g)' = Callees(g)
               /\ Passes(g)' = Passes(g)
               /\ Quiet(g)' = Quiet(g)
  BY <1>1 DEF Reachable, Closed, Callees, OwnCalls, Single, Passes, Quiet
<1>4. CASE \E op \in body[f] : Offends(op)
  <2>1. verdict' = "rejected" /\ UNCHANGED <<visited, worklist>>
    BY <1>4 DEF Visit
  <2>2. f \in Reachable(OwnCalls) /\ ~Quiet(f)
    BY <1>2, <1>4, ReachedByBoth, PassesOrLoud DEF Passes
  <2>3. ~Harmless'
    BY <1>3, <2>2 DEF Harmless
  <2> QED BY <1>1, <2>1, <2>3 DEF TypeOK, WalkInv, VerdictRight
<1>5. CASE ~ \E op \in body[f] : Offends(op)
  <2>1. /\ visited' = visited \cup (Callees(f) \ visited)
        /\ worklist' = (worklist \ {f}) \cup (Callees(f) \ visited)
        /\ verdict' = "walking"
    BY <1>1, <1>5 DEF Visit, NotVisited
  <2>2. Passes(f)
    BY <1>5 DEF Passes
  <2>3. visited' \subseteq Reachable(Callees)
    BY <1>2, <2>1, CalleesReachable
  <2>4. \A g \in visited' \ worklist' : Passes(g) /\ Callees(g) \subseteq visited'
    BY <1>1, <2>1, <2>2 DEF WalkInv
  <2>5. TypeOK'
    BY <1>1, <2>1 DEF TypeOK, Callees
  <2> QED BY <1>1, <1>3, <2>1, <2>3, <2>4, <2>5 DEF WalkInv, VerdictRight
<1> QED BY <1>4, <1>5

LEMMA AcceptInv ==
  ASSUME Inv, Accept PROVE Inv'
<1> USE DEF Inv
<1>1. /\ UNCHANGED <<body, starts, visited, worklist>>
      /\ verdict = "walking" /\ worklist = {} /\ verdict' = "accepted"
  BY DEF Accept
<1>2. Reachable(Callees) \subseteq visited
  BY <1>1, ReachableWithin DEF TypeOK, WalkInv
<1>3. ASSUME ~TailCalls PROVE Harmless
  <2>1. ASSUME NEW f \in Reachable(OwnCalls) PROVE Quiet(f)
    <3>1. f \in Reachable(Callees) /\ f \in Funcs
      BY <1>3, ReachedBySame DEF Reachable
    <3>2. \A op \in body[f] : op.by # "return_call"
      BY <1>3, <3>1 DEF TailCalls
    <3>3. Passes(f)
      BY <1>1, <1>2, <3>1 DEF WalkInv
    <3> QED BY <3>1, <3>2, <3>3, NoneOwnMissed
  <2> QED BY <1>1, <2>1 DEF Harmless, WalkInv, Single
<1>4. Harmless' \/ TailCalls'
  <2>1. Harmless' = Harmless
    BY <1>1 DEF Harmless, Reachable, Closed, OwnCalls, Quiet
  <2>2. TailCalls' = TailCalls
    BY <1>1 DEF TailCalls, Reachable, Closed, Callees
  <2> QED BY <1>3, <2>1, <2>2
<1> QED BY <1>1, <1>4 DEF TypeOK, WalkInv, VerdictRight

----------------------------------------------------------------------------
LEMMA InvAlways == Spec => []Inv
<1>1. Init => Inv
  BY DEF Init, Bodies, Inv, TypeOK, WalkInv, VerdictRight
<1>2. Inv /\ [Next]_vars => Inv'
  <2> SUFFICES ASSUME Inv, [Next]_vars PROVE Inv'
    OBVIOUS
  <2>1. CASE Step
    BY <2>1, StartInv, VisitInv, AcceptInv DEF Step
  <2>2. CASE UNCHANGED vars
    BY <2>2 DEF vars, Inv, TypeOK, WalkInv, VerdictRight, Harmless, Single,
                Reachable, Closed, OwnCalls, Quiet, Callees, Passes, TailCalls
  <2> QED BY <2>1, <2>2 DEF Next, Returned
<1> QED BY <1>1, <1>2, PTL DEF Spec

(* The verdict of validate_start_functions, for any modules and any order  *)
(* in which the worklist is emptied: what it rejects breaks the rule that  *)
(* the code states, and what it accepts keeps it, unless a function that   *)
(* plain calls reach ends in a tail call, which the code passes over.      *)
THEOREM VerdictAlwaysRight == Spec => []VerdictRight
<1>1. Inv => VerdictRight
  BY DEF Inv
<1> QED BY <1>1, InvAlways, PTL

(* The worklist and the visited set stay within the module's functions.    *)
THEOREM WalkTypeCorrect == Spec => []TypeOK
<1>1. Inv => TypeOK
  BY DEF Inv
<1> QED BY <1>1, InvAlways, PTL
=============================================================================
