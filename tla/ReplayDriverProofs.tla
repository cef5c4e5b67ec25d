------------------------- MODULE ReplayDriverProofs -------------------------
(***************************************************************************)
(* Proofs about executions at the boundary and about the replay driver,    *)
(* for every component and any trace: their types, which activations may   *)
(* lie on which, and that STATE, a global no call restores, is always the  *)
(* one the innermost loop of the driver needs.                             *)
(*                                                                         *)
(* DriverContext is not inductive: what a loop finds in STATE when the     *)
(* activation above it has returned depends on which activations may lie   *)
(* on which (Nested) and on what each of them leaves in STATE (Context).   *)
(***************************************************************************)
EXTENDS ReplayDriver, SequenceTheorems, TLAPS

----------------------------------------------------------------------------
(* Executions.                                                             *)

(* The activations that may be the outermost, and which lies on which.     *)
Bottoms == {"core", "post", "start", "realloc"}
MayRest(above, below) ==
  \/ above \in {"host", "hdtor", "builtin", "dtor"} /\ below \in CodeKinds
  \/ above = "realloc" /\ below \in {"host", "hdtor"}

Nested(fr) == \A k \in 1..Len(fr) :
  IF k = Len(fr) THEN fr[k].kind \in Bottoms
  ELSE MayRest(fr[k].kind, fr[k + 1].kind)

----------------------------------------------------------------------------
(* Stacks.                                                                 *)

(* What Push does: the new element is the head, the old stack the tail.    *)
LEMMA PushFacts ==
  ASSUME NEW S, NEW s \in Seq(S), NEW x \in S
  PROVE  /\ Push(x, s) \in Seq(S)
         /\ Push(x, s) # <<>>
         /\ Len(Push(x, s)) = Len(s) + 1
         /\ Push(x, s)[1] = x
         /\ \A k \in 1..Len(s) : Push(x, s)[k + 1] = s[k]
<1>1. <<x>> \in Seq(S) /\ Len(<<x>>) = 1 /\ <<x>>[1] = x
  OBVIOUS
<1>2. /\ <<x>> \o s \in Seq(S)
      /\ Len(<<x>> \o s) = 1 + Len(s)
      /\ \A i \in 1..(1 + Len(s)) :
           (<<x>> \o s)[i] = IF i <= 1 THEN <<x>>[i] ELSE s[i - 1]
  BY <1>1, ConcatProperties
<1>3. Len(s) \in Nat
  BY LenProperties
<1>4. \A k \in 1..Len(s) : (<<x>> \o s)[k + 1] = s[k]
  BY <1>2, <1>3
<1>5. (<<x>> \o s)[1] = x
  BY <1>1, <1>2, <1>3
<1> QED
  BY <1>2, <1>3, <1>4, <1>5, EmptySeq DEF Push

(* What popping does.                                                      *)
LEMMA PopFacts ==
  ASSUME NEW S, NEW s \in Seq(S), s # <<>>
  PROVE  /\ Head(s) = s[1] /\ s[1] \in S
         /\ Len(s) \in Nat \ {0}
         /\ Tail(s) \in Seq(S)
         /\ Len(Tail(s)) = Len(s) - 1
         /\ Tail(s) = <<>> <=> Len(s) = 1
         /\ \A k \in 1..(Len(s) - 1) : Tail(s)[k] = s[k + 1]
<1>1. Len(s) \in Nat \ {0} /\ Head(s) = s[1]
  BY EmptySeq
<1>2. /\ Head(s) \in S /\ Tail(s) \in Seq(S)
      /\ Len(Tail(s)) = Len(s) - 1
      /\ \A k \in 1..Len(Tail(s)) : Tail(s)[k] = s[k + 1]
  BY HeadTailProperties
<1>3. Tail(s) = <<>> <=> Len(Tail(s)) = 0
  BY <1>2, EmptySeq
<1> QED
  BY <1>1, <1>2, <1>3

(* Nested survives a push of an activation that may rest on the innermost. *)
LEMMA NestedPush ==
  ASSUME NEW fr \in Seq(FrameSet), NEW x \in FrameSet, Nested(fr),
         IF fr = <<>> THEN x.kind \in Bottoms ELSE MayRest(x.kind, fr[1].kind)
  PROVE  Nested(Push(x, fr))
<1> DEFINE up == Push(x, fr)
<1>1. /\ Len(fr) \in Nat /\ Len(up) = Len(fr) + 1 /\ up[1] = x
      /\ \A k \in 1..Len(fr) : up[k + 1] = fr[k]
      /\ fr = <<>> <=> Len(fr) = 0
  BY PushFacts, LenProperties, EmptySeq
<1> HIDE DEF up
<1>2. SUFFICES ASSUME NEW k \in 1..Len(up)
               PROVE  IF k = Len(up) THEN up[k].kind \in Bottoms
                      ELSE MayRest(up[k].kind, up[k + 1].kind)
  BY DEF Nested, up
<1>3. CASE k = 1
  BY <1>1, <1>3
<1>4. CASE k # 1
  <2>1. k - 1 \in 1..Len(fr) /\ up[k] = fr[k - 1]
    BY <1>1, <1>2, <1>4
  <2>2. CASE k = Len(up)
    BY <1>1, <2>1, <2>2 DEF Nested
  <2>3. CASE k # Len(up)
    <3>1. k \in 1..Len(fr) /\ up[k + 1] = fr[k] /\ k - 1 # Len(fr)
      BY <1>1, <1>2, <2>3
    <3>2. MayRest(fr[k - 1].kind, fr[(k - 1) + 1].kind)
      BY <2>1, <3>1 DEF Nested
    <3>3. (k - 1) + 1 = k
      BY <1>2
    <3> QED
      BY <2>1, <2>3, <3>1, <3>2, <3>3
  <2> QED
    BY <2>2, <2>3
<1> QED
  BY <1>3, <1>4

(* Nested survives a pop.                                                  *)
LEMMA NestedPop ==
  ASSUME NEW fr \in Seq(FrameSet), Nested(fr), fr # <<>>
  PROVE  Nested(Tail(fr))
<1> DEFINE down == Tail(fr)
<1>1. /\ Len(fr) \in Nat \ {0} /\ Len(down) = Len(fr) - 1
      /\ \A k \in 1..(Len(fr) - 1) : down[k] = fr[k + 1]
  BY PopFacts
<1> HIDE DEF down
<1>2. SUFFICES ASSUME NEW k \in 1..Len(down)
               PROVE  IF k = Len(down) THEN down[k].kind \in Bottoms
                      ELSE MayRest(down[k].kind, down[k + 1].kind)
  BY DEF Nested, down
<1>3. k + 1 \in 1..Len(fr) /\ down[k] = fr[k + 1]
  BY <1>1, <1>2
<1>4. CASE k = Len(down)
  <2>1. k + 1 = Len(fr)
    BY <1>1, <1>4
  <2> QED
    BY <1>3, <1>4, <2>1 DEF Nested
<1>5. CASE k # Len(down)
  <2>1. k + 1 # Len(fr) /\ down[k + 1] = fr[(k + 1) + 1]
    BY <1>1, <1>2, <1>5
  <2>2. MayRest(fr[k + 1].kind, fr[(k + 1) + 1].kind)
    BY <1>3, <2>1 DEF Nested
  <2> QED
    BY <1>3, <1>5, <2>1, <2>2
<1> QED
  BY <1>4, <1>5

(* What lies below the innermost activation of a nested stack.             *)
LEMMA NestedBelow ==
  ASSUME NEW fr \in Seq(FrameSet), Nested(fr), fr # <<>>
  PROVE  /\ fr[1].kind \in {"core", "post", "start"} => Tail(fr) = <<>>
         /\ fr[1].kind \in {"host", "hdtor", "builtin", "dtor"} =>
              Len(fr) > 1 /\ fr[2].kind \in CodeKinds
         /\ fr[1].kind = "realloc" /\ Len(fr) > 1 =>
              fr[2].kind \in {"host", "hdtor"}
<1>1. Len(fr) \in Nat \ {0} /\ (Tail(fr) = <<>> <=> Len(fr) = 1)
  BY PopFacts
<1>2. IF 1 = Len(fr) THEN fr[1].kind \in Bottoms
      ELSE MayRest(fr[1].kind, fr[1 + 1].kind)
  BY <1>1 DEF Nested
<1> QED
  BY <1>1, <1>2 DEF MayRest, Bottoms

----------------------------------------------------------------------------
(* Types.                                                                  *)

LEMMA FrameType ==
  ASSUME NEW k \in FrameKinds, NEW i \in Exports \cup Imports \cup {None}
  PROVE  Frame(k, i) \in FrameSet
BY DEF Frame, FrameSet

(* The destructor of a dropped resource is at most one activation.         *)
LEMMA DtorFramesFacts ==
  ASSUME NEW i \in Exports \cup Imports \cup {None}, NEW rep
  PROVE  /\ \/ DtorFrames(i, rep) = <<>>
            \/ /\ DtorFrames(i, rep) = <<Frame("dtor", i)>>
               /\ rep # None /\ Kind[i] = "guest_dtor"
            \/ /\ DtorFrames(i, rep) = <<Frame("hdtor", i)>>
               /\ rep # None /\ Kind[i] = "host_dtor"
         /\ DtorFrames(i, rep) \in Seq(FrameSet)
<1>1. CASE rep # None /\ Kind[i] = "guest_dtor"
  <2>1. DtorFrames(i, rep) = <<Frame("dtor", i)>>
    BY <1>1 DEF DtorFrames
  <2>2. Frame("dtor", i) \in FrameSet
    BY FrameType DEF FrameKinds, GuestKinds, CodeKinds
  <2> QED
    BY <1>1, <2>1, <2>2
<1>2. CASE rep # None /\ Kind[i] = "host_dtor"
  <2>1. DtorFrames(i, rep) = <<Frame("hdtor", i)>>
    BY <1>2 DEF DtorFrames
  <2>2. Frame("hdtor", i) \in FrameSet
    BY FrameType DEF FrameKinds
  <2> QED
    BY <1>2, <2>1, <2>2
<1>3. CASE rep = None \/ Kind[i] \notin {"guest_dtor", "host_dtor"}
  <2>1. DtorFrames(i, rep) = <<>>
    BY <1>3 DEF DtorFrames
  <2> QED
    BY <2>1
<1> QED
  BY <1>1, <1>2, <1>3

(* Every step of an execution keeps the types.                             *)
LEMMA ExecTypeStep ==
  ASSUME ExecTypeOK, [ExecNext]_execVars
  PROVE  ExecTypeOK'
<1> USE DEF ExecTypeOK
<1>1. ASSUME NEW f \in Exports, Begin(f) PROVE ExecTypeOK'
  BY <1>1 DEF Begin
<1>2. ASSUME NEW f \in Exports, PostReturn(f) PROVE ExecTypeOK'
  <2>1. Frame("post", f) \in FrameSet
    BY FrameType DEF FrameKinds, GuestKinds
  <2> QED
    BY <1>2, <2>1 DEF PostReturn
<1>3. CASE Enter
  <2>1. Frame("core", lowering) \in FrameSet
    BY FrameType DEF FrameKinds, GuestKinds, CodeKinds
  <2> QED
    BY <1>3, <2>1 DEF Enter
<1>4. ASSUME NEW v \in Args, Exit(v) PROVE ExecTypeOK'
  BY <1>4, PopFacts DEF Exit, Innermost
<1>5. CASE Leave({"start", "realloc", "post", "dtor"})
  BY <1>5, PopFacts DEF Leave, Innermost
<1>6. CASE Realloc
  <2>1. Frame("realloc", None) \in FrameSet
    BY FrameType DEF FrameKinds, GuestKinds
  <2> QED
    BY <1>6, <2>1, PushFacts DEF Realloc
<1>7. ASSUME NEW i \in Imports, Call(i) PROVE ExecTypeOK'
  <2>1. Frame(CallKind(i), i) \in FrameSet
    BY FrameType DEF FrameKinds, CallKind
  <2> QED
    BY <1>7, <2>1, PushFacts DEF Call
<1>8. CASE HostReturn
  BY <1>8, PopFacts DEF HostReturn, Innermost
<1>9. ASSUME NEW rep \in U32 \cup {None}, BuiltinReturn(rep) PROVE ExecTypeOK'
  <2> DEFINE i == Head(frames).idx
  <2>1. i \in Exports \cup Imports \cup {None} /\ Tail(frames) \in Seq(FrameSet)
    <3>1. frames # <<>>
      BY <1>9 DEF BuiltinReturn, Innermost
    <3>2. Head(frames) \in FrameSet /\ Tail(frames) \in Seq(FrameSet)
      BY <3>1, PopFacts
    <3> QED
      BY <3>2 DEF FrameSet
  <2>2. DtorFrames(i, rep) \in Seq(FrameSet)
    BY <2>1, DtorFramesFacts
  <2> QED
    BY <1>9, <2>1, <2>2, ConcatProperties DEF BuiltinReturn
<1>10. CASE Finish
  BY <1>10 DEF Finish
<1>11. CASE UNCHANGED execVars
  BY <1>11 DEF execVars
<1> QED
  BY <1>1, <1>2, <1>3, <1>4, <1>5, <1>6, <1>7, <1>8, <1>9, <1>10, <1>11
     DEF ExecNext
(* The types are invariant in every execution.                             *)
THEOREM ExecTypeCorrect == ExecSpec => []ExecTypeOK
<1>1. ExecInit => ExecTypeOK
  <2>1. Frame("start", None) \in FrameSet
    BY FrameType DEF FrameKinds, GuestKinds
  <2>2. <<>> \in Seq(FrameSet) /\ <<Frame("start", None)>> \in Seq(FrameSet)
    BY <2>1
  <2> QED
    BY <2>2 DEF ExecInit, ExecTypeOK
<1>2. ExecTypeOK /\ [ExecNext]_execVars => ExecTypeOK'
  BY ExecTypeStep
<1> QED
  BY <1>1, <1>2, PTL DEF ExecSpec

----------------------------------------------------------------------------
(* Which activations lie on which.                                         *)

(* While arguments of an export are lowered, nothing but cabi_realloc runs,*)
(* and a realloc that lies on no host call is one of such a lowering.      *)
LoweringFrames ==
  (lowering # None \/ (Len(frames) = 1 /\ frames[1].kind = "realloc")) =>
    /\ lowering # None
    /\ frames = <<>> \/ (Len(frames) = 1 /\ frames[1].kind = "realloc")

WellNested == Nested(frames) /\ LoweringFrames

(* A single activation is nested when its kind may be the outermost.       *)
LEMMA NestedSingle ==
  ASSUME NEW x \in FrameSet, x.kind \in Bottoms
  PROVE  Nested(<<x>>)
BY DEF Nested

LEMMA NestedEmpty == Nested(<<>>)
BY DEF Nested

(* Every step of an execution keeps the activations nested.                *)
LEMMA WellNestedStep ==
  ASSUME ExecTypeOK, WellNested, [ExecNext]_execVars
  PROVE  WellNested'
<1> USE DEF WellNested
<1>t. /\ frames \in Seq(FrameSet) /\ None \notin Exports
      /\ lowering \in Exports \cup {None}
  BY IndexAssumption DEF ExecTypeOK
<1>p. ASSUME frames # <<>>, frames' = Tail(frames), lowering' = lowering,
             Head(frames).kind # "realloc"
      PROVE  WellNested'
  <2>1. Nested(frames)'
    BY <1>t, <1>p, NestedPop
  <2>2. Len(frames) > 1 =>
          frames[1].kind # "realloc" /\ Tail(frames)[1] = frames[2]
    BY <1>t, <1>p, PopFacts
  <2>3. lowering = None
    BY <1>t, <1>p, PopFacts DEF LoweringFrames
  <2>4. Len(frames) = 1 => Tail(frames) = <<>> /\ Len(Tail(frames)) = 0
    BY <1>t, <1>p, PopFacts
  <2>5. Len(frames) > 1 => Tail(frames)[1].kind # "realloc"
    <3>1. frames[1].kind \in FrameKinds
      <4>1. frames[1] \in FrameSet
        BY <1>t, <1>p, PopFacts
      <4> QED
        BY <4>1 DEF FrameSet
    <3>2. frames[1].kind \in {"core", "post", "start"} => Len(frames) = 1
      BY <1>t, <1>p, NestedBelow, PopFacts
    <3>3. frames[1].kind \in {"host", "hdtor", "builtin", "dtor"} =>
            frames[2].kind \in CodeKinds
      BY <1>t, <1>p, NestedBelow
    <3> QED
      BY <2>2, <3>1, <3>2, <3>3 DEF FrameKinds, GuestKinds, CodeKinds
  <2>6. Len(frames) \in Nat \ {0}
    BY <1>t, <1>p, PopFacts
  <2> QED
    BY <1>t, <1>p, <2>1, <2>3, <2>4, <2>5, <2>6 DEF LoweringFrames
<1>1. ASSUME NEW f \in Exports, Begin(f) PROVE WellNested'
  BY <1>1, <1>t DEF Begin, Idle, LoweringFrames
<1>2. ASSUME NEW f \in Exports, PostReturn(f) PROVE WellNested'
  <2>1. Frame("post", f) \in FrameSet /\ Frame("post", f).kind = "post"
    BY FrameType DEF FrameKinds, GuestKinds, Frame
  <2>2. Nested(frames')
    BY <1>2, <2>1, NestedSingle, NestedEmpty DEF PostReturn, Bottoms
  <2> QED
    BY <1>2, <2>1, <2>2 DEF PostReturn, Idle, LoweringFrames
<1>3. CASE Enter
  <2>1. Frame("core", lowering) \in FrameSet /\ Frame("core", lowering).kind = "core"
    BY <1>t, FrameType DEF FrameKinds, GuestKinds, CodeKinds, Frame
  <2> QED
    BY <1>3, <2>1, NestedSingle DEF Enter, Bottoms, LoweringFrames
<1>4. ASSUME NEW v \in Args, Exit(v) PROVE WellNested'
  BY <1>4, <1>p DEF Exit, Innermost
<1>5. CASE Leave({"start", "realloc", "post", "dtor"})
  <2>1. CASE Head(frames).kind # "realloc"
    BY <1>5, <1>p, <2>1 DEF Leave, Innermost
  <2>2. CASE Head(frames).kind = "realloc"
    <3>1. frames # <<>> /\ frames' = Tail(frames) /\ lowering' = lowering
      BY <1>5 DEF Leave, Innermost
    <3>2. Nested(frames')
      BY <1>t, <3>1, NestedPop
    <3>3. Len(frames) > 1 => Tail(frames)[1].kind # "realloc" /\ lowering = None
      BY <1>t, <2>2, <3>1, PopFacts, NestedBelow DEF LoweringFrames
    <3>4. Len(frames) = 1 => Tail(frames) = <<>> /\ Len(Tail(frames)) = 0
      BY <1>t, <3>1, PopFacts
    <3>5. Len(frames) \in Nat \ {0}
      BY <1>t, <3>1, PopFacts
    <3> QED
      BY <3>1, <3>2, <3>3, <3>4, <3>5 DEF LoweringFrames
  <2> QED
    BY <2>1, <2>2
<1>6. CASE Realloc
  <2> DEFINE x == Frame("realloc", None)
  <2>1. x \in FrameSet /\ x.kind = "realloc"
    BY FrameType DEF FrameKinds, GuestKinds, Frame
  <2>2. frames = <<>> \/ (frames # <<>> /\ frames[1].kind = "host")
    BY <1>6, <1>t, PopFacts DEF Realloc, Lowers, Innermost
  <2>3. Nested(Push(x, frames))
    BY <1>t, <2>1, <2>2, NestedPush DEF MayRest, Bottoms
  <2>4. frames = <<>> => lowering # None
    BY <1>6 DEF Realloc, Lowers, Innermost
  <2>5. frames # <<>> => Len(frames) > 0 /\ lowering = None
    BY <1>t, <2>2, PopFacts DEF LoweringFrames
  <2>6. /\ Len(Push(x, frames)) = Len(frames) + 1 /\ Push(x, frames)[1] = x
        /\ Len(frames) \in Nat /\ (frames = <<>> => Len(frames) = 0)
    BY <1>t, <2>1, PushFacts, LenProperties
  <2>7. frames' = Push(x, frames) /\ lowering' = lowering
    BY <1>6 DEF Realloc
  <2> HIDE DEF x
  <2> QED
    BY <2>1, <2>2, <2>3, <2>4, <2>5, <2>6, <2>7 DEF LoweringFrames
<1>7. ASSUME NEW i \in Imports, Call(i) PROVE WellNested'
  <2> DEFINE x == Frame(CallKind(i), i)
  <2>1. x \in FrameSet /\ x.kind \in {"host", "builtin"}
    BY FrameType DEF FrameKinds, Frame, CallKind
  <2>2. frames # <<>> /\ frames[1].kind \in CodeKinds
    BY <1>7, <1>t, PopFacts DEF Call, Innermost
  <2>3. Nested(Push(x, frames))
    BY <1>t, <2>1, <2>2, NestedPush DEF MayRest
  <2>4. Push(x, frames)[1] = x
    BY <1>t, <2>1, PushFacts
  <2>6. frames' = Push(x, frames) /\ lowering' = lowering
    BY <1>7 DEF Call
  <2>5. lowering = None
    BY <2>2 DEF LoweringFrames, CodeKinds
  <2> HIDE DEF x
  <2> QED
    BY <2>1, <2>3, <2>4, <2>5, <2>6 DEF LoweringFrames
<1>8. CASE HostReturn
  BY <1>8, <1>p DEF HostReturn, Innermost
<1>9. ASSUME NEW rep \in U32 \cup {None}, BuiltinReturn(rep) PROVE WellNested'
  <2> DEFINE i == Head(frames).idx
             below == Tail(frames)
  <2>1. frames # <<>> /\ frames[1].kind = "builtin" /\ lowering' = lowering
    BY <1>9, <1>t, PopFacts DEF BuiltinReturn, Innermost
  <2>2. /\ below \in Seq(FrameSet) /\ Nested(below)
        /\ below # <<>> /\ below[1].kind \in CodeKinds
    BY <1>t, <2>1, NestedPop, NestedBelow, PopFacts
  <2>3. i \in Exports \cup Imports \cup {None}
    <3>1. Head(frames) \in FrameSet
      BY <1>t, <2>1, PopFacts
    <3> QED
      BY <3>1 DEF FrameSet
  <2>4. lowering = None
    BY <2>1 DEF LoweringFrames
  <2>5. frames' = DtorFrames(i, rep) \o below
    BY <1>9 DEF BuiltinReturn
  <2>6. Frame("dtor", i) \in FrameSet /\ Frame("hdtor", i) \in FrameSet
    BY <2>3, FrameType DEF FrameKinds, GuestKinds, CodeKinds
  <2> HIDE DEF i, below
  <2>7. ASSUME NEW x \in FrameSet, x.kind \in {"dtor", "hdtor"}, frames' = Push(x, below)
        PROVE  WellNested'
    <3>1. Nested(frames') /\ frames'[1] = x
      BY <2>2, <2>7, NestedPush, PushFacts DEF MayRest
    <3> QED
      BY <2>1, <2>4, <2>7, <3>1 DEF LoweringFrames
  <2>8. CASE DtorFrames(i, rep) = <<>>
    <3>1. frames' = below
      BY <2>2, <2>5, <2>8, ConcatEmptySeq
    <3> QED
      BY <2>1, <2>2, <2>4, <3>1 DEF LoweringFrames, CodeKinds
  <2>9. CASE DtorFrames(i, rep) = <<Frame("dtor", i)>>
    BY <2>5, <2>6, <2>7, <2>9 DEF Push, Frame
  <2>10. CASE DtorFrames(i, rep) = <<Frame("hdtor", i)>>
    BY <2>5, <2>6, <2>7, <2>10 DEF Push, Frame
  <2> QED
    BY <2>3, <2>8, <2>9, <2>10, DtorFramesFacts
<1>10. CASE Finish
  BY <1>10 DEF Finish, LoweringFrames
<1>11. CASE UNCHANGED execVars
  BY <1>11 DEF execVars, LoweringFrames
<1> QED
  BY <1>1, <1>2, <1>3, <1>4, <1>5, <1>6, <1>7, <1>8, <1>9, <1>10, <1>11
     DEF ExecNext

(* The host never calls an import of the guest, and never enters an export *)
(* on top of a call: imports are called from the code of an export or of a *)
(* destructor, and reallocs run on the call whose values they make room for.*)
THEOREM ExecNested == ExecSpec => []WellNested
<1>1. ExecInit => WellNested
  <2>1. Frame("start", None) \in FrameSet /\ Frame("start", None).kind = "start"
    BY FrameType DEF FrameKinds, GuestKinds, Frame
  <2> QED
    BY <2>1, NestedSingle, NestedEmpty
       DEF ExecInit, WellNested, LoweringFrames, Bottoms
<1>2. ExecTypeOK /\ WellNested /\ [ExecNext]_execVars => WellNested'
  BY WellNestedStep
<1> QED
  BY <1>1, <1>2, ExecTypeCorrect, PTL DEF ExecSpec

----------------------------------------------------------------------------
(* The driver.                                                             *)

InHost(fr) == fr # <<>> /\ fr[1].kind \in {"host", "hdtor"}

(* What STATE is, by the innermost activations.  Guest code that may call  *)
(* imports (core, dtor) finds there whatever the last call left.           *)
Context ==
  /\ stack = <<>> => dstate.kind \in {"root", "setup"}
  /\ InHost(stack) => dstate = HostCall(stack[1].idx)
  /\ stack # <<>> /\ stack[1].kind = "builtin" => dstate = BuiltinCall(stack[1].idx)
  /\ stack # <<>> /\ stack[1].kind \in {"post", "start"} => dstate = Root
  /\ stack # <<>> /\ stack[1].kind = "realloc" =>
       IF Len(stack) = 1 THEN dstate.kind = "setup"
       ELSE dstate = HostCall(stack[2].idx)

(* One realloc stack for the loop of run_replay, and one for that of a     *)
(* host call while it is live; there is never a second host call.          *)
HostLive ==
  \/ InHost(stack)
  \/ stack # <<>> /\ stack[1].kind = "realloc" /\ Len(stack) > 1
ReallocDepth == Len(reallocs) = IF HostLive THEN 2 ELSE 1

DriverInv == DriverTypeOK /\ Nested(stack) /\ Context /\ ReallocDepth
----------------------------------------------------------------------------
(* The recorder.  It leaves the driver's variables alone.                  *)

LEMMA RecordKeeps ==
  ASSUME DriverInv, ExecTypeOK', UNCHANGED <<validated, status, globalVars, localVars, deviated>>,
         recording' \in {"live", "closed", "torn", "foreign"},
         trace' \in Seq(EventSet), script' \in Seq(StepSet)
  PROVE  DriverInv'
BY DEF DriverInv, DriverTypeOK, Context, ReallocDepth, HostLive, InHost,
       globalVars, localVars

LEMMA WriteType ==
  ASSUME NEW events \in Seq(EventSet), Write(events)
  PROVE  trace' \in Seq(EventSet)
<1>1. Diagnostic \in EventSet
  BY DEF Diagnostic, Event, EventSet, EventKinds
<1>2. <<Diagnostic>> \o events \in Seq(EventSet)
  BY <1>1, PushFacts DEF Push
<1>3. trace' = events \/ trace' = <<Diagnostic>> \o events
  BY DEF Write
<1> QED
  BY <1>2, <1>3

(* Events and steps have the types of the trace and of the script.         *)
LEMMA EventType ==
  ASSUME NEW e \in EventKinds, NEW i \in Exports \cup {None},
         NEW v \in Args \cup {None}
  PROVE  /\ Event(e, i, v) \in EventSet
         /\ <<Event(e, i, v)>> \in Seq(EventSet)
         /\ Validation(Event(e, i, v)) \in Seq(EventSet)
<1>1. Event(e, i, v) \in EventSet
  BY DEF Event, EventSet
<1>2. <<Event(e, i, v)>> \in Seq(EventSet) /\ <<>> \in Seq(EventSet)
  BY <1>1
<1> QED
  BY <1>1, <1>2 DEF Validation

LEMMA StepType ==
  ASSUME NEW o \in StepOps, NEW d \in {"import", "export", "none"},
         NEW i \in Exports \cup Imports \cup {None},
         NEW v \in Args \cup {None}
  PROVE  Step(o, d, i, v) \in StepSet /\ <<Step(o, d, i, v)>> \in Seq(StepSet)
BY DEF Step, StepSet

LEMMA RecordStep ==
  ASSUME DriverInv, UNCHANGED deviated, ExecTypeOK',
         NEW events \in Seq(EventSet), NEW steps \in Seq(StepSet),
         Record(events, steps)
  PROVE  DriverInv'
<1>1. trace' \in Seq(EventSet)
  BY WriteType DEF Record
<1>2. /\ UNCHANGED <<validated, status, globalVars, localVars, deviated>>
      /\ recording' = recording /\ script' = steps
  BY DEF Record
<1>3. recording \in {"live", "closed", "torn", "foreign"}
  BY DEF DriverInv, DriverTypeOK
<1> QED
  BY <1>1, <1>2, <1>3, RecordKeeps
(* The recorder takes only steps of an execution.                          *)
LEMMA RecorderExec == ASSUME Recorder PROVE [ExecNext]_execVars
<1> USE DEF ExecNext
<1>1. ASSUME NEW f \in Exports, RecBegin(f) \/ RecPostReturn(f)
      PROVE  [ExecNext]_execVars
  BY <1>1 DEF RecBegin, RecPostReturn
<1>2. ASSUME NEW ev, RecLower(ev) PROVE [ExecNext]_execVars
  BY <1>2 DEF RecLower
<1>3. ASSUME NEW v \in Args,
             \/ RecRealloc(v) \/ RecWrite(v) \/ RecEntry(v) \/ RecExit(v)
             \/ RecGrow(v) \/ RecHostReturn(v)
      PROVE  [ExecNext]_execVars
  BY <1>3 DEF RecRealloc, RecWrite, RecEntry, RecExit, RecGrow, RecHostReturn
<1>4. ASSUME NEW k \in {"start", "post", "realloc", "dtor"}, Leave({k})
      PROVE  [ExecNext]_execVars
  BY <1>4 DEF Leave, Innermost
<1>5. ASSUME NEW i \in Imports, NEW v \in Args, RecCall(i, v)
      PROVE  [ExecNext]_execVars
  BY <1>5 DEF RecCall
<1>6. ASSUME NEW rep \in U32 \cup {None}, RecBuiltinReturn(rep)
      PROVE  [ExecNext]_execVars
  BY <1>6 DEF RecBuiltinReturn
<1>7. CASE RecFinish
  BY <1>7 DEF RecFinish
<1>8. CASE RecCrash
  BY <1>8 DEF RecCrash
<1> QED
  BY <1>1, <1>2, <1>3, <1>4, <1>5, <1>6, <1>7, <1>8
     DEF Recorder, RecLeave, RecReallocReturn, RecDtorReturn

LEMMA RecorderInv ==
  ASSUME DriverInv, Recorder, UNCHANGED deviated
  PROVE  DriverInv'
<1>t. ExecTypeOK /\ frames \in Seq(FrameSet) /\ lowering \in Exports \cup {None}
      /\ owed \in [Exports -> Args \cup {None}]
  BY DEF DriverInv, DriverTypeOK, ExecTypeOK
<1>e. ExecTypeOK'
  BY <1>t, RecorderExec, ExecTypeStep
<1>h. ASSUME frames # <<>>
      PROVE  Head(frames).idx \in Exports \cup Imports \cup {None}
  <2>1. Head(frames) \in FrameSet
    BY <1>t, <1>h, PopFacts
  <2> QED
    BY <2>1 DEF FrameSet
<1>l. ASSUME Lowers
      PROVE  LowerDir \in {"import", "export", "none"}
             /\ LowerIdx \in Exports \cup Imports \cup {None}
  BY <1>t, <1>h DEF LowerDir, LowerIdx
<1>n. <<>> \in Seq(EventSet) /\ <<>> \in Seq(StepSet) /\ NoArgs \in Args
      /\ U32 \subseteq Args
  BY ArgsAssumption DEF U32
<1> USE DEF EventKinds, StepOps
<1>1. ASSUME NEW f \in Exports, RecBegin(f) PROVE DriverInv'
  BY <1>1, <1>e, <1>n, EventType, RecordStep DEF RecBegin
<1>2. ASSUME NEW f \in Exports, RecPostReturn(f) PROVE DriverInv'
  <2> DEFINE events == <<Event("post_return", f, None)>>
             steps == IF f \in Posts
                      THEN <<Step("post", "export", f, owed[f])>> ELSE <<>>
  <2>1. events \in Seq(EventSet)
    BY EventType
  <2>2. steps \in Seq(StepSet)
    BY <1>t, <1>n, StepType
  <2>3. Record(events, steps)
    BY <1>2 DEF RecPostReturn
  <2> HIDE DEF events, steps
  <2> QED
    BY <1>e, <2>1, <2>2, <2>3, RecordStep
<1>3. ASSUME NEW ev \in {"lower_entry", "lower_return"}, RecLower(ev)
      PROVE  DriverInv'
  BY <1>3, <1>e, <1>n, EventType, RecordStep DEF RecLower
<1>4. ASSUME NEW v \in Args, RecRealloc(v) PROVE DriverInv'
  <2>1. Lowers
    BY <1>4 DEF RecRealloc, Realloc
  <2>2. <<Step("realloc", LowerDir, LowerIdx, v)>> \in Seq(StepSet)
    BY <1>l, <2>1, StepType
  <2>3. <<Event("realloc", None, v)>> \in Seq(EventSet)
    BY EventType
  <2> QED
    BY <1>4, <1>e, <2>2, <2>3, RecordStep DEF RecRealloc
<1>5. ASSUME NEW v \in Args, RecReallocReturn(v) PROVE DriverInv'
  <2>1. /\ Validation(Event("realloc_return", None, v)) \in Seq(EventSet)
        /\ <<Step("realloc_done", "none", None, v)>> \in Seq(StepSet)
    BY EventType, StepType
  <2> QED
    BY <1>5, <1>e, <2>1, RecordStep DEF RecReallocReturn
<1>6. ASSUME NEW v \in Args, RecWrite(v) PROVE DriverInv'
  <2>1. Lowers
    BY <1>6 DEF RecWrite
  <2>2. <<Step("write", LowerDir, LowerIdx, v)>> \in Seq(StepSet)
    BY <1>l, <2>1, StepType
  <2>3. <<Event("write", None, v)>> \in Seq(EventSet)
    BY EventType
  <2> QED
    BY <1>6, <1>e, <2>2, <2>3, RecordStep DEF RecWrite
<1>7. ASSUME NEW v \in Args, RecEntry(v) PROVE DriverInv'
  <2>1. /\ <<Step("enter", "export", lowering, v)>> \in Seq(StepSet)
        /\ <<Event("entry", None, v)>> \in Seq(EventSet)
    BY <1>t, StepType, EventType
  <2> QED
    BY <1>7, <1>e, <2>1, RecordStep DEF RecEntry
<1>8. ASSUME NEW v \in Args, RecExit(v) PROVE DriverInv'
  <2>1. frames # <<>>
    BY <1>8 DEF RecExit, Exit, Innermost
  <2>2. /\ Validation(Event("wasm_return", None, v)) \in Seq(EventSet)
        /\ <<Step("exit", "export", Head(frames).idx, v)>> \in Seq(StepSet)
    BY <1>h, <2>1, EventType, StepType
  <2> QED
    BY <1>8, <1>e, <2>2, RecordStep DEF RecExit
<1>9. ASSUME NEW k \in {"start", "post"}, RecLeave(k) PROVE DriverInv'
  <2>1. DoneOp[k] \in {"start_done", "post_done"}
    BY DEF DoneOp
  <2>2. <<Step(DoneOp[k], "none", None, None)>> \in Seq(StepSet)
    BY <2>1, StepType
  <2> QED
    BY <1>9, <1>e, <1>n, <2>2, RecordStep DEF RecLeave
<1>10. ASSUME NEW v \in Args, RecGrow(v) PROVE DriverInv'
  <2> DEFINE steps == <<Step("grow", "none", None, None), Step("grown", "none", None, v)>>
  <2>1. /\ <<Event("grow", None, v)>> \in Seq(EventSet)
        /\ Step("grow", "none", None, None) \in StepSet
        /\ Step("grown", "none", None, v) \in StepSet
    BY EventType, StepType
  <2>2. steps \in Seq(StepSet)
    BY <2>1
  <2>3. Record(<<Event("grow", None, v)>>, steps)
    BY <1>10 DEF RecGrow
  <2> HIDE DEF steps
  <2> QED
    BY <1>e, <2>1, <2>2, <2>3, RecordStep
<1>11. ASSUME NEW i \in Imports, NEW v \in Args, RecCall(i, v) PROVE DriverInv'
  <2>1. EntryEvent[CallKind(i)] \in {"host_entry", "builtin_entry"}
    BY DEF EntryEvent, CallKind
  <2>2. /\ Validation(Event(EntryEvent[CallKind(i)], None, v)) \in Seq(EventSet)
        /\ <<Step("call", "import", i, v)>> \in Seq(StepSet)
    BY <2>1, EventType, StepType
  <2> QED
    BY <1>11, <1>e, <2>2, RecordStep DEF RecCall
<1>12. ASSUME NEW v \in Args, RecHostReturn(v) PROVE DriverInv'
  <2>1. frames # <<>>
    BY <1>12 DEF RecHostReturn, HostReturn, Innermost
  <2>2. PICK e \in {Event("host_return", None, v),
                    Event("host_return_empty", None, None)} :
          Record(<<e>>, <<Step("ret", "import", Head(frames).idx, v)>>)
    BY <1>12 DEF RecHostReturn
  <2>3. <<e>> \in Seq(EventSet)
    BY EventType
  <2>4. <<Step("ret", "import", Head(frames).idx, v)>> \in Seq(StepSet)
    BY <1>h, <2>1, StepType
  <2> QED
    BY <1>e, <2>2, <2>3, <2>4, RecordStep
<1>13. ASSUME NEW rep \in U32 \cup {None}, RecBuiltinReturn(rep) PROVE DriverInv'
  <2> DEFINE i == Head(frames).idx
             ret == Event("builtin_return", None, rep)
             again == Validation(Event("host_entry", None, rep))
             res == IF Kind[i] = "value" THEN rep ELSE NoArgs
  <2>1. frames # <<>>
    BY <1>13 DEF RecBuiltinReturn, BuiltinReturn, Innermost
  <2>2. i \in Exports \cup Imports \cup {None} /\ res \in Args \cup {None}
        /\ rep \in Args \cup {None}
    BY <1>h, <1>n, <2>1
  <2>3. /\ ret \in EventSet /\ <<ret>> \in Seq(EventSet)
        /\ again \in Seq(EventSet)
    BY <2>2, EventType
  <2>4. <<ret>> \o again \in Seq(EventSet)
    BY <2>3, ConcatProperties
  <2>5. /\ <<Step("ret", "import", i, res)>> \in Seq(StepSet)
        /\ <<Step("dtor", "import", i, rep)>> \in Seq(StepSet)
    BY <2>2, StepType
  <2>6. \/ Record(<<ret>>, <<Step("ret", "import", i, res)>>)
        \/ Record(<<ret>>, <<Step("dtor", "import", i, rep)>>)
        \/ Record(<<ret>> \o again, <<>>)
    <3> DEFINE dtor == DtorFrames(i, rep)
    <3>1. CASE dtor = <<>>
      BY <1>13, <3>1 DEF RecBuiltinReturn
    <3>2. CASE dtor # <<>> /\ Kind[i] = "guest_dtor"
      BY <1>13, <3>2 DEF RecBuiltinReturn
    <3>3. CASE dtor # <<>> /\ Kind[i] # "guest_dtor"
      BY <1>13, <3>3 DEF RecBuiltinReturn
    <3> QED
      BY <3>1, <3>2, <3>3
  <2> HIDE DEF i, ret, again, res
  <2> QED
    BY <1>e, <1>n, <2>3, <2>4, <2>5, <2>6, RecordStep
<1>14. CASE RecDtorReturn
  <2> DEFINE steps == <<Step("dtor_done", "none", None, None),
                        Step("ret", "import", Head(frames).idx, NoArgs)>>
  <2>1. frames # <<>>
    BY <1>14 DEF RecDtorReturn, Leave, Innermost
  <2>2. /\ Step("dtor_done", "none", None, None) \in StepSet
        /\ Step("ret", "import", Head(frames).idx, NoArgs) \in StepSet
    BY <1>h, <1>n, <2>1, StepType
  <2>3. steps \in Seq(StepSet)
    BY <2>2
  <2>4. Record(<<>>, steps)
    BY <1>14 DEF RecDtorReturn
  <2> HIDE DEF steps
  <2> QED
    BY <1>e, <1>n, <2>3, <2>4, RecordStep
<1>15. CASE RecFinish
  <2>1. trace' \in Seq(EventSet)
    BY <1>15, EventType, WriteType DEF RecFinish
  <2>2. script' \in Seq(StepSet)
    BY <1>15 DEF RecFinish, DriverInv, DriverTypeOK
  <2> QED
    BY <1>15, <1>e, <2>1, <2>2, RecordKeeps DEF RecFinish
<1>16. CASE RecCrash
  <2>1. trace' \in Seq(EventSet)
    BY <1>16, EventType DEF RecCrash
  <2>2. script' \in Seq(StepSet)
    BY <1>16 DEF RecCrash, DriverInv, DriverTypeOK
  <2> QED
    BY <1>16, <1>e, <2>1, <2>2, RecordKeeps DEF RecCrash
<1> QED
  BY <1>1, <1>2, <1>3, <1>4, <1>5, <1>6, <1>7, <1>8, <1>9, <1>10, <1>11,
     <1>12, <1>13, <1>14, <1>15, <1>16 DEF Recorder
----------------------------------------------------------------------------
(* The replay.  It leaves the recorder's variables alone.                  *)

Statuses == {"boot", "running", "done", "panicked", "diverged"}

(* The types of what a step of the replay may change.                      *)
ReplayTypeOK ==
  /\ trace \in Seq(EventSet)
  /\ script \in Seq(StepSet)
  /\ status \in Statuses
  /\ deviated \in BOOLEAN
  /\ dstate \in StateSet
  /\ backing \in Args \cup {None}
  /\ initialized \in BOOLEAN
  /\ stack \in Seq(FrameSet)
  /\ reallocs \in Seq(Seq(Args))
  /\ postArgs \in [Exports -> Args \cup {None}]

ReplayInv == ReplayTypeOK /\ Nested(stack) /\ Context /\ ReallocDepth

LEMMA SplitInv ==
  /\ DriverInv => ReplayInv
  /\ DriverInv /\ ReplayInv' /\ UNCHANGED recorderVars => DriverInv'
BY DEF DriverInv, ReplayInv, DriverTypeOK, ReplayTypeOK, Statuses,
       ExecTypeOK, recorderVars, execVars

(* A step that moves neither the stack, STATE nor the number of realloc    *)
(* stacks keeps all but the types.                                         *)
LEMMA ContextKept ==
  ASSUME ReplayInv, ReplayTypeOK', UNCHANGED <<stack, dstate>>,
         Len(reallocs') = Len(reallocs)
  PROVE  ReplayInv'
BY DEF ReplayInv, Context, ReallocDepth, HostLive, InHost

LEMMA PanicInv ==
  ASSUME ReplayInv, Panic, deviated' \in BOOLEAN
  PROVE  ReplayInv'
<1>1. ReplayTypeOK'
  BY DEF Panic, ReplayInv, ReplayTypeOK, Statuses, globalVars, localVars
<1> QED
  BY <1>1, ContextKept DEF Panic, globalVars, localVars

(* What the head of the trace may hold.                                    *)
LEMMA ReadFacts ==
  ASSUME ReplayTypeOK, trace # <<>>
  PROVE  /\ Head(trace).idx \in Exports \cup {None}
         /\ Value \in Args \cup {None}
         /\ Tail(trace) \in Seq(EventSet)
<1>1. Head(trace) \in EventSet /\ Tail(trace) \in Seq(EventSet)
  BY PopFacts DEF ReplayTypeOK
<1> QED
  BY <1>1 DEF EventSet, Value

LEMMA DeliverType ==
  ASSUME ReplayTypeOK, NEW rest \in Seq(StepSet), NEW step, Deliver(rest, step)
  PROVE  script' \in Seq(StepSet) /\ status' \in Statuses
<1>1. CASE rest # <<>> /\ Head(rest) = step
  <2>1. Tail(rest) \in Seq(StepSet)
    BY <1>1, PopFacts
  <2> QED
    BY <1>1, <2>1 DEF Deliver, ReplayTypeOK
<1>2. CASE ~(rest # <<>> /\ Head(rest) = step)
  BY <1>2 DEF Deliver, Statuses
<1> QED
  BY <1>1, <1>2

(* The stack after a push.                                                 *)
LEMMA PushedStack ==
  ASSUME ReplayTypeOK, NEW x \in FrameSet, stack' = Push(x, stack)
  PROVE  /\ stack' \in Seq(FrameSet) /\ stack' # <<>> /\ stack'[1] = x
         /\ Len(stack') = Len(stack) + 1 /\ Len(stack) \in Nat
         /\ stack = <<>> => Len(stack) = 0
         /\ stack # <<>> => stack'[2] = stack[1] /\ Len(stack) > 0
<1>1. stack \in Seq(FrameSet) /\ Len(stack) \in Nat
      /\ (stack = <<>> <=> Len(stack) = 0)
  BY LenProperties, EmptySeq DEF ReplayTypeOK
<1>2. \A k \in 1..Len(stack) : stack'[k + 1] = stack[k]
  BY <1>1, PushFacts
<1>3. stack # <<>> => 1 \in 1..Len(stack) /\ stack'[1 + 1] = stack[1]
  BY <1>1, <1>2
<1>4. /\ stack' \in Seq(FrameSet) /\ stack' # <<>> /\ stack'[1] = x
      /\ Len(stack') = Len(stack) + 1
  BY <1>1, PushFacts
<1>5. 1 + 1 = 2
  OBVIOUS
<1> QED
  BY <1>1, <1>3, <1>4, <1>5

(* The stack after a pop.  What it uncovers is never a realloc.            *)
LEMMA PoppedStack ==
  ASSUME ReplayTypeOK, Nested(stack), stack # <<>>, stack' = Tail(stack)
  PROVE  /\ stack' \in Seq(FrameSet) /\ Nested(stack')
         /\ stack[1].kind \in {"core", "post", "start"} => stack' = <<>>
         /\ stack[1].kind \in {"host", "hdtor", "builtin", "dtor"} =>
              stack' # <<>> /\ stack'[1].kind \in CodeKinds
         /\ stack[1].kind = "realloc" =>
              IF Len(stack) = 1 THEN stack' = <<>>
              ELSE /\ stack' # <<>> /\ stack'[1] = stack[2]
                   /\ stack[2].kind \in {"host", "hdtor"}
<1>1. stack \in Seq(FrameSet)
  BY DEF ReplayTypeOK
<1>2. /\ Len(stack) \in Nat \ {0}
      /\ stack' = <<>> <=> Len(stack) = 1
      /\ \A k \in 1..(Len(stack) - 1) : stack'[k] = stack[k + 1]
      /\ stack' \in Seq(FrameSet)
  BY <1>1, PopFacts
<1>3. Len(stack) > 1 => stack'[1] = stack[1 + 1]
  BY <1>2
<1> QED
  BY <1>1, <1>2, <1>3, NestedPop, NestedBelow

(* The innermost activation and the kinds a guard allows it.               *)
LEMMA InnermostFacts ==
  ASSUME ReplayTypeOK, NEW kinds, Innermost(stack, kinds)
  PROVE  /\ stack # <<>> /\ Head(stack) = stack[1] /\ stack[1].kind \in kinds
         /\ stack[1] \in FrameSet /\ Tail(stack) \in Seq(FrameSet)
         /\ Head(stack).idx \in Exports \cup Imports \cup {None}
<1>1. stack # <<>> /\ Head(stack).kind \in kinds
  BY DEF Innermost
<1>2. Head(stack) = stack[1] /\ stack[1] \in FrameSet /\ Tail(stack) \in Seq(FrameSet)
  BY <1>1, PopFacts DEF ReplayTypeOK
<1> QED
  BY <1>1, <1>2 DEF FrameSet

(* A push on the realloc stacks, and the types of the innermost of them.   *)
LEMMA ReallocFacts ==
  ASSUME ReplayInv
  PROVE  /\ reallocs \in Seq(Seq(Args)) /\ reallocs # <<>>
         /\ Len(reallocs) \in Nat
         /\ Head(reallocs) \in Seq(Args) /\ Tail(reallocs) \in Seq(Seq(Args))
         /\ Len(Tail(reallocs)) = Len(reallocs) - 1
         /\ \A r \in Seq(Args) : /\ Push(r, Tail(reallocs)) \in Seq(Seq(Args))
                                 /\ Len(Push(r, Tail(reallocs))) = Len(reallocs)
         /\ Push(<<>>, reallocs) \in Seq(Seq(Args))
         /\ Len(Push(<<>>, reallocs)) = Len(reallocs) + 1
<1>1. reallocs \in Seq(Seq(Args)) /\ Len(reallocs) \in {1, 2}
  BY DEF ReplayInv, ReplayTypeOK, ReallocDepth
<1>2. reallocs # <<>>
  BY <1>1
<1>3. /\ Head(reallocs) = reallocs[1] /\ reallocs[1] \in Seq(Args)
      /\ Tail(reallocs) \in Seq(Seq(Args))
      /\ Len(Tail(reallocs)) = Len(reallocs) - 1
  BY <1>1, <1>2, PopFacts
<1>4. <<>> \in Seq(Args)
  OBVIOUS
<1>5. ASSUME NEW r \in Seq(Args)
      PROVE  /\ Push(r, Tail(reallocs)) \in Seq(Seq(Args))
             /\ Len(Push(r, Tail(reallocs))) = Len(Tail(reallocs)) + 1
  BY <1>3, PushFacts
<1>6. /\ Push(<<>>, reallocs) \in Seq(Seq(Args))
      /\ Len(Push(<<>>, reallocs)) = Len(reallocs) + 1
  BY <1>1, <1>4, PushFacts
<1> QED
  BY <1>1, <1>2, <1>3, <1>5, <1>6
----------------------------------------------------------------------------
(* One lemma for each action of the driver that moves the stack or STATE.  *)

LEMMA StateType ==
  ASSUME NEW i \in Exports \cup Imports \cup {None}
  PROVE  /\ HostCall(i) \in StateSet /\ BuiltinCall(i) \in StateSet
         /\ LoweringSetup(i) \in StateSet
BY DEF HostCall, BuiltinCall, LoweringSetup, StateSet

LEMMA InitReplayerInv ==
  ASSUME ReplayInv, NEW after \in Statuses, InitReplayer(after),
         UNCHANGED <<script, deviated, localVars>>,
         stack # <<>> => stack[1].kind = "start"
  PROVE  ReplayInv'
<1> USE DEF localVars, globalVars
<1>t. ReplayTypeOK /\ NoArgs \in Args
  BY ArgsAssumption DEF ReplayInv
<1>1. CASE initialized
  <2>1. ReplayTypeOK' /\ UNCHANGED <<stack, dstate, reallocs>>
    BY <1>1, <1>t DEF InitReplayer, ReplayTypeOK
  <2> QED
    BY <2>1, ContextKept
<1>2. CASE ~initialized
  <2>1. /\ dstate' = Root /\ UNCHANGED <<stack, reallocs>>
        /\ trace' = Tail(trace) /\ initialized' = TRUE /\ backing' = NoArgs
        /\ status' \in Statuses
    BY <1>2 DEF InitReplayer, Read, Statuses
  <2>2. Tail(trace) \in Seq(EventSet)
    BY <1>2, <1>t, ReadFacts DEF InitReplayer
  <2>3. ReplayTypeOK'
    BY <1>t, <2>1, <2>2 DEF ReplayTypeOK, Root, StateSet
  <2> QED
    BY <2>1, <2>3
       DEF ReplayInv, Context, ReallocDepth, HostLive, InHost, Root
<1> QED
  BY <1>1, <1>2

LEMMA WasmFuncBeginInv ==
  ASSUME ReplayInv, WasmFuncBegin, UNCHANGED deviated
  PROVE  ReplayInv'
<1>t. ReplayTypeOK /\ stack = <<>> /\ trace # <<>>
  BY DEF ReplayInv, WasmFuncBegin, InRunReplay, NextIs
<1>1. CASE Panic
  BY <1>1, <1>t, PanicInv DEF ReplayTypeOK
<1>2. CASE ~Panic
  <2>1. /\ Read /\ dstate' = LoweringSetup(Head(trace).idx)
        /\ UNCHANGED <<script, status, backing, initialized, localVars>>
    BY <1>2 DEF WasmFuncBegin, OrPanic
  <2>2. dstate' \in StateSet /\ trace' \in Seq(EventSet)
    BY <1>t, <2>1, ReadFacts, StateType DEF Read
  <2>3. ReplayTypeOK'
    BY <1>t, <2>1, <2>2 DEF ReplayTypeOK, localVars
  <2> QED
    BY <1>t, <2>1, <2>3
       DEF ReplayInv, Context, ReallocDepth, HostLive, InHost, localVars, LoweringSetup
<1> QED
  BY <1>1, <1>2

LEMMA WasmFuncEntryInv ==
  ASSUME ReplayInv, WasmFuncEntry, UNCHANGED deviated
  PROVE  ReplayInv'
<1>t. ReplayTypeOK /\ stack = <<>> /\ trace # <<>>
  BY DEF ReplayInv, WasmFuncEntry, InRunReplay, NextIs
<1>1. CASE Panic
  BY <1>1, <1>t, PanicInv DEF ReplayTypeOK
<1>2. CASE ~Panic
  <2> DEFINE x == Frame("core", dstate.idx)
             step == Step("enter", "export", dstate.idx, Value)
  <2>1. /\ Read /\ Deliver(script, step) /\ stack' = Push(x, stack)
        /\ UNCHANGED <<globalVars, reallocs, postArgs>>
    BY <1>2 DEF WasmFuncEntry, OrPanic
  <2>2. x \in FrameSet /\ x.kind = "core"
    <3>1. dstate.idx \in Exports \cup Imports \cup {None}
      BY <1>t DEF ReplayTypeOK, StateSet
    <3> QED
      BY <3>1, FrameType DEF FrameKinds, GuestKinds, CodeKinds, Frame
  <2> HIDE DEF x, step
  <2>3. script' \in Seq(StepSet) /\ status' \in Statuses /\ trace' \in Seq(EventSet)
    BY <1>t, <2>1, DeliverType, ReadFacts DEF ReplayTypeOK, Read
  <2>4. stack' \in Seq(FrameSet) /\ stack' # <<>> /\ stack'[1] = x
    BY <1>t, <2>1, <2>2, PushedStack
  <2>5. Nested(stack')
    BY <1>t, <2>1, <2>2, NestedPush DEF ReplayInv, ReplayTypeOK, Bottoms
  <2>6. ReplayTypeOK'
    BY <1>t, <2>1, <2>3, <2>4 DEF ReplayTypeOK, globalVars
  <2> QED
    BY <1>t, <2>1, <2>2, <2>4, <2>5, <2>6
       DEF ReplayInv, Context, ReallocDepth, HostLive, InHost
<1> QED
  BY <1>1, <1>2

LEMMA ReadPostReturnInv ==
  ASSUME ReplayInv, ReadPostReturn, UNCHANGED deviated
  PROVE  ReplayInv'
<1> DEFINE f == Head(trace).idx
           step == Step("post", "export", f, postArgs[f])
<1>t. /\ ReplayTypeOK /\ stack = <<>> /\ trace # <<>>
      /\ f \in Exports \cup Imports \cup {None} /\ trace # <<>>
  BY ReadFacts DEF ReplayInv, ReadPostReturn, InRunReplay, NextIs
<1>1. CASE Panic
  BY <1>1, <1>t, PanicInv DEF ReplayTypeOK
<1>2. CASE ~Panic
  <2>1. /\ dstate = Root /\ Read
        /\ postArgs' = [postArgs EXCEPT ![f] = None]
        /\ IF f \in Posts
           THEN Deliver(script, step) /\ stack' = Push(Frame("post", f), stack)
           ELSE UNCHANGED <<script, status, stack>>
        /\ UNCHANGED <<globalVars, reallocs>>
    BY <1>2 DEF ReadPostReturn, OrPanic, PostArgsTaken
  <2>2. Frame("post", f) \in FrameSet /\ Frame("post", f).kind = "post"
    BY <1>t, FrameType DEF FrameKinds, GuestKinds, Frame
  <2> HIDE DEF f, step
  <2>3. script' \in Seq(StepSet) /\ status' \in Statuses /\ trace' \in Seq(EventSet)
    BY <1>t, <2>1, DeliverType, ReadFacts DEF ReplayTypeOK, Read
  <2>4. postArgs' \in [Exports -> Args \cup {None}]
    BY <1>t, <2>1 DEF ReplayTypeOK
  <2>5. CASE f \in Posts
    <3>1. /\ stack' \in Seq(FrameSet) /\ stack' # <<>>
          /\ stack'[1] = Frame("post", f)
      BY <1>t, <2>1, <2>2, <2>5, PushedStack
    <3>2. Nested(stack')
      BY <1>t, <2>1, <2>2, <2>5, NestedPush DEF ReplayInv, ReplayTypeOK, Bottoms
    <3>3. ReplayTypeOK'
      BY <1>t, <2>1, <2>3, <2>4, <3>1 DEF ReplayTypeOK, globalVars
    <3> QED
      BY <1>t, <2>1, <2>2, <3>1, <3>2, <3>3
         DEF ReplayInv, Context, ReallocDepth, HostLive, InHost, globalVars
  <2>6. CASE f \notin Posts
    <3>1. ReplayTypeOK' /\ UNCHANGED <<stack, dstate, reallocs>>
      BY <1>t, <2>1, <2>3, <2>4, <2>6 DEF ReplayTypeOK, globalVars
    <3> QED
      BY <3>1, ContextKept
  <2> QED
    BY <2>5, <2>6
<1> QED
  BY <1>1, <1>2

LEMMA ReallocEntryInv ==
  ASSUME ReplayInv, ReallocEntry, UNCHANGED deviated
  PROVE  ReplayInv'
<1>t. ReplayTypeOK /\ trace # <<>> /\ (InRunReplay \/ InHostCall)
  BY DEF ReplayInv, ReallocEntry, NextIs
<1>1. CASE Panic
  BY <1>1, <1>t, PanicInv DEF ReplayTypeOK
<1>2. CASE ~Panic
  <2> DEFINE x == Frame("realloc", None)
             step == Step("realloc", DriverDir(dstate), dstate.idx, Value)
  <2>1. /\ LowersState(dstate) /\ Read /\ Deliver(script, step)
        /\ stack' = Push(x, stack)
        /\ UNCHANGED <<globalVars, reallocs, postArgs>>
    BY <1>2 DEF ReallocEntry, OrPanic
  <2>2. x \in FrameSet /\ x.kind = "realloc"
    BY FrameType DEF FrameKinds, GuestKinds, Frame
  <2> HIDE DEF x, step
  <2>3. script' \in Seq(StepSet) /\ status' \in Statuses /\ trace' \in Seq(EventSet)
    BY <1>t, <2>1, DeliverType, ReadFacts DEF ReplayTypeOK, Read
  <2>4. /\ stack' \in Seq(FrameSet) /\ stack' # <<>> /\ stack'[1] = x
        /\ Len(stack') = Len(stack) + 1 /\ Len(stack) \in Nat
        /\ stack = <<>> => Len(stack) = 0
        /\ stack # <<>> => stack'[2] = stack[1] /\ Len(stack) > 0
    BY <1>t, <2>1, <2>2, PushedStack
  <2>5. stack = <<>> \/ (stack # <<>> /\ stack[1].kind \in {"host", "hdtor"})
    BY <1>t, InnermostFacts DEF InRunReplay, InHostCall
  <2>6. Nested(stack')
    BY <1>t, <2>1, <2>2, <2>5, NestedPush
       DEF ReplayInv, ReplayTypeOK, Bottoms, MayRest
  <2>7. ReplayTypeOK'
    BY <1>t, <2>1, <2>3, <2>4 DEF ReplayTypeOK, globalVars
  <2>8. UNCHANGED <<dstate, reallocs>>
    BY <2>1 DEF globalVars
  <2>9. CASE stack = <<>>
    <3>1. dstate.kind = "setup" /\ Len(reallocs) = 1
      BY <2>1, <2>9
         DEF ReplayInv, Context, LowersState, ReallocDepth, HostLive, InHost
    <3> QED
      BY <2>2, <2>4, <2>6, <2>7, <2>8, <2>9, <3>1
         DEF ReplayInv, Context, ReallocDepth, HostLive, InHost
  <2>10. CASE stack # <<>>
    <3>1. dstate = HostCall(stack[1].idx) /\ Len(reallocs) = 2
      BY <2>5, <2>10 DEF ReplayInv, Context, ReallocDepth, HostLive, InHost
    <3> QED
      BY <2>2, <2>4, <2>6, <2>7, <2>8, <2>10, <3>1
         DEF ReplayInv, Context, ReallocDepth, HostLive, InHost
  <2> QED
    BY <2>9, <2>10
<1> QED
  BY <1>1, <1>2
LEMMA HostFuncReturnInv ==
  ASSUME ReplayInv, HostFuncReturn, UNCHANGED deviated
  PROVE  ReplayInv'
<1>t. /\ ReplayTypeOK /\ trace # <<>> /\ InHostCall /\ NoArgs \in Args
      /\ ReturnedArgs \in Args \cup {None}
  <2>1. ReplayTypeOK /\ trace # <<>> /\ InHostCall /\ NoArgs \in Args
    BY ArgsAssumption DEF ReplayInv, HostFuncReturn, NextIs
  <2> QED
    BY <2>1, ReadFacts DEF ReturnedArgs
<1>1. CASE Panic
  BY <1>1, <1>t, PanicInv DEF ReplayTypeOK
<1>2. CASE ~Panic
  <2> DEFINE step == Step("ret", "import", Head(stack).idx,
                       IF Head(stack).kind = "hdtor" THEN NoArgs ELSE ReturnedArgs)
  <2>1. /\ Read /\ backing' = ReturnedArgs /\ Deliver(script, step)
        /\ stack' = Tail(stack) /\ reallocs' = Tail(reallocs)
        /\ UNCHANGED <<dstate, initialized, postArgs>>
    BY <1>2 DEF HostFuncReturn, OrPanic
  <2> HIDE DEF step
  <2>2. script' \in Seq(StepSet) /\ status' \in Statuses /\ trace' \in Seq(EventSet)
    BY <1>t, <2>1, DeliverType, ReadFacts DEF ReplayTypeOK, Read
  <2>3. stack # <<>> /\ stack[1].kind \in {"host", "hdtor"}
    BY <1>t, InnermostFacts DEF InHostCall
  <2>4. /\ stack' \in Seq(FrameSet) /\ Nested(stack') /\ stack' # <<>>
        /\ stack'[1].kind \in CodeKinds
    BY <1>t, <2>1, <2>3, PoppedStack DEF ReplayInv
  <2>5. Len(reallocs) = 2
    BY <2>3 DEF ReplayInv, ReallocDepth, HostLive, InHost
  <2>6. reallocs' \in Seq(Seq(Args)) /\ Len(reallocs') = 1
    BY <2>1, <2>5, ReallocFacts
  <2>7. ReplayTypeOK'
    BY <1>t, <2>1, <2>2, <2>4, <2>6 DEF ReplayTypeOK
  <2> QED
    BY <2>4, <2>6, <2>7
       DEF ReplayInv, Context, ReallocDepth, HostLive, InHost, CodeKinds
<1> QED
  BY <1>1, <1>2

LEMMA ReadBuiltinReturnInv ==
  ASSUME ReplayInv, ReadBuiltinReturn, UNCHANGED deviated
  PROVE  ReplayInv'
<1> DEFINE i == Head(stack).idx
           dtor == DtorFrames(i, Value)
           below == Tail(stack)
           val == IF Kind[i] = "value" THEN Value ELSE NoArgs
<1>t. /\ ReplayTypeOK /\ trace # <<>> /\ Innermost(stack, {"builtin"})
      /\ Value \in Args \cup {None}
  BY ReadFacts DEF ReplayInv, ReadBuiltinReturn, NextIs, InBuiltinCall
<1>1. CASE Panic
  BY <1>1, <1>t, PanicInv DEF ReplayTypeOK
<1>2. CASE ~Panic
  <2>1. /\ Read /\ backing' = Value /\ stack' = dtor \o below
        /\ UNCHANGED <<initialized, postArgs>>
    BY <1>2 DEF ReadBuiltinReturn, OrPanic
  <2>2. /\ stack # <<>> /\ stack[1].kind = "builtin" /\ below \in Seq(FrameSet)
        /\ i \in Exports \cup Imports \cup {None}
    BY <1>t, InnermostFacts
  <2>3. Nested(below) /\ below # <<>> /\ below[1].kind \in CodeKinds
    <3>1. stack \in Seq(FrameSet) /\ Nested(stack)
      BY DEF ReplayInv, ReplayTypeOK
    <3>2. Len(stack) > 1 /\ stack[2].kind \in CodeKinds
      BY <2>2, <3>1, NestedBelow
    <3>3. below # <<>> /\ below[1] = stack[1 + 1]
      BY <2>2, <3>1, <3>2, PopFacts
    <3>4. 1 + 1 = 2
      OBVIOUS
    <3> QED
      BY <2>2, <3>1, <3>2, <3>3, <3>4, NestedPop
  <2>4. /\ dtor = <<>> =>
             Deliver(script, Step("ret", "import", i, val))
               /\ UNCHANGED <<dstate, reallocs>>
        /\ dtor # <<>> /\ Kind[i] = "guest_dtor" =>
             Deliver(script, Step("dtor", "import", i, Value))
               /\ UNCHANGED <<dstate, reallocs>>
        /\ dtor # <<>> /\ Kind[i] # "guest_dtor" =>
             /\ dstate' = HostCall(i) /\ reallocs' = Push(<<>>, reallocs)
             /\ UNCHANGED <<script, status>>
    <3>1. CASE dtor = <<>>
      BY <1>2, <3>1 DEF ReadBuiltinReturn, OrPanic
    <3>2. CASE dtor # <<>> /\ Kind[i] = "guest_dtor"
      BY <1>2, <3>2 DEF ReadBuiltinReturn, OrPanic
    <3>3. CASE dtor # <<>> /\ Kind[i] # "guest_dtor"
      BY <1>2, <3>3 DEF ReadBuiltinReturn, OrPanic
    <3> QED
      BY <3>1, <3>2, <3>3
  <2>5. \/ dtor = <<>>
        \/ dtor = <<Frame("dtor", i)>> /\ Kind[i] = "guest_dtor"
        \/ dtor = <<Frame("hdtor", i)>> /\ Kind[i] = "host_dtor"
    BY <2>2, DtorFramesFacts
  <2>6. /\ Frame("dtor", i) \in FrameSet /\ Frame("dtor", i).kind = "dtor"
        /\ Frame("hdtor", i) \in FrameSet /\ Frame("hdtor", i).kind = "hdtor"
        /\ Frame("hdtor", i).idx = i
    BY <2>2, FrameType DEF FrameKinds, GuestKinds, CodeKinds, Frame
  <2>7. trace' \in Seq(EventSet) /\ script \in Seq(StepSet) /\ status \in Statuses
    BY <1>t, <2>1, ReadFacts DEF ReplayTypeOK, Read
  <2>8. Len(reallocs) = 1 /\ reallocs \in Seq(Seq(Args)) /\ dstate \in StateSet
    BY <2>2 DEF ReplayInv, ReplayTypeOK, ReallocDepth, HostLive, InHost
  <2> HIDE DEF i, dtor, below, val
  <2>9. ASSUME NEW x \in FrameSet, x.kind \in {"dtor", "hdtor"}, dtor = <<x>>
        PROVE  /\ stack' \in Seq(FrameSet) /\ stack' # <<>> /\ stack'[1] = x
               /\ Nested(stack')
    <3>1. stack' = Push(x, below)
      BY <2>1, <2>9 DEF Push
    <3> QED
      BY <2>2, <2>3, <2>9, <3>1, PushFacts, NestedPush DEF MayRest
  <2>10. CASE dtor = <<>>
    <3>1. stack' = below
      BY <2>1, <2>2, <2>10, ConcatEmptySeq
    <3>2. script' \in Seq(StepSet) /\ status' \in Statuses
      BY <1>t, <2>4, <2>7, <2>10, DeliverType
    <3>3. ReplayTypeOK'
      BY <1>t, <2>1, <2>2, <2>4, <2>7, <2>10, <3>1, <3>2 DEF ReplayTypeOK
    <3> QED
      BY <2>3, <2>4, <2>8, <2>10, <3>1, <3>3
         DEF ReplayInv, Context, ReallocDepth, HostLive, InHost, CodeKinds
  <2>11. CASE dtor = <<Frame("dtor", i)>> /\ Kind[i] = "guest_dtor"
    <3>1. /\ stack' \in Seq(FrameSet) /\ stack' # <<>>
          /\ stack'[1] = Frame("dtor", i) /\ Nested(stack')
      BY <2>6, <2>9, <2>11
    <3>2. Deliver(script, Step("dtor", "import", i, Value)) /\ UNCHANGED <<dstate, reallocs>>
      BY <2>4, <2>11
    <3>3. script' \in Seq(StepSet) /\ status' \in Statuses
      BY <1>t, <2>7, <3>2, DeliverType
    <3>4. ReplayTypeOK'
      BY <1>t, <2>1, <2>7, <3>1, <3>2, <3>3 DEF ReplayTypeOK
    <3> QED
      BY <2>6, <2>8, <3>1, <3>2, <3>4
         DEF ReplayInv, Context, ReallocDepth, HostLive, InHost
  <2>12. CASE dtor = <<Frame("hdtor", i)>> /\ Kind[i] = "host_dtor"
    <3>1. /\ stack' \in Seq(FrameSet) /\ stack' # <<>>
          /\ stack'[1] = Frame("hdtor", i) /\ Nested(stack')
      BY <2>6, <2>9, <2>12
    <3>2. /\ dstate' = HostCall(i) /\ reallocs' = Push(<<>>, reallocs)
          /\ UNCHANGED <<script, status>>
      BY <2>4, <2>12
    <3>3. reallocs' \in Seq(Seq(Args)) /\ Len(reallocs') = 2 /\ dstate' \in StateSet
      BY <2>2, <2>8, <3>2, ReallocFacts, StateType
    <3>4. ReplayTypeOK'
      BY <1>t, <2>1, <2>7, <3>1, <3>2, <3>3 DEF ReplayTypeOK
    <3> QED
      BY <2>6, <3>1, <3>2, <3>3, <3>4
         DEF ReplayInv, Context, ReallocDepth, HostLive, InHost
  <2> QED
    BY <2>5, <2>10, <2>11, <2>12
<1> QED
  BY <1>1, <1>2

(* The actions that move neither the stack nor STATE.                      *)
LEMMA DriverReadInv ==
  ASSUME ReplayInv, UNCHANGED deviated,
         \/ SkipDiagnostic \/ Eof \/ WasmFuncReturn \/ ReadLower
         \/ ReallocReturn \/ MemorySliceWrite \/ HostFuncEntry
         \/ BuiltinEntry \/ UnexpectedEvent
  PROVE  ReplayInv'
<1> USE DEF globalVars, localVars
<1>t. ReplayTypeOK
  BY DEF ReplayInv
<1>1. CASE Panic
  BY <1>1, <1>t, PanicInv DEF ReplayTypeOK
<1>2. ASSUME trace # <<>>, Read, status' \in Statuses, script' \in Seq(StepSet),
             UNCHANGED <<globalVars, stack, postArgs>>,
             reallocs' \in Seq(Seq(Args)), Len(reallocs') = Len(reallocs)
      PROVE  ReplayInv'
  <2>1. trace' \in Seq(EventSet)
    BY <1>t, <1>2, ReadFacts DEF Read
  <2>2. ReplayTypeOK'
    BY <1>t, <1>2, <2>1 DEF ReplayTypeOK
  <2> QED
    BY <1>2, <2>2, ContextKept
<1>3. ASSUME trace # <<>>, Read, status' \in Statuses,
             UNCHANGED <<script, globalVars, localVars>>
      PROVE  ReplayInv'
  BY <1>t, <1>2, <1>3 DEF ReplayTypeOK
<1>s. status \in Statuses /\ "done" \in Statuses
  BY <1>t DEF ReplayTypeOK, Statuses
<1>4. CASE SkipDiagnostic
  BY <1>3, <1>4, <1>s DEF SkipDiagnostic, NextIs
<1>5. CASE Eof
  BY <1>3, <1>5, <1>s DEF Eof, EndOfTrace, NextIs
<1>6. CASE WasmFuncReturn
  BY <1>1, <1>3, <1>6, <1>s DEF WasmFuncReturn, NextIs, OrPanic
<1>7. CASE ReadLower
  BY <1>1, <1>3, <1>7, <1>s DEF ReadLower, NextIs, OrPanic
<1>8. CASE HostFuncEntry
  BY <1>1, <1>3, <1>8, <1>s DEF HostFuncEntry, NextIs, OrPanic
<1>9. CASE BuiltinEntry
  BY <1>1, <1>3, <1>9, <1>s DEF BuiltinEntry, NextIs, OrPanic
<1>10. CASE UnexpectedEvent
  BY <1>1, <1>10 DEF UnexpectedEvent
<1>11. CASE MemorySliceWrite
  <2> DEFINE step == Step("write", DriverDir(dstate), dstate.idx, Value)
  <2>1. CASE ~Panic
    <3>1. /\ trace # <<>> /\ Read /\ Deliver(script, step)
          /\ UNCHANGED <<globalVars, localVars>>
      BY <1>11, <2>1 DEF MemorySliceWrite, OrPanic, NextIs
    <3> HIDE DEF step
    <3>2. script' \in Seq(StepSet) /\ status' \in Statuses
      BY <1>t, <3>1, DeliverType DEF ReplayTypeOK
    <3> QED
      BY <1>t, <1>2, <3>1, <3>2 DEF ReplayTypeOK
  <2> QED
    BY <1>1, <2>1
<1>12. CASE ReallocReturn
  <2>1. CASE ~Panic
    <3>1. /\ trace # <<>> /\ Read /\ Head(reallocs) # <<>>
          /\ reallocs' = Push(Tail(Head(reallocs)), Tail(reallocs))
          /\ UNCHANGED <<script, status, globalVars, stack, postArgs>>
      BY <1>12, <2>1 DEF ReallocReturn, OrPanic, NextIs, ReallocPopped
    <3>2. Tail(Head(reallocs)) \in Seq(Args)
      BY <3>1, ReallocFacts, PopFacts
    <3>3. reallocs' \in Seq(Seq(Args)) /\ Len(reallocs') = Len(reallocs)
      BY <3>1, <3>2, ReallocFacts
    <3> QED
      BY <1>t, <1>2, <1>s, <3>1, <3>3 DEF ReplayTypeOK
  <2> QED
    BY <1>1, <2>1
<1> QED
  BY <1>4, <1>5, <1>6, <1>7, <1>8, <1>9, <1>10, <1>11, <1>12

LEMMA DriverStepInv ==
  ASSUME ReplayInv, Driver, UNCHANGED deviated
  PROVE  ReplayInv'
<1>t. ReplayTypeOK
  BY DEF ReplayInv
<1>1. CASE StartFunction
  BY <1>1, <1>t, InitReplayerInv, InnermostFacts DEF StartFunction, Statuses
<1>2. CASE RunReplay
  BY <1>2, InitReplayerInv DEF RunReplay, Statuses
<1> QED
  BY <1>1, <1>2, WasmFuncBeginInv, WasmFuncEntryInv, ReadPostReturnInv,
     ReallocEntryInv, HostFuncReturnInv, ReadBuiltinReturnInv, DriverReadInv
     DEF Driver
----------------------------------------------------------------------------
(* The guest.                                                              *)

(* What the head of the script may hold.                                   *)
LEMMA GuestFacts ==
  ASSUME ReplayTypeOK, NEW kinds, NEW op, GuestDoes(kinds, op)
  PROVE  /\ Innermost(stack, kinds) /\ script # <<>>
         /\ Head(script).idx \in Exports \cup Imports \cup {None}
         /\ Tail(script) \in Seq(StepSet)
<1>1. Innermost(stack, kinds) /\ script # <<>>
  BY DEF GuestDoes
<1>2. Head(script) \in StepSet /\ Tail(script) \in Seq(StepSet)
  BY <1>1, PopFacts DEF ReplayTypeOK
<1> QED
  BY <1>1, <1>2 DEF StepSet

LEMMA DoesType ==
  ASSUME ReplayTypeOK, NEW v, Does(v)
  PROVE  deviated' \in BOOLEAN
BY DEF Does, ReplayTypeOK

LEMMA GuestCallInv ==
  ASSUME ReplayInv, NEW v \in Args, GuestCall(v)
  PROVE  ReplayInv'
<1> DEFINE i == Head(script).idx
           x == Frame(CallKind(i), i)
<1>t. ReplayTypeOK
  BY DEF ReplayInv
<1>1. /\ Innermost(stack, CodeKinds) /\ i \in Exports \cup Imports \cup {None}
      /\ script' \in Seq(StepSet) /\ deviated' \in BOOLEAN
  BY <1>t, GuestFacts, DoesType DEF GuestCall
<1>2. /\ backing' = v /\ stack' = Push(x, stack)
      /\ dstate' = IF Kind[i] = "host" THEN HostCall(i) ELSE BuiltinCall(i)
      /\ reallocs' = IF Kind[i] = "host" THEN Push(<<>>, reallocs) ELSE reallocs
      /\ UNCHANGED <<trace, status, initialized, postArgs>>
  BY DEF GuestCall, CalleeState
<1>3. /\ x \in FrameSet /\ x.idx = i
      /\ x.kind = IF Kind[i] = "host" THEN "host" ELSE "builtin"
  BY <1>1, FrameType DEF FrameKinds, Frame, CallKind
<1> HIDE DEF x, i
<1>4. stack # <<>> /\ stack[1].kind \in CodeKinds
  BY <1>1, <1>t, InnermostFacts
<1>5. stack' \in Seq(FrameSet) /\ stack' # <<>> /\ stack'[1] = x
  BY <1>t, <1>2, <1>3, PushedStack
<1>6. Nested(stack')
  BY <1>t, <1>2, <1>3, <1>4, NestedPush DEF ReplayInv, ReplayTypeOK, MayRest
<1>7. dstate' \in StateSet
  BY <1>1, <1>2, StateType
<1>8. Len(reallocs) = 1
  BY <1>4 DEF ReplayInv, ReallocDepth, HostLive, InHost, CodeKinds
<1>9. /\ reallocs' \in Seq(Seq(Args))
      /\ Len(reallocs') = IF Kind[i] = "host" THEN 2 ELSE 1
  <2>1. /\ reallocs \in Seq(Seq(Args)) /\ Push(<<>>, reallocs) \in Seq(Seq(Args))
        /\ Len(Push(<<>>, reallocs)) = 2
    BY <1>8, ReallocFacts
  <2>2. CASE Kind[i] = "host"
    BY <1>2, <2>1, <2>2
  <2>3. CASE Kind[i] # "host"
    BY <1>2, <1>8, <2>1, <2>3
  <2> QED
    BY <2>2, <2>3
<1>10. ReplayTypeOK'
  BY <1>t, <1>1, <1>2, <1>5, <1>7, <1>9 DEF ReplayTypeOK
<1> QED
  BY <1>2, <1>3, <1>5, <1>6, <1>9, <1>10
     DEF ReplayInv, Context, ReallocDepth, HostLive, InHost

LEMMA GuestExitInv ==
  ASSUME ReplayInv, NEW v \in Args, GuestExit(v)
  PROVE  ReplayInv'
<1>t. ReplayTypeOK
  BY DEF ReplayInv
<1>1. /\ Innermost(stack, {"core"}) /\ Tail(script) \in Seq(StepSet)
      /\ deviated' \in BOOLEAN
  BY <1>t, GuestFacts, DoesType DEF GuestExit
<1>2. /\ backing' = v /\ dstate' = Root /\ stack' = Tail(stack)
      /\ postArgs' = [postArgs EXCEPT ![Head(stack).idx] = v]
      /\ script' = Tail(script)
      /\ UNCHANGED <<trace, status, initialized, reallocs>>
  BY DEF GuestExit, ResultBuffer, StateAfterCall
<1>3. stack # <<>> /\ stack[1].kind = "core"
  BY <1>1, <1>t, InnermostFacts
<1>4. stack' = <<>> /\ stack' \in Seq(FrameSet) /\ Nested(stack')
  BY <1>t, <1>2, <1>3, PoppedStack DEF ReplayInv
<1>5. Len(reallocs) = 1
  BY <1>3 DEF ReplayInv, ReallocDepth, HostLive, InHost
<1>6. ReplayTypeOK'
  <2>1. postArgs' \in [Exports -> Args \cup {None}]
    BY <1>t, <1>2 DEF ReplayTypeOK
  <2> QED
    BY <1>t, <1>1, <1>2, <1>4, <2>1 DEF ReplayTypeOK, Root, StateSet
<1> QED
  BY <1>2, <1>4, <1>5, <1>6
     DEF ReplayInv, Context, ReallocDepth, HostLive, InHost, Root

LEMMA GuestReallocDoneInv ==
  ASSUME ReplayInv, NEW v \in Args, GuestReallocDone(v)
  PROVE  ReplayInv'
<1>t. ReplayTypeOK
  BY DEF ReplayInv
<1>1. /\ Innermost(stack, {"realloc"}) /\ Tail(script) \in Seq(StepSet)
      /\ deviated' \in BOOLEAN
  BY <1>t, GuestFacts, DoesType DEF GuestReallocDone
<1>2. /\ reallocs' = Push(Push(v, Head(reallocs)), Tail(reallocs))
      /\ stack' = Tail(stack) /\ script' = Tail(script)
      /\ UNCHANGED <<trace, status, globalVars, postArgs>>
  BY DEF GuestReallocDone, ReallocResult
<1>3. stack # <<>> /\ stack[1].kind = "realloc" /\ Len(stack) \in Nat \ {0}
  BY <1>1, <1>t, InnermostFacts, PopFacts DEF ReplayTypeOK
<1>4. /\ stack' \in Seq(FrameSet) /\ Nested(stack')
      /\ IF Len(stack) = 1 THEN stack' = <<>>
         ELSE /\ stack' # <<>> /\ stack'[1] = stack[2]
              /\ stack[2].kind \in {"host", "hdtor"}
  BY <1>t, <1>2, <1>3, PoppedStack DEF ReplayInv
<1>5. reallocs' \in Seq(Seq(Args)) /\ Len(reallocs') = Len(reallocs)
  <2>1. Push(v, Head(reallocs)) \in Seq(Args)
    BY ReallocFacts, PushFacts
  <2> QED
    BY <1>2, <2>1, ReallocFacts
<1>6. ReplayTypeOK'
  BY <1>t, <1>1, <1>2, <1>4, <1>5 DEF ReplayTypeOK, globalVars
<1>7. /\ dstate' = dstate
      /\ IF Len(stack) = 1 THEN dstate.kind = "setup" ELSE dstate = HostCall(stack[2].idx)
      /\ Len(reallocs) = IF Len(stack) = 1 THEN 1 ELSE 2
  <2>1. Context /\ ReallocDepth
    BY DEF ReplayInv
  <2>2. IF Len(stack) = 1 THEN dstate.kind = "setup" ELSE dstate = HostCall(stack[2].idx)
    BY <1>3, <2>1 DEF Context
  <2>3. Len(reallocs) = IF Len(stack) = 1 THEN 1 ELSE 2
    <3>1. CASE Len(stack) = 1
      <4>1. ~HostLive
        BY <1>3, <3>1 DEF HostLive, InHost
      <4> QED
        BY <2>1, <3>1, <4>1 DEF ReallocDepth
    <3>2. CASE Len(stack) # 1
      <4>1. Len(stack) > 1
        <5>1. \A n \in Nat \ {0} : n # 1 => n > 1
          OBVIOUS
        <5> QED
          BY <1>3, <3>2, <5>1
      <4>2. HostLive
        BY <1>3, <4>1 DEF HostLive
      <4> QED
        BY <2>1, <3>2, <4>2 DEF ReallocDepth
    <3> QED
      BY <3>1, <3>2
  <2> QED
    BY <1>2, <2>2, <2>3 DEF globalVars
<1> QED
  BY <1>4, <1>5, <1>6, <1>7
     DEF ReplayInv, Context, ReallocDepth, HostLive, InHost

LEMMA GuestLeaveInv ==
  ASSUME ReplayInv, NEW k \in {"start", "post"}, GuestLeave(k)
  PROVE  ReplayInv'
<1>t. ReplayTypeOK
  BY DEF ReplayInv
<1>1. Innermost(stack, {k}) /\ Tail(script) \in Seq(StepSet)
  BY <1>t, GuestFacts DEF GuestLeave
<1>2. /\ stack' = Tail(stack) /\ script' = Tail(script)
      /\ UNCHANGED <<trace, status, deviated, globalVars, reallocs, postArgs>>
  BY DEF GuestLeave
<1>3. stack # <<>> /\ stack[1].kind \in {"start", "post"}
  BY <1>1, <1>t, InnermostFacts
<1>4. stack' = <<>> /\ stack' \in Seq(FrameSet) /\ Nested(stack')
  BY <1>t, <1>2, <1>3, PoppedStack DEF ReplayInv
<1>5. ReplayTypeOK'
  BY <1>t, <1>1, <1>2, <1>4 DEF ReplayTypeOK, globalVars
<1> QED
  BY <1>2, <1>3, <1>4, <1>5
     DEF ReplayInv, Context, ReallocDepth, HostLive, InHost, Root, globalVars

LEMMA GuestDtorDoneInv ==
  ASSUME ReplayInv, GuestDtorDone
  PROVE  ReplayInv'
<1> DEFINE step == Step("ret", "import", Head(stack).idx, NoArgs)
<1>t. ReplayTypeOK
  BY DEF ReplayInv
<1>1. Innermost(stack, {"dtor"}) /\ Tail(script) \in Seq(StepSet)
  BY <1>t, GuestFacts DEF GuestDtorDone
<1>2. /\ Deliver(Tail(script), step) /\ stack' = Tail(stack)
      /\ UNCHANGED <<trace, deviated, globalVars, reallocs, postArgs>>
  BY DEF GuestDtorDone
<1> HIDE DEF step
<1>3. script' \in Seq(StepSet) /\ status' \in Statuses
  BY <1>t, <1>1, <1>2, DeliverType
<1>4. stack # <<>> /\ stack[1].kind = "dtor"
  BY <1>1, <1>t, InnermostFacts
<1>5. /\ stack' \in Seq(FrameSet) /\ Nested(stack')
      /\ stack' # <<>> /\ stack'[1].kind \in CodeKinds
  BY <1>t, <1>2, <1>4, PoppedStack DEF ReplayInv
<1>6. ReplayTypeOK'
  BY <1>t, <1>2, <1>3, <1>5 DEF ReplayTypeOK, globalVars
<1> QED
  BY <1>2, <1>4, <1>5, <1>6
     DEF ReplayInv, Context, ReallocDepth, HostLive, InHost, CodeKinds, globalVars

LEMMA GuestGrowInv ==
  ASSUME ReplayInv, GuestGrow
  PROVE  ReplayInv'
<1> DEFINE step == Step("grown", "none", None, Value)
<1>t. ReplayTypeOK /\ deviated' = deviated /\ trace # <<>>
  BY DEF ReplayInv, GuestGrow, Unread
<1>1. Tail(script) \in Seq(StepSet)
  BY <1>t, GuestFacts DEF GuestGrow
<1>2. CASE Panic
  BY <1>2, <1>t, PanicInv DEF ReplayTypeOK
<1>3. CASE ~Panic
  <2>1. Read /\ Deliver(Tail(script), step) /\ UNCHANGED <<globalVars, localVars>>
    BY <1>3 DEF GuestGrow, OrPanic
  <2> HIDE DEF step
  <2>2. script' \in Seq(StepSet) /\ status' \in Statuses /\ trace' \in Seq(EventSet)
    BY <1>t, <1>1, <2>1, DeliverType, ReadFacts DEF Read
  <2>3. ReplayTypeOK'
    BY <1>t, <2>1, <2>2 DEF ReplayTypeOK, globalVars, localVars
  <2> QED
    BY <2>1, <2>3, ContextKept DEF globalVars, localVars
<1> QED
  BY <1>2, <1>3

LEMMA GuestStepInv ==
  ASSUME ReplayInv, Guest
  PROVE  ReplayInv'
BY GuestCallInv, GuestExitInv, GuestReallocDoneInv, GuestLeaveInv,
   GuestDtorDoneInv, GuestGrowInv DEF Guest

----------------------------------------------------------------------------
(* The theorems.                                                           *)

LEMMA DriverInvInit == ASSUME Init PROVE DriverInv
<1>1. frames \in {<<>>, <<Frame("start", None)>>} /\ stack = frames
  BY DEF Init, ExecInit
<1>2. Frame("start", None) \in FrameSet /\ Frame("start", None).kind = "start"
  BY FrameType DEF FrameKinds, GuestKinds, Frame
<1>3. frames \in Seq(FrameSet) /\ Nested(frames)
  <2>1. <<>> \in Seq(FrameSet) /\ <<Frame("start", None)>> \in Seq(FrameSet)
    BY <1>2
  <2> QED
    BY <1>1, <1>2, <2>1, NestedSingle, NestedEmpty DEF Bottoms
<1>4. ExecTypeOK
  BY <1>3 DEF Init, ExecInit, ExecTypeOK
<1>5. trace \in Seq(EventSet) /\ script \in Seq(StepSet) /\ reallocs \in Seq(Seq(Args))
      /\ Len(reallocs) = 1
  <2>1. \A k \in {"inst", "foreign_inst"} : <<Event(k, None, None)>> \in Seq(EventSet)
    BY EventType DEF EventKinds
  <2>2. <<>> \in Seq(StepSet) /\ <<>> \in Seq(Args)
    OBVIOUS
  <2>3. <<<<>>>> \in Seq(Seq(Args)) /\ Len(<<<<>>>>) = 1
    BY <2>2
  <2> QED
    BY <2>1, <2>2, <2>3 DEF Init
<1>6. DriverTypeOK
  BY <1>1, <1>3, <1>4, <1>5, ArgsAssumption
     DEF Init, DriverTypeOK, Root, StateSet
<1>7. stack # <<>> => stack[1].kind = "start"
  BY <1>1, <1>2
<1> QED
  BY <1>1, <1>3, <1>5, <1>6, <1>7
     DEF Init, DriverInv, Context, ReallocDepth, HostLive, InHost, Root

LEMMA DriverInvStep == ASSUME DriverInv, [Next]_vars PROVE DriverInv'
<1>1. CASE Recorder /\ UNCHANGED deviated
  BY <1>1, RecorderInv
<1>2. CASE Replay
  <2>1. ReplayInv /\ UNCHANGED recorderVars
    BY <1>2, SplitInv DEF Replay
  <2>2. ReplayInv'
    BY <1>2, <2>1, DriverStepInv, GuestStepInv DEF Replay
  <2> QED
    BY <2>1, <2>2, SplitInv
<1>3. CASE UNCHANGED vars
  BY <1>3 DEF vars, recorderVars, execVars, globalVars, localVars, DriverInv,
     DriverTypeOK, ExecTypeOK, Context, ReallocDepth, HostLive, InHost
<1> QED
  BY <1>1, <1>2, <1>3 DEF Next, Ended

LEMMA DriverInvAlways == Spec => []DriverInv
<1>1. Init => DriverInv
  BY DriverInvInit
<1>2. DriverInv /\ [Next]_vars => DriverInv'
  BY DriverInvStep
<1> QED
  BY <1>1, <1>2, PTL DEF Spec

(* Whatever the trace holds and whatever the guest does, the driver never  *)
(* leaves its types: no realloc stack is missing, no index is out of range.*)
THEOREM DriverTypeCorrect == Spec => []DriverTypeOK
<1>1. DriverInv => DriverTypeOK
  BY DEF DriverInv
<1> QED
  BY <1>1, DriverInvAlways, PTL

(* STATE is the one the innermost loop of the driver needs, in every       *)
(* replay, torn traces, foreign traces and deviating guests included.      *)
THEOREM DriverContextAlways == Spec => []DriverContext
<1>1. DriverInv => DriverContext
  <2> SUFFICES ASSUME DriverInv PROVE DriverContext
    OBVIOUS
  <2>1. ReplayTypeOK /\ Context
    BY SplitInv DEF DriverInv, ReplayInv
  <2>2. InHostCall => dstate = HostCall(Head(stack).idx)
    BY <2>1, InnermostFacts DEF InHostCall, Context, InHost
  <2>3. InBuiltinCall => dstate = BuiltinCall(Head(stack).idx)
    BY <2>1, InnermostFacts DEF InBuiltinCall, Context
  <2> QED
    BY <2>1, <2>2, <2>3 DEF DriverContext, InRunReplay, Context
<1> QED
  BY <1>1, DriverInvAlways, PTL

(* What the recorder writes events for is an execution.                    *)
THEOREM RecordsExecution == Spec => ExecSpec
<1>1. Init => ExecInit
  BY DEF Init
<1>2. [Next]_vars => [ExecNext]_execVars
  BY RecorderExec DEF Next, Replay, Ended, vars, recorderVars
<1> QED
  BY <1>1, <1>2, PTL DEF Spec, ExecSpec
=============================================================================
