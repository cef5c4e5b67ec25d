-------------------------- MODULE ArgsBufferProofs --------------------------
(***************************************************************************)
(* Proofs about the argument buffer, for all signatures of imports and     *)
(* exports the component model allows and any decoder of events.           *)
(***************************************************************************)
EXTENDS ArgsBuffer, Integers, TLAPS

(* The buffer init_replayer made is never grown: it is large enough.       *)
Untouched == ~moved => bytes.cap = MAX_ARGS_BYTES /\ sizes.cap = MAX_ARGS_COUNT

BufferInv == TypeOK /\ Untouched /\ FitsUntilReturn /\ OverrunBounded

(* What expand makes of any Vec and any length.                            *)
LEMMA ExpandFacts ==
  ASSUME NEW vec \in Vecs, NEW n \in Nat
  PROVE  /\ expand(vec, n) \in Vecs
         /\ expand(vec, n).len = n
         /\ n <= 2 * expand(vec, n).cap
         /\ n <= vec.cap => expand(vec, n).cap = vec.cap
<1>1. vec.cap \in Nat
  BY DEF Vecs
<1> DEFINE grown == IF vec.cap < n THEN Reserve(vec.cap, n - vec.cap) ELSE vec.cap
<1>2. /\ grown \in Nat /\ n <= 2 * grown
      /\ n <= vec.cap => grown = vec.cap
  BY <1>1 DEF Reserve, Larger
<1>3. expand(vec, n) = [len |-> n, cap |-> grown]
  BY DEF expand, Vec
<1> HIDE DEF grown
<1> QED
  BY <1>2, <1>3 DEF Vecs

LEMMA ListFacts ==
  ASSUME NEW list \in Lists
  PROVE  /\ list.bytes \in Nat /\ list.bytes <= MAX_ARGS_BYTES
         /\ list.count \in Nat /\ list.count <= MAX_ARGS_COUNT
BY DEF Lists, FlatValues, ValueBytes, MAX_ARGS_BYTES, MAX_ARGS_COUNT

LEMMA AllocateInv ==
  ASSUME BufferInv, NEW list \in Lists, Allocate(list),
         running' \in {"guest", "run_replay", "host_call", "builtin_call"},
         UNCHANGED moved
  PROVE  BufferInv'
<1>1. bytes \in Vecs /\ sizes \in Vecs /\ moved \in BOOLEAN
  BY DEF BufferInv, TypeOK
<1>2. /\ list.bytes \in Nat /\ list.bytes <= MAX_ARGS_BYTES
      /\ list.count \in Nat /\ list.count <= MAX_ARGS_COUNT
  BY ListFacts
<1>3. bytes' = expand(bytes, list.bytes) /\ sizes' = expand(sizes, list.count)
  BY DEF Allocate
<1>4. /\ bytes' \in Vecs /\ bytes'.len = list.bytes
      /\ list.bytes <= 2 * bytes'.cap
      /\ list.bytes <= bytes.cap => bytes'.cap = bytes.cap
  BY <1>1, <1>2, <1>3, ExpandFacts
<1>5. /\ sizes' \in Vecs /\ sizes'.len = list.count
      /\ list.count <= 2 * sizes'.cap
      /\ list.count <= sizes.cap => sizes'.cap = sizes.cap
  BY <1>1, <1>2, <1>3, ExpandFacts
<1>6. ~moved => bytes'.cap = MAX_ARGS_BYTES /\ sizes'.cap = MAX_ARGS_COUNT
  BY <1>2, <1>4, <1>5 DEF BufferInv, Untouched
<1> QED
  BY <1>1, <1>2, <1>4, <1>5, <1>6
     DEF BufferInv, TypeOK, Untouched, FitsUntilReturn, OverrunBounded, Fits

LEMMA MoveInv ==
  ASSUME NEW list \in Lists, NEW spare \in Nat, Move(list, spare),
         running' \in {"guest", "run_replay", "host_call", "builtin_call"}
  PROVE  BufferInv'
<1>1. list.bytes \in Nat /\ list.count \in Nat
  BY ListFacts
<1>2. /\ bytes' = [len |-> list.bytes, cap |-> list.bytes + spare]
      /\ sizes' = [len |-> list.count, cap |-> list.count + spare]
      /\ moved' = TRUE
  BY DEF Move, Decoded, Vec
<1>3. bytes' \in Vecs /\ sizes' \in Vecs
  BY <1>1, <1>2 DEF Vecs
<1> QED
  BY <1>1, <1>2, <1>3
     DEF BufferInv, TypeOK, Untouched, FitsUntilReturn, OverrunBounded

LEMMA BufferInvAlways == Spec => []BufferInv
<1>l. Params \subseteq Lists /\ Results \subseteq Lists /\ Slack \subseteq Nat
  BY ListsAssumption, SlackAssumption
<1>1. Init => BufferInv
  <2> SUFFICES ASSUME Init PROVE BufferInv
    OBVIOUS
  <2>1. /\ bytes = [len |-> 0, cap |-> 512] /\ sizes = [len |-> 0, cap |-> 32]
        /\ running = "run_replay" /\ moved = FALSE
    BY DEF Init, Vec, MAX_ARGS_BYTES, MAX_ARGS_COUNT
  <2>2. bytes \in Vecs /\ sizes \in Vecs
    BY <2>1 DEF Vecs
  <2>3. bytes.len = 0 /\ bytes.cap = 512 /\ sizes.len = 0 /\ sizes.cap = 32
    BY <2>1
  <2>4. TypeOK
    BY <2>1, <2>2 DEF TypeOK
  <2>5. Untouched /\ FitsUntilReturn /\ OverrunBounded
    BY <2>3 DEF Untouched, FitsUntilReturn, OverrunBounded, Fits,
       MAX_ARGS_BYTES, MAX_ARGS_COUNT
  <2> QED
    BY <2>4, <2>5 DEF BufferInv
<1>2. BufferInv /\ [Next]_vars => BufferInv'
  <2> SUFFICES ASSUME BufferInv, [Next]_vars PROVE BufferInv'
    OBVIOUS
  <2>1. CASE EnterExport
    BY <2>1 DEF EnterExport, BufferInv, TypeOK, Untouched, FitsUntilReturn,
       OverrunBounded, Fits
  <2>2. ASSUME NEW list \in Params, CallImport(list) PROVE BufferInv'
    BY <1>l, <2>2, AllocateInv DEF CallImport
  <2>3. ASSUME NEW list \in Results, NEW spare \in Slack, HostReturn(list, spare)
        PROVE  BufferInv'
    BY <1>l, <2>3, MoveInv DEF HostReturn
  <2>4. CASE CallBuiltin
    <3>1. [bytes |-> 4, count |-> 1] \in Lists
      BY DEF Lists, FlatValues, ValueBytes
    <3> QED
      BY <2>4, <3>1, AllocateInv DEF CallBuiltin
  <2>5. ASSUME NEW n \in {4, 5}, BuiltinReturn(n) PROVE BufferInv'
    <3>1. [bytes |-> n, count |-> 1] \in Lists
      BY DEF Lists, FlatValues, ValueBytes
    <3> QED
      BY <2>5, <3>1, MoveInv DEF BuiltinReturn
  <2>6. ASSUME NEW list \in Results, ExportReturn(list) PROVE BufferInv'
    <3>1. CASE list.count = 0
      <4>1. bytes' = [len |-> 0, cap |-> bytes.cap] /\ sizes' = [len |-> 0, cap |-> sizes.cap]
            /\ moved' = moved /\ running' = "run_replay"
        BY <2>6, <3>1 DEF ExportReturn, Vec
      <4>2. bytes.cap \in Nat /\ sizes.cap \in Nat /\ moved \in BOOLEAN
        BY DEF BufferInv, TypeOK, Vecs
      <4> QED
        BY <4>1, <4>2 DEF BufferInv, TypeOK, Untouched, FitsUntilReturn,
           OverrunBounded, Fits, Vecs
    <3>2. CASE list.count # 0
      BY <1>l, <2>6, <3>2, AllocateInv DEF ExportReturn
    <3> QED
      BY <3>1, <3>2
  <2>7. CASE UNCHANGED vars
    BY <2>7 DEF vars, BufferInv, TypeOK, Untouched, FitsUntilReturn,
       OverrunBounded, Fits
  <2> QED
    BY <2>1, <2>2, <2>3, <2>4, <2>5, <2>6, <2>7 DEF Next
<1> QED
  BY <1>1, <1>2, PTL DEF Spec

(* The buffer that init_replayer makes suffices for every signature, until *)
(* a return replaces it by a smaller one.                                  *)
THEOREM InitialBufferFits == Spec => []FitsUntilReturn
<1>1. BufferInv => FitsUntilReturn
  BY DEF BufferInv
<1> QED
  BY <1>1, BufferInvAlways, PTL

(* allocate_args_results_buffer never falls short by more than it has.     *)
THEOREM OverrunBoundedAlways == Spec => []OverrunBounded
<1>1. BufferInv => OverrunBounded
  BY DEF BufferInv
<1> QED
  BY <1>1, BufferInvAlways, PTL

(* The Vecs and the flag of the argument buffer keep their types.          *)
THEOREM BufferTypeCorrect == Spec => []TypeOK
<1>1. BufferInv => TypeOK
  BY DEF BufferInv
<1> QED
  BY <1>1, BufferInvAlways, PTL
=============================================================================
