------------------------------- MODULE R3Shadow -------------------------------
(***************************************************************************)
(* The R3 baseline: a module instrumented with a shadow of its memory.     *)
(* The module's own writes go to both; a load that differs between the two *)
(* shows that the host wrote the memory: what differs is recorded and the  *)
(* shadow brought up to date.                                              *)
(*                                                                         *)
(* rebuilt is not in the code.  It is the memory of someone who runs the   *)
(* module without its host and performs the recorded writes where they     *)
(* were recorded: it says what the recording is worth.                     *)
(***************************************************************************)
EXTENDS Integers, Sequences

CONSTANTS
  Size,         (* addresses of a memory at its maximum                    *)
  InitSize,     (* of them, those a module begins with                     *)
  Bytes,        (* the values of a byte; Zero is one                       *)
  Zero,
  Data,         (* what the active data segments put into the memory       *)
  Segment,      (* the passive data segment                                *)
  Half,         (* the bytes that lo and hi carry each: 8                  *)
  Widths,       (* of integer accesses                                     *)
  FloatWidth,
  Zeros,        (* the contents that are a float zero, of either sign      *)
  NaNs,         (* the contents that are not a number                      *)
  Offsets       (* the constant offsets of access instructions             *)

Addresses == 0 .. Size - 1
Memories == [Addresses -> Bytes]

ASSUME SizeAssumption == Size \in Nat /\ InitSize \in 0 .. Size
ASSUME BytesAssumption == Zero \in Bytes /\ Data \in Memories /\ Segment \in Seq(Bytes)
ASSUME WidthAssumption ==
  /\ Half \in Nat \ {0}
  /\ Widths \cup {FloatWidth} \subseteq 1 .. 2 * Half
  /\ Offsets \subseteq Nat
ASSUME FloatAssumption == Zeros \cup NaNs \subseteq [1 .. FloatWidth -> Bytes]

VARIABLES
  mode,         (* core: the host finds the differences; component:        *)
                (* __r3_scan_diff does                                     *)
  real,         (* memory 0                                                *)
  shadow,       (* memory 1                                                *)
  size,         (* of memory 0 and of memory 1                             *)
  shadowSize,
  pc,           (* guest, scan (between runs of differing bytes), run (in  *)
                (* one) or trapped                                         *)
  scan,         (* the locals of the scan                                  *)
  loaded,       (* the load that was just done                             *)
  rebuilt

vars == <<mode, real, shadow, size, shadowSize, pc, scan, loaded, rebuilt>>

Halves == [0 .. Half - 1 -> Bytes]
Empty == [k \in 0 .. Half - 1 |-> Zero]
NoScan == [i |-> 0, end |-> 0, start |-> 0, lo |-> Empty, hi |-> Empty]
NoLoad == [at |-> 0, offset |-> 0, width |-> 0, kind |-> "none"]

TypeOK ==
  /\ mode \in {"core", "component"}
  /\ real \in Memories /\ shadow \in Memories /\ rebuilt \in Memories
  /\ size \in 0 .. Size /\ shadowSize \in 0 .. Size
  /\ pc \in {"guest", "scan", "run", "trapped"}
  /\ scan \in [i : 0 .. Size, end : 0 .. Size, start : 0 .. Size, lo : Halves, hi : Halves]
  /\ loaded \in [at : 0 .. Size, offset : Offsets \cup {0}, width : 0 .. 2 * Half,
                 kind : {"int", "float", "none"}]

Init ==
  /\ mode \in {"core", "component"}
  /\ real = Data
  /\ shadow = [a \in Addresses |-> Zero]
  /\ size = InitSize /\ shadowSize = InitSize
  /\ pc = "guest"
  /\ scan = NoScan
  /\ loaded = NoLoad
  /\ rebuilt = Data

----------------------------------------------------------------------------
(* n bytes from an index on, and a memory that holds such bytes.           *)
Slice(from, at, n) == [k \in 1 .. n |-> from[at + k - 1]]
Put(memory, at, data) ==
  [a \in Addresses |-> IF a - at + 1 \in DOMAIN data THEN data[a - at + 1] ELSE memory[a]]

(* A write of the guest, from and to the addresses below limit: Effect is  *)
(* what it does to a memory.  The copy of the instruction comes after it   *)
(* and traps where the shadow is shorter than the memory.                  *)
Written(Effect(_), limit) ==
  /\ pc = "guest" /\ limit <= size
  /\ real' = Effect(real)
  /\ rebuilt' = Effect(rebuilt)
  /\ IF limit <= shadowSize
     THEN shadow' = Effect(shadow) /\ UNCHANGED pc
     ELSE pc' = "trapped" /\ UNCHANGED shadow
  /\ loaded' = NoLoad
  /\ UNCHANGED <<mode, size, shadowSize, scan>>

Store(a, o, data) ==
  LET Effect(m) == Put(m, a + o, data)
  IN Written(Effect, a + o + Len(data))

MemoryFill(dst, val, n) ==
  LET Effect(m) == Put(m, dst, [k \in 1 .. n |-> val])
  IN Written(Effect, dst + n)

MemoryCopy(dst, src, n) ==
  LET Effect(m) == Put(m, dst, Slice(m, src, n))
  IN Written(Effect, (IF dst > src THEN dst ELSE src) + n)

MemoryInit(dst, off, n) ==
  LET Effect(m) == Put(m, dst, Slice(Segment, off + 1, n))
  IN Written(Effect, dst + n)

(* The shadow has the maximum of the memory it follows.                    *)
(* Fault: it has none.                                                     *)
NoMaximum(n) == {n}
Grown(n) == {n} \cap 0 .. Size

(* Either memory may fail to grow, for want of resources.                  *)
MemoryGrow(n) ==
  /\ pc = "guest"
  /\ size' \in {size} \cup ({size + n} \cap 0 .. Size)
  /\ shadowSize' \in {shadowSize} \cup Grown(shadowSize + n)
  /\ loaded' = NoLoad
  /\ UNCHANGED <<mode, real, shadow, rebuilt, pc, scan>>

(* The host writes the guest's memory: in a call of an import, or before   *)
(* a call of an export.                                                    *)
HostWrite(a, b) ==
  /\ pc = "guest" /\ a < size
  /\ real' = [real EXCEPT ![a] = b]
  /\ loaded' = NoLoad
  /\ UNCHANGED <<mode, shadow, size, shadowSize, pc, scan, rebuilt>>

----------------------------------------------------------------------------
(* The comparison of what was loaded is the one of its type: ne of floats  *)
(* takes zeros of either sign for equal and a NaN for different from       *)
(* everything.                                                             *)
(* Fault: only the first byte is compared.                                 *)
FirstNe(kind, u, v) == u[1] # v[1]
Ne(kind, u, v) ==
  IF kind = "float"
  THEN u \in NaNs \/ v \in NaNs \/ (u # v /\ ~ {u, v} \subseteq Zeros)
  ELSE u # v

(* on_mismatch is given the address operand, without the offset.           *)
ScanFrom(a, o) == a

Load(a, o, n, kind) ==
  /\ pc = "guest" /\ a + o + n <= size
  /\ loaded' = [at |-> a + o, offset |-> o, width |-> n, kind |-> kind]
  /\ IF a + o + n > shadowSize
     THEN pc' = "trapped" /\ UNCHANGED scan
     ELSE IF Ne(kind, Slice(shadow, a + o, n), Slice(real, a + o, n))
     THEN /\ pc' = "scan"
          /\ scan' = [NoScan EXCEPT !.i = ScanFrom(a, o), !.end = ScanFrom(a, o) + n]
     ELSE UNCHANGED <<pc, scan>>
  /\ UNCHANGED <<mode, real, shadow, size, shadowSize, rebuilt>>

(* The scan: two nested loops over the bytes in both modes.                *)
Differs == scan.i < scan.end /\ real[scan.i] # shadow[scan.i]

SkipByte ==
  /\ pc = "scan" /\ scan.i < scan.end /\ ~Differs
  /\ scan' = [scan EXCEPT !.i = @ + 1]
  /\ UNCHANGED <<mode, real, shadow, size, shadowSize, pc, loaded, rebuilt>>

BeginRun ==
  /\ pc = "scan" /\ Differs
  /\ pc' = "run"
  /\ scan' = [scan EXCEPT !.start = scan.i, !.lo = Empty, !.hi = Empty]
  /\ UNCHANGED <<mode, real, shadow, size, shadowSize, loaded, rebuilt>>

(* In component mode the byte is packed and the shadow set at once.        *)
(* Fault: the first half holds a byte too many.                            *)
InLowOrNext(off) == off <= Half
InLow(off) == off < Half

Pack(s, byte) ==
  LET off == s.i - s.start
  IN IF InLow(off)
     THEN [s EXCEPT !.lo[off % Half] = byte]
     ELSE [s EXCEPT !.hi[off % Half] = byte]

RunByte ==
  /\ pc = "run" /\ Differs
  /\ IF mode = "component"
     THEN /\ scan' = [Pack(scan, real[scan.i]) EXCEPT !.i = @ + 1]
          /\ shadow' = [shadow EXCEPT ![scan.i] = real[scan.i]]
     ELSE scan' = [scan EXCEPT !.i = @ + 1] /\ UNCHANGED shadow
  /\ UNCHANGED <<mode, real, size, shadowSize, pc, loaded, rebuilt>>

(* The data of the MemoryWrite event: read from the memory, or unpacked.   *)
Unpacked(s) ==
  [k \in 1 .. s.i - s.start |-> IF k <= Half THEN s.lo[k - 1] ELSE s.hi[k - 1 - Half]]
RunData == IF mode = "component" THEN Unpacked(scan)
           ELSE Slice(real, scan.start, scan.i - scan.start)

(* The event is written; in core mode the host now writes the shadow.      *)
Synced == IF mode = "component" THEN shadow ELSE Put(shadow, scan.start, RunData)

(* Fault: the run is left without going on to the scan.                    *)
InRun == "run"
AfterRun == "scan"

EndRun ==
  /\ pc = "run" /\ ~Differs
  /\ pc' = AfterRun
  /\ rebuilt' = Put(rebuilt, scan.start, RunData)
  /\ shadow' = Synced
  /\ UNCHANGED <<mode, real, size, shadowSize, scan, loaded>>

EndScan ==
  /\ pc = "scan" /\ scan.i >= scan.end
  /\ pc' = "guest"
  /\ scan' = NoScan
  /\ UNCHANGED <<mode, real, shadow, size, shadowSize, loaded, rebuilt>>

(* A step of the scan, and the program around it.                          *)
ScanStep == SkipByte \/ BeginRun \/ RunByte \/ EndRun \/ EndScan

----------------------------------------------------------------------------
Access ==
  \E a \in Addresses, o \in Offsets :
    \/ \E n \in Widths : Load(a, o, n, "int")
    \/ Load(a, o, FloatWidth, "float")
    \/ \E n \in Widths : \E data \in [1 .. n -> Bytes] : Store(a, o, data)

Bulk ==
  \E dst \in Addresses, n \in 0 .. Size :
    \/ \E val \in Bytes : MemoryFill(dst, val, n)
    \/ \E src \in Addresses : MemoryCopy(dst, src, n)
    \/ \E off \in 0 .. Len(Segment) - n : MemoryInit(dst, off, n)

Guest == Access \/ Bulk \/ \E n \in 0 .. Size : MemoryGrow(n)

Host == \E a \in Addresses, b \in Bytes : HostWrite(a, b)

Trapped == pc = "trapped" /\ UNCHANGED vars

Next == Guest \/ Host \/ ScanStep \/ Trapped

(* The scan is a loop of one thread that waits for nothing.                *)
Spec == Init /\ [][Next]_vars /\ WF_vars(ScanStep)

----------------------------------------------------------------------------
(* Properties.                                                             *)

(* The shadow is not given the data segments: where it still has a zero,   *)
(* the memory may have got a byte of them.                                 *)
Unshadowed(a) ==
  shadow[a] = Zero /\ rebuilt[a] \in {Data[b] : b \in Addresses} \ {Zero}

(* What was recorded is what the shadow was told: whatever the runs and    *)
(* however they are packed, the recorded writes and the guest's own give   *)
(* the shadow, byte for byte, but for bytes of the data segments, where    *)
(* they were put or where the guest copied them.                           *)
LogExact ==
  pc = "guest" => \A a \in Addresses : rebuilt[a] = shadow[a] \/ Unshadowed(a)

(* The bytes of the load, and those that its scan looks at: the constant   *)
(* offset is lost on the way.                                              *)
Read == loaded.at .. loaded.at + loaded.width - 1
Scanned == {a \in Addresses : a + loaded.offset \in Read}
Unseen(a) == a \notin Scanned /\ real[a] # shadow[a]

(* Every load is explained by the recording: at that point, the recorded   *)
(* writes and the guest's own give each byte that the guest loaded,        *)
(* whatever the host wrote and wherever the guest copied it before it was  *)
(* loaded.  The exceptions are a difference that the scan does not look    *)
(* at, a zero written over a byte of the data segments, and the sign of a  *)
(* float zero.                                                             *)
LoadsExplained ==
  pc = "guest" /\ loaded # NoLoad =>
    \/ \A a \in Read :
         rebuilt[a] = real[a] \/ Unseen(a) \/ (Unshadowed(a) /\ real[a] = Zero)
    \/ /\ loaded.kind = "float"
       /\ Slice(shadow, loaded.at, loaded.width) \in Zeros
       /\ Slice(real, loaded.at, loaded.width) \in Zeros

(* The same with no exception but the sign of a float zero, which is what  *)
(* the baseline is meant to record.                                        *)
Alike(kind, u, v) == u = v \/ (kind = "float" /\ {u, v} \subseteq Zeros)
LoadsRecorded ==
  pc = "guest" /\ loaded # NoLoad =>
    Alike(loaded.kind, Slice(rebuilt, loaded.at, loaded.width),
                       Slice(real, loaded.at, loaded.width))

(* No load hangs in the scan.                                              *)
ScanEnds == pc = "scan" ~> pc = "guest"
=============================================================================
