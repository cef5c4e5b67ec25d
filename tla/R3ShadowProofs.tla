---------------------------- MODULE R3ShadowProofs ----------------------------
(***************************************************************************)
(* What R3's recording is worth, for any data segments, offsets and sizes: *)
(* what was recorded and what the shadow was told is the same but for      *)
(* bytes of the data segments, and when a load is over the shadow has the  *)
(* bytes of the load that the scan looked at.                              *)
(***************************************************************************)
EXTENDS R3Shadow, TLAPS

(* The scan stays within the memory and its runs fit lo and hi.            *)
Window ==
  /\ pc = "scan" => scan.i <= scan.end /\ scan.end - scan.i <= 2 * Half
  /\ pc = "run" => /\ scan.start <= scan.i /\ scan.i <= scan.end
                   /\ scan.end - scan.start <= 2 * Half

(* The addresses of the current run that the scan has passed.              *)
Passed == {a \in Addresses : scan.start <= a /\ a < scan.i}

(* u is v, or a byte of the data segments where the shadow has v, a zero.  *)
Fits(u, v) == u = v \/ (v = Zero /\ u \in {Data[b] : b \in Addresses} \ {Zero})

(* What the shadow was told and what was recorded differ, but for the data *)
(* segments, at most in a run that is not recorded yet, and that one is    *)
(* packed correctly.                                                       *)
Agree ==
  /\ pc \in {"guest", "scan"} => \A a \in Addresses : Fits(rebuilt[a], shadow[a])
  /\ pc = "run" /\ mode = "core" => \A a \in Addresses : Fits(rebuilt[a], shadow[a])
  /\ pc = "run" /\ mode = "component" =>
       /\ \A a \in Passed : shadow[a] = real[a]
       /\ \A a \in Addresses \ Passed : Fits(rebuilt[a], shadow[a])
       /\ \A k \in 0 .. scan.i - scan.start - 1 :
            /\ k < Half => scan.lo[k] = real[scan.start + k]
            /\ k >= Half => scan.hi[k - Half] = real[scan.start + k]

LogInv == TypeOK /\ Window /\ Agree

(* Lemma: what the operators on memories return.                           *)
LEMMA PutType ==
  ASSUME NEW m \in Memories, NEW at \in Int, NEW n \in Int, NEW data \in [1 .. n -> Bytes]
  PROVE  Put(m, at, data) \in Memories
BY BytesAssumption DEF Put, Memories

LEMMA SliceType ==
  ASSUME NEW m \in Memories, NEW at \in Nat, NEW n \in Int, at + n <= Size
  PROVE  Slice(m, at, n) \in [1 .. n -> Bytes]
BY SizeAssumption DEF Slice, Memories, Addresses

LEMMA SegmentType ==
  ASSUME NEW off \in Nat, NEW n \in Nat, off + n <= Len(Segment)
  PROVE  Slice(Segment, off + 1, n) \in [1 .. n -> Bytes]
BY BytesAssumption DEF Slice

(* Lemma: where a byte of a run is packed.                                 *)
LEMMA PackSlot ==
  ASSUME NEW off \in 0 .. 2 * Half - 1
  PROVE  /\ off < Half => off % Half = off
         /\ off >= Half => off % Half = off - Half
BY WidthAssumption, SMTT(60)

LEMMA InitInv == ASSUME Init PROVE LogInv
<1>1. Empty \in Halves
  BY BytesAssumption DEF Empty, Halves
<1>2. TypeOK
  <2>1. loaded \in [at : 0 .. Size, offset : Offsets \cup {0}, width : 0 .. 2 * Half,
                    kind : {"int", "float", "none"}]
    BY SizeAssumption, WidthAssumption DEF Init, NoLoad
  <2> QED
    BY <1>1, <2>1, SizeAssumption, BytesAssumption
    DEF Init, TypeOK, NoScan, Memories, Addresses
<1>3. \A a \in Addresses : Fits(rebuilt[a], shadow[a])
  BY DEF Init, Fits
<1> QED
  BY <1>2, <1>3 DEF LogInv, Init, Window, Agree

(* Lemma: what fits before is put fits after.                              *)
LEMMA PutFits ==
  ASSUME NEW m, NEW w, NEW at \in Int, NEW n \in Int,
         NEW ofM \in [1 .. n -> Bytes], NEW ofW \in [1 .. n -> Bytes],
         \A k \in 1 .. n : Fits(ofM[k], ofW[k]),
         NEW a \in Addresses, Fits(m[a], w[a])
  PROVE  Fits(Put(m, at, ofM)[a], Put(w, at, ofW)[a])
<1>1. DOMAIN ofM = 1 .. n /\ DOMAIN ofW = 1 .. n
  OBVIOUS
<1>2. CASE a - at + 1 \in 1 .. n
  BY <1>1, <1>2 DEF Put
<1>3. CASE a - at + 1 \notin 1 .. n
  BY <1>1, <1>3 DEF Put
<1> QED
  BY <1>2, <1>3

LEMMA SameFits == \A u : Fits(u, u)
BY DEF Fits

(* Lemma: a write of the guest, whatever instruction it is.                *)
LEMMA WriteInv ==
  ASSUME LogInv, pc = "guest",
         NEW at \in Int, NEW n \in Int,
         NEW ofReal \in [1 .. n -> Bytes], NEW ofShadow \in [1 .. n -> Bytes],
         NEW ofRebuilt \in [1 .. n -> Bytes],
         \A k \in 1 .. n : Fits(ofRebuilt[k], ofShadow[k]),
         real' = Put(real, at, ofReal),
         rebuilt' = Put(rebuilt, at, ofRebuilt),
         \/ shadow' = Put(shadow, at, ofShadow) /\ UNCHANGED pc
         \/ pc' = "trapped" /\ UNCHANGED shadow,
         loaded' = NoLoad,
         UNCHANGED <<mode, size, shadowSize, scan>>
  PROVE  LogInv'
<1>1. TypeOK'
  <2>1. loaded' \in [at : 0 .. Size, offset : Offsets \cup {0}, width : 0 .. 2 * Half,
                     kind : {"int", "float", "none"}]
    BY SizeAssumption, WidthAssumption DEF NoLoad
  <2> QED
    BY <2>1, PutType DEF LogInv, TypeOK
<1>2. CASE shadow' = Put(shadow, at, ofShadow) /\ UNCHANGED pc
  <2>1. \A a \in Addresses : Fits(rebuilt'[a], shadow'[a])
    BY <1>2, PutFits DEF LogInv, Agree
  <2> QED
    BY <1>1, <1>2, <2>1 DEF LogInv, Window, Agree
<1>3. CASE pc' = "trapped"
  BY <1>1, <1>3 DEF LogInv, Window, Agree
<1> QED
  BY <1>2, <1>3

LEMMA StoreInv ==
  ASSUME LogInv, NEW a \in Addresses, NEW o \in Offsets, NEW n \in Widths,
         NEW data \in [1 .. n -> Bytes], Store(a, o, data)
  PROVE  LogInv'
<1>1. a + o \in Int /\ n \in Int
  BY WidthAssumption DEF Addresses
<1>2. /\ pc = "guest"
      /\ real' = Put(real, a + o, data)
      /\ rebuilt' = Put(rebuilt, a + o, data)
      /\ \/ shadow' = Put(shadow, a + o, data) /\ UNCHANGED pc
         \/ pc' = "trapped" /\ UNCHANGED shadow
      /\ loaded' = NoLoad
      /\ UNCHANGED <<mode, size, shadowSize, scan>>
  BY DEF Store, Written
<1> QED
  BY <1>1, <1>2, SameFits, WriteInv

LEMMA FillInv ==
  ASSUME LogInv, NEW dst \in Addresses, NEW n \in 0 .. Size, NEW val \in Bytes,
         MemoryFill(dst, val, n)
  PROVE  LogInv'
<1> DEFINE data == [k \in 1 .. n |-> val]
<1>1. dst \in Int /\ n \in Int /\ data \in [1 .. n -> Bytes]
  BY SizeAssumption DEF Addresses
<1>2. /\ pc = "guest"
      /\ real' = Put(real, dst, data)
      /\ rebuilt' = Put(rebuilt, dst, data)
      /\ \/ shadow' = Put(shadow, dst, data) /\ UNCHANGED pc
         \/ pc' = "trapped" /\ UNCHANGED shadow
      /\ loaded' = NoLoad
      /\ UNCHANGED <<mode, size, shadowSize, scan>>
  BY DEF MemoryFill, Written
<1> HIDE DEF data
<1> QED
  BY <1>1, <1>2, SameFits, WriteInv

LEMMA CopyInv ==
  ASSUME LogInv, NEW dst \in Addresses, NEW n \in 0 .. Size, NEW src \in Addresses,
         MemoryCopy(dst, src, n)
  PROVE  LogInv'
<1>1. /\ dst \in Int /\ src \in Nat /\ n \in Int
      /\ src + n <= Size
  <2>1. (IF dst > src THEN dst ELSE src) + n <= size
    BY DEF MemoryCopy, Written
  <2> QED
    BY <2>1, SizeAssumption DEF LogInv, TypeOK, Addresses
<1>2. /\ pc = "guest"
      /\ real' = Put(real, dst, Slice(real, src, n))
      /\ rebuilt' = Put(rebuilt, dst, Slice(rebuilt, src, n))
      /\ \/ shadow' = Put(shadow, dst, Slice(shadow, src, n)) /\ UNCHANGED pc
         \/ pc' = "trapped" /\ UNCHANGED shadow
      /\ loaded' = NoLoad
      /\ UNCHANGED <<mode, size, shadowSize, scan>>
  BY DEF MemoryCopy, Written
<1>3. \A k \in 1 .. n : Fits(Slice(rebuilt, src, n)[k], Slice(shadow, src, n)[k])
  <2> SUFFICES ASSUME NEW k \in 1 .. n
               PROVE  Fits(rebuilt[src + k - 1], shadow[src + k - 1])
    BY DEF Slice
  <2>1. src + k - 1 \in Addresses
    BY <1>1, SizeAssumption DEF Addresses
  <2> QED
    BY <1>2, <2>1 DEF LogInv, Agree
<1>4. /\ Slice(real, src, n) \in [1 .. n -> Bytes]
      /\ Slice(shadow, src, n) \in [1 .. n -> Bytes]
      /\ Slice(rebuilt, src, n) \in [1 .. n -> Bytes]
  BY <1>1, SliceType DEF LogInv, TypeOK
<1> QED
  BY <1>1, <1>2, <1>3, <1>4, WriteInv

LEMMA MemInitInv ==
  ASSUME LogInv, NEW dst \in Addresses, NEW n \in 0 .. Size, NEW off \in 0 .. Len(Segment) - n,
         MemoryInit(dst, off, n)
  PROVE  LogInv'
<1> DEFINE data == Slice(Segment, off + 1, n)
<1>1. dst \in Int /\ n \in Int /\ data \in [1 .. n -> Bytes]
  <2>1. Len(Segment) \in Nat
    BY BytesAssumption
  <2>2. off \in Nat /\ n \in Nat /\ off + n <= Len(Segment)
    BY <2>1, SizeAssumption
  <2> QED
    BY <2>2, SegmentType DEF Addresses
<1>2. /\ pc = "guest"
      /\ real' = Put(real, dst, data)
      /\ rebuilt' = Put(rebuilt, dst, data)
      /\ \/ shadow' = Put(shadow, dst, data) /\ UNCHANGED pc
         \/ pc' = "trapped" /\ UNCHANGED shadow
      /\ loaded' = NoLoad
      /\ UNCHANGED <<mode, size, shadowSize, scan>>
  BY DEF MemoryInit, Written
<1> HIDE DEF data
<1> QED
  BY <1>1, <1>2, SameFits, WriteInv

LEMMA GrowInv ==
  ASSUME LogInv, NEW n \in 0 .. Size, MemoryGrow(n)
  PROVE  LogInv'
<1>1. TypeOK'
  BY WidthAssumption, SizeAssumption DEF LogInv, TypeOK, MemoryGrow, Grown, NoLoad
<1> QED
  BY <1>1 DEF LogInv, Window, Agree, MemoryGrow

LEMMA HostInv ==
  ASSUME LogInv, NEW a \in Addresses, NEW b \in Bytes, HostWrite(a, b)
  PROVE  LogInv'
<1>1. TypeOK'
  BY WidthAssumption, SizeAssumption DEF LogInv, TypeOK, HostWrite, NoLoad, Memories
<1> QED
  BY <1>1 DEF LogInv, Window, Agree, HostWrite

LEMMA LoadInv ==
  ASSUME LogInv, NEW a \in Addresses, NEW o \in Offsets, NEW n \in Widths \cup {FloatWidth},
         NEW kind \in {"int", "float"}, Load(a, o, n, kind)
  PROVE  LogInv'
<1>1. /\ a \in Nat /\ o \in Nat /\ n \in 1 .. 2 * Half /\ Half \in Nat
      /\ a + o + n <= size /\ size \in 0 .. Size /\ Size \in Nat
  BY WidthAssumption, SizeAssumption DEF LogInv, TypeOK, Load, Addresses
<1>2. /\ a + o \in 0 .. Size /\ a + n \in 0 .. Size /\ a \in 0 .. Size
      /\ n \in 0 .. 2 * Half
      /\ a <= a + n /\ a + n - a <= 2 * Half
  BY <1>1
<1>3. Empty \in Halves
  BY BytesAssumption DEF Empty, Halves
<1>4. CASE UNCHANGED scan /\ pc' # "scan"
  BY <1>2, <1>4 DEF LogInv, TypeOK, Load, Window, Agree
<1>5. CASE pc' = "scan"
  <2>1. scan' = [NoScan EXCEPT !.i = a, !.end = a + n]
    BY <1>5 DEF Load, ScanFrom
  <2>2. scan' = [i |-> a, end |-> a + n, start |-> 0, lo |-> Empty, hi |-> Empty]
    BY <2>1 DEF NoScan
  <2>3. TypeOK'
    BY <1>1, <1>2, <1>3, <1>5, <2>2 DEF LogInv, TypeOK, Load
  <2> QED
    BY <1>2, <1>5, <2>2, <2>3 DEF LogInv, Load, Window, Agree
<1> QED
  BY <1>4, <1>5 DEF Load

LEMMA SkipInv == ASSUME LogInv, SkipByte PROVE LogInv'
<1>1. /\ scan' = [scan EXCEPT !.i = @ + 1]
      /\ scan.i \in Nat /\ scan.end \in 0 .. Size /\ scan.i < scan.end
      /\ Half \in Nat /\ Size \in Nat
  BY WidthAssumption, SizeAssumption DEF LogInv, TypeOK, SkipByte
<1>2. TypeOK'
  BY <1>1 DEF LogInv, TypeOK, SkipByte
<1>3. scan'.i = scan.i + 1 /\ scan'.end = scan.end /\ scan'.start = scan.start
  BY <1>1 DEF LogInv, TypeOK
<1> QED
  BY <1>1, <1>2, <1>3 DEF LogInv, SkipByte, Window, Agree

LEMMA BeginInv == ASSUME LogInv, BeginRun PROVE LogInv'
<1>1. Empty \in Halves
  BY BytesAssumption DEF Empty, Halves
<1>2. /\ scan' = [scan EXCEPT !.start = scan.i, !.lo = Empty, !.hi = Empty]
      /\ scan.i \in 0 .. Size /\ scan.end \in 0 .. Size /\ scan.i < scan.end
      /\ pc = "scan" /\ pc' = "run"
  BY DEF LogInv, TypeOK, BeginRun, Differs
<1>3. TypeOK'
  BY <1>1, <1>2 DEF LogInv, TypeOK, BeginRun
<1>4. scan'.start = scan.i /\ scan'.i = scan.i /\ scan'.end = scan.end
  BY <1>2 DEF LogInv, TypeOK
<1>5. Window'
  BY <1>2, <1>4 DEF LogInv, Window
<1>6. Passed' = {}
  BY <1>2, <1>4, SizeAssumption DEF Passed, Addresses
<1>7. \A k \in 0 .. scan'.i - scan'.start - 1 : FALSE
  BY <1>2, <1>4, SizeAssumption
<1>8. /\ rebuilt' = rebuilt /\ shadow' = shadow
      /\ \A a \in Addresses : Fits(rebuilt[a], shadow[a])
  BY <1>2 DEF LogInv, Agree, BeginRun
<1>9. Agree'
  BY <1>2, <1>6, <1>7, <1>8 DEF Agree
<1> QED
  BY <1>3, <1>5, <1>9 DEF LogInv

LEMMA RunCoreInv == ASSUME LogInv, RunByte, mode = "core" PROVE LogInv'
<1>1. /\ scan' = [scan EXCEPT !.i = @ + 1]
      /\ scan.i \in Nat /\ scan.end \in 0 .. Size /\ scan.i < scan.end
      /\ scan.start \in Nat /\ Half \in Nat /\ Size \in Nat
  BY WidthAssumption, SizeAssumption DEF LogInv, TypeOK, RunByte, Differs
<1>2. TypeOK'
  BY <1>1 DEF LogInv, TypeOK, RunByte
<1>3. scan'.i = scan.i + 1 /\ scan'.end = scan.end /\ scan'.start = scan.start
  BY <1>1 DEF LogInv, TypeOK
<1> QED
  BY <1>1, <1>2, <1>3 DEF LogInv, RunByte, Window, Agree

(* The scan s has packed the bytes of its run.                             *)
Packed(s) == \A k \in 0 .. s.i - s.start - 1 :
  /\ k < Half => s.lo[k] = real[s.start + k]
  /\ k >= Half => s.hi[k - Half] = real[s.start + k]

Scans == [i : 0 .. Size, end : 0 .. Size, start : 0 .. Size, lo : Halves, hi : Halves]

(* Lemma: one slot of a half is set.                                       *)
LEMMA SetSlot ==
  ASSUME NEW half \in Halves, NEW slot \in 0 .. Half - 1, NEW byte \in Bytes
  PROVE  /\ [half EXCEPT ![slot] = byte] \in Halves
         /\ [half EXCEPT ![slot] = byte][slot] = byte
         /\ \A k \in 0 .. Half - 1 : k # slot => [half EXCEPT ![slot] = byte][k] = half[k]
BY DEF Halves

(* Lemma: one more byte packed.                                            *)
LEMMA PackByte ==
  ASSUME NEW s \in Scans, NEW t, real[s.i] \in Bytes,
         s.start <= s.i, s.i < s.end, s.end - s.start <= 2 * Half,
         t = [Pack(s, real[s.i]) EXCEPT !.i = @ + 1],
         Packed(s)
  PROVE  /\ t \in Scans /\ Packed(t)
         /\ t.i = s.i + 1 /\ t.end = s.end /\ t.start = s.start
<1> DEFINE off == s.i - s.start
           byte == real[s.i]
<1>1. /\ s.i \in Nat /\ s.end \in 0 .. Size /\ s.start \in 0 .. Size
      /\ Half \in Nat \ {0} /\ Size \in Nat
      /\ s.lo \in Halves /\ s.hi \in Halves
  BY WidthAssumption, SizeAssumption DEF Scans
<1>2. /\ off \in 0 .. 2 * Half - 1 /\ byte \in Bytes
      /\ off = s.i - s.start /\ s.start + off = s.i /\ byte = real[s.i]
  BY <1>1
<1>0. t = [Pack(s, byte) EXCEPT !.i = @ + 1] /\ Pack(s, byte) = Pack(s, real[s.i])
  OBVIOUS
<1>5. Pack(s, byte) = IF InLow(off)
                      THEN [s EXCEPT !.lo[off % Half] = byte]
                      ELSE [s EXCEPT !.hi[off % Half] = byte]
  BY DEF Pack
<1> HIDE DEF off, byte
<1>3. CASE off < Half
  <2>1. off % Half = off /\ off \in 0 .. Half - 1
    BY <1>1, <1>2, <1>3, PackSlot
  <2>2. Pack(s, byte) = [s EXCEPT !.lo[off] = byte]
    BY <1>3, <1>5, <2>1 DEF InLow
  <2> DEFINE new == [s.lo EXCEPT ![off] = byte]
  <2>3. t = [i |-> s.i + 1, end |-> s.end, start |-> s.start,
             lo |-> new, hi |-> s.hi]
    <3>1. Pack(s, byte) = [i |-> s.i, end |-> s.end, start |-> s.start,
                           lo |-> new, hi |-> s.hi]
      BY <2>2 DEF Scans
    <3> HIDE DEF new
    <3> QED
      BY <1>0, <3>1
  <2>6. /\ new \in Halves /\ new[off] = byte
        /\ \A k \in 0 .. Half - 1 : k # off => new[k] = s.lo[k]
    BY <1>1, <1>2, <2>1, SetSlot
  <2> HIDE DEF new
  <2>4. t \in Scans
    BY <1>1, <1>2, <2>3, <2>6 DEF Scans
  <2>5. ASSUME NEW k \in 0 .. t.i - t.start - 1
        PROVE  k < Half /\ t.lo[k] = real[s.start + k]
    <3>1. k \in 0 .. off /\ k < Half /\ k \in 0 .. Half - 1
      BY <1>1, <1>2, <1>3, <2>3
    <3>2. CASE k = off
      BY <1>2, <2>3, <2>6, <3>1, <3>2
    <3>3. CASE k # off
      <4>1. k \in 0 .. s.i - s.start - 1
        BY <1>1, <1>2, <3>1, <3>3
      <4>2. s.lo[k] = real[s.start + k]
        BY <3>1, <4>1 DEF Packed
      <4> QED
        BY <2>3, <2>6, <3>1, <3>3, <4>2
    <3> QED
      BY <3>1, <3>2, <3>3
  <2> QED
    BY <1>1, <2>3, <2>4, <2>5 DEF Packed
<1>4. CASE off >= Half
  <2> DEFINE slot == off - Half
  <2>1. off % Half = slot /\ slot \in 0 .. Half - 1 /\ slot = off - Half
    BY <1>1, <1>2, <1>4, PackSlot
  <2> HIDE DEF slot
  <2>2. Pack(s, byte) = [s EXCEPT !.hi[slot] = byte]
    <3>1. ~InLow(off)
      BY <1>1, <1>2, <1>4 DEF InLow
    <3> QED
      BY <1>5, <2>1, <3>1
  <2> DEFINE new == [s.hi EXCEPT ![slot] = byte]
  <2>3. t = [i |-> s.i + 1, end |-> s.end, start |-> s.start,
             lo |-> s.lo, hi |-> new]
    <3>1. Pack(s, byte) = [i |-> s.i, end |-> s.end, start |-> s.start,
                           lo |-> s.lo, hi |-> new]
      BY <2>2 DEF Scans
    <3> HIDE DEF new
    <3> QED
      BY <1>0, <3>1
  <2>6. /\ new \in Halves /\ new[slot] = byte
        /\ \A k \in 0 .. Half - 1 : k # slot => new[k] = s.hi[k]
    BY <1>1, <1>2, <2>1, SetSlot
  <2> HIDE DEF new
  <2>4. t \in Scans
    BY <1>1, <1>2, <2>3, <2>6 DEF Scans
  <2>5. ASSUME NEW k \in 0 .. t.i - t.start - 1
        PROVE  /\ k < Half => t.lo[k] = real[s.start + k]
               /\ k >= Half => t.hi[k - Half] = real[s.start + k]
    <3>1. k \in 0 .. off
      BY <1>1, <1>2, <2>3
    <3>2. CASE k = off
      <4>1. ~(k < Half) /\ s.start + k = s.i
        BY <1>1, <1>2, <1>4, <3>2
      <4>2. t.hi[k - Half] = byte
        BY <2>1, <2>3, <2>6, <3>2
      <4> QED
        BY <1>2, <4>1, <4>2
    <3>3. CASE k # off
      <4>1. k \in 0 .. s.i - s.start - 1 /\ k < 2 * Half
        BY <1>1, <1>2, <3>1, <3>3
      <4>2. /\ k < Half => s.lo[k] = real[s.start + k]
            /\ k >= Half => s.hi[k - Half] = real[s.start + k]
        BY <4>1 DEF Packed
      <4>3. k >= Half => k - Half \in 0 .. Half - 1 /\ k - Half # slot
        BY <1>1, <1>2, <3>3, <4>1, <2>1
      <4> QED
        BY <1>1, <2>3, <2>6, <4>2, <4>3
    <3> QED
      BY <3>2, <3>3
  <2> QED
    BY <2>3, <2>4, <2>5 DEF Packed
<1> QED
  BY <1>1, <1>2, <1>3, <1>4

LEMMA RunComponentInv == ASSUME LogInv, RunByte, mode = "component" PROVE LogInv'
<1>1. /\ pc = "run" /\ pc' = "run" /\ mode' = mode
      /\ real' = real /\ rebuilt' = rebuilt
      /\ scan' = [Pack(scan, real[scan.i]) EXCEPT !.i = @ + 1]
      /\ shadow' = [shadow EXCEPT ![scan.i] = real[scan.i]]
  BY DEF RunByte
<1>2. /\ scan.i \in Nat /\ scan.end \in 0 .. Size /\ scan.i < scan.end
      /\ scan.start \in Nat /\ scan.start <= scan.i
      /\ scan.end - scan.start <= 2 * Half
      /\ scan.i \in Addresses
      /\ Half \in Nat \ {0} /\ Size \in Nat
      /\ scan \in Scans
  BY WidthAssumption, SizeAssumption
  DEF LogInv, TypeOK, Window, RunByte, Differs, Addresses, Scans
<1>3. real[scan.i] \in Bytes
  BY <1>2 DEF LogInv, TypeOK, Memories
<1>4. Packed(scan)
  BY <1>1 DEF LogInv, Agree, Packed
<1>5. /\ scan' \in Scans /\ Packed(scan')
      /\ scan'.i = scan.i + 1 /\ scan'.end = scan.end /\ scan'.start = scan.start
  BY <1>1, <1>2, <1>3, <1>4, PackByte
<1>6. TypeOK'
  <2>1. shadow' \in Memories
    BY <1>1, <1>2, <1>3 DEF LogInv, TypeOK, Memories
  <2> QED
    BY <1>5, <2>1 DEF LogInv, TypeOK, RunByte, Scans
<1>7. Window'
  BY <1>1, <1>2, <1>5 DEF Window
<1>8. Passed' = Passed \cup {scan.i}
  BY <1>2, <1>5 DEF Passed, Addresses
<1>9. Agree'
  <2>1. \A a \in Passed' : shadow'[a] = real'[a]
    BY <1>1, <1>2, <1>8 DEF LogInv, TypeOK, Memories, Agree, Passed
  <2>2. \A a \in Addresses \ Passed' : Fits(rebuilt'[a], shadow'[a])
    BY <1>1, <1>2, <1>8 DEF LogInv, TypeOK, Memories, Agree, Passed
  <2> QED
    BY <1>1, <1>5, <2>1, <2>2 DEF Agree, Packed
<1> QED
  BY <1>6, <1>7, <1>9 DEF LogInv

LEMMA EndScanInv == ASSUME LogInv, EndScan PROVE LogInv'
<1>1. Empty \in Halves
  BY BytesAssumption DEF Empty, Halves
<1>2. TypeOK'
  BY <1>1, SizeAssumption DEF LogInv, TypeOK, EndScan, NoScan
<1> QED
  BY <1>2 DEF LogInv, EndScan, Window, Agree

(* Lemma: the event carries the bytes of the memory in either mode.        *)
LEMMA RunDataReal ==
  ASSUME LogInv, pc = "run"
  PROVE  /\ RunData = Slice(real, scan.start, scan.i - scan.start)
         /\ RunData \in [1 .. scan.i - scan.start -> Bytes]
         /\ scan.start \in Nat /\ scan.i \in Nat /\ scan.start <= scan.i /\ scan.i <= Size
<1> DEFINE n == scan.i - scan.start
<1>1. /\ scan.start \in Nat /\ scan.i \in Nat /\ scan.start <= scan.i /\ scan.i <= Size
      /\ n \in Nat /\ scan.start + n = scan.i /\ n <= 2 * Half /\ Half \in Nat
  BY WidthAssumption, SizeAssumption DEF LogInv, TypeOK, Window
<1>2. RunData = Slice(real, scan.start, n)
  <2>1. CASE mode = "core"
    BY <2>1 DEF RunData
  <2>2. CASE mode = "component"
    <3>1. ASSUME NEW k \in 1 .. n
          PROVE  (IF k <= Half THEN scan.lo[k - 1] ELSE scan.hi[k - 1 - Half])
                   = real[scan.start + k - 1]
      <4> DEFINE j == k - 1
      <4>1. /\ j \in 0 .. scan.i - scan.start - 1
            /\ scan.start + j = scan.start + k - 1
            /\ k <= Half <=> j < Half
            /\ ~(j < Half) <=> j >= Half
        BY <1>1
      <4>2. /\ j < Half => scan.lo[j] = real[scan.start + j]
            /\ j >= Half => scan.hi[j - Half] = real[scan.start + j]
        BY <2>2, <4>1 DEF LogInv, Agree
      <4> QED
        BY <4>1, <4>2
    <3>2. RunData = Unpacked(scan)
      BY <2>2 DEF RunData
    <3> QED
      BY <3>1, <3>2 DEF Unpacked, Slice
  <2> QED
    BY <2>1, <2>2 DEF LogInv, TypeOK
<1>3. Slice(real, scan.start, n) \in [1 .. n -> Bytes]
  BY <1>1, SliceType DEF LogInv, TypeOK
<1> QED
  BY <1>1, <1>2, <1>3

LEMMA EndRunInv == ASSUME LogInv, EndRun PROVE LogInv'
<1> DEFINE n == scan.i - scan.start
<1>1. /\ pc = "run" /\ pc' = "scan" /\ mode' = mode /\ scan' = scan
      /\ rebuilt' = Put(rebuilt, scan.start, RunData)
      /\ shadow' = Synced
  BY DEF EndRun, AfterRun
<1>2. /\ RunData = Slice(real, scan.start, n)
      /\ RunData \in [1 .. n -> Bytes]
      /\ scan.start \in Nat /\ scan.i \in Nat /\ scan.start <= scan.i /\ scan.i <= Size
      /\ n \in Nat
  BY <1>1, RunDataReal
<1>3. shadow' \in Memories /\ rebuilt' \in Memories
  BY <1>1, <1>2, PutType DEF Synced, LogInv, TypeOK
<1>6. ASSUME NEW a \in Addresses PROVE Fits(rebuilt'[a], shadow'[a])
  <2>1. CASE mode = "core"
    <3>1. shadow' = Put(shadow, scan.start, RunData) /\ Fits(rebuilt[a], shadow[a])
      BY <1>1, <2>1 DEF LogInv, Agree, Synced
    <3>2. \A k \in 1 .. n : Fits(RunData[k], RunData[k])
      BY SameFits
    <3>3. scan.start \in Int /\ n \in Int /\ RunData \in [1 .. n -> Bytes]
      BY <1>2
    <3> HIDE DEF n
    <3>4. Fits(Put(rebuilt, scan.start, RunData)[a], Put(shadow, scan.start, RunData)[a])
      BY <3>1, <3>2, <3>3, PutFits
    <3> QED
      BY <1>1, <3>1, <3>4
  <2>2. CASE mode = "component"
    <3>1. shadow' = shadow
      BY <1>1, <2>2 DEF Synced
    <3>2. CASE a \in Passed
      <4>1. a - scan.start + 1 \in 1 .. n /\ scan.start + (a - scan.start + 1) - 1 = a
        BY <1>2, <3>2, SizeAssumption DEF Passed, Addresses
      <4>2. rebuilt'[a] = RunData[a - scan.start + 1]
        BY <1>1, <1>2, <4>1 DEF Put
      <4>3. rebuilt'[a] = shadow'[a]
        BY <1>1, <1>2, <2>2, <3>1, <3>2, <4>1, <4>2 DEF Slice, LogInv, Agree
      <4> QED
        BY <4>3, SameFits
    <3>3. CASE a \notin Passed
      <4>1. a - scan.start + 1 \notin 1 .. n
        BY <1>2, <3>3, SizeAssumption DEF Passed, Addresses
      <4>2. rebuilt'[a] = rebuilt[a]
        BY <1>1, <1>2, <4>1 DEF Put
      <4> QED
        BY <1>1, <2>2, <3>1, <3>3, <4>2 DEF LogInv, Agree
    <3> QED
      BY <3>2, <3>3
  <2> QED
    BY <2>1, <2>2 DEF LogInv, TypeOK
<1>4. TypeOK'
  BY <1>1, <1>3 DEF LogInv, TypeOK, EndRun
<1>5. Window'
  BY <1>1, <1>2, WidthAssumption, SizeAssumption DEF LogInv, TypeOK, Window
<1> QED
  BY <1>1, <1>4, <1>5, <1>6 DEF LogInv, Agree

LEMMA StepInv == ASSUME LogInv, [Next]_vars PROVE LogInv'
<1>1. CASE Guest
  BY <1>1, LoadInv, StoreInv, FillInv, CopyInv, MemInitInv, GrowInv DEF Guest, Access, Bulk
<1>2. CASE Host
  BY <1>2, HostInv DEF Host
<1>3. CASE ScanStep
  <2>1. CASE RunByte
    BY <2>1, RunCoreInv, RunComponentInv DEF LogInv, TypeOK
  <2> QED
    BY <1>3, <2>1, SkipInv, BeginInv, EndRunInv, EndScanInv DEF ScanStep
<1>4. CASE UNCHANGED vars
  BY <1>4 DEF vars, LogInv, TypeOK, Window, Agree, Passed
<1> QED
  BY <1>1, <1>2, <1>3, <1>4 DEF Next, Trapped

(* The recorded writes give the shadow but for bytes of the data segments, *)
(* for every size of memory and of lo and hi, all data segments and every  *)
(* access: the scan misses no byte it synced and packs none wrongly.       *)
THEOREM LogAlwaysExact == Spec => []LogExact
<1>1. Init => LogInv
  BY InitInv
<1>2. LogInv /\ [Next]_vars => LogInv'
  BY StepInv
<1>3. LogInv => LogExact
  BY DEF LogInv, Agree, LogExact, Fits, Unshadowed
<1> QED
  BY <1>1, <1>2, <1>3, PTL DEF Spec

----------------------------------------------------------------------------
(* The load being recorded: the scan began at its address operand, and the *)
(* shadow has the bytes that were passed.  In core mode a run is not in it *)
(* yet.                                                                    *)
From == loaded.at - loaded.offset
Reached == IF pc = "run" /\ mode = "core" THEN scan.start ELSE scan.i

Covered ==
  /\ loaded.at + loaded.width <= Size /\ loaded.at >= loaded.offset
  /\ pc \in {"scan", "run"} =>
       /\ From <= (IF pc = "run" THEN scan.start ELSE scan.i)
       /\ scan.end = From + loaded.width
       /\ \A a \in Addresses : From <= a /\ a < Reached => shadow[a] = real[a]
  /\ pc = "guest" /\ loaded # NoLoad =>
       \/ \A a \in Read : shadow[a] = real[a] \/ Unseen(a)
       \/ /\ loaded.kind = "float"
          /\ Slice(shadow, loaded.at, loaded.width) \in Zeros
          /\ Slice(real, loaded.at, loaded.width) \in Zeros

(* Lemma: where a load was.                                                *)
LEMMA LoadedType ==
  ASSUME LogInv
  PROVE  /\ loaded.at \in Nat /\ loaded.offset \in Nat /\ loaded.width \in Nat
         /\ loaded.offset \in Offsets \cup {0}
         /\ From \in Int /\ Size \in Nat
<1>1. loaded \in [at : 0 .. Size, offset : Offsets \cup {0}, width : 0 .. 2 * Half,
                  kind : {"int", "float", "none"}]
  BY DEF LogInv, TypeOK
<1>2. /\ loaded.at \in 0 .. Size /\ loaded.offset \in Offsets \cup {0}
      /\ loaded.width \in 0 .. 2 * Half
  BY <1>1
<1>3. /\ loaded.at \in Nat /\ loaded.offset \in Nat /\ loaded.width \in Nat
      /\ Size \in Nat
  <2>1. Half \in Nat /\ Size \in Nat /\ Offsets \cup {0} \subseteq Nat
    BY WidthAssumption, SizeAssumption
  <2> QED
    BY <1>2, <2>1
<1> QED
  BY <1>2, <1>3 DEF From

LEMMA CoveredInit == ASSUME Init PROVE Covered
BY SizeAssumption DEF Init, Covered, NoLoad

(* Lemma: whatever is not a load or the scan forgets the load.             *)
LEMMA CoveredForgotten ==
  ASSUME pc' \in {"guest", "trapped"}, loaded' = NoLoad
  PROVE  Covered'
BY SizeAssumption DEF Covered, NoLoad

LEMMA CoveredLoad ==
  ASSUME LogInv, NEW a \in Addresses, NEW o \in Offsets,
         NEW n \in Widths \cup {FloatWidth}, NEW kind \in {"int", "float"}, Load(a, o, n, kind)
  PROVE  Covered'
<1>1. /\ o \in Nat /\ a \in Nat /\ n \in Nat /\ a + o \in Nat /\ Size \in Nat
      /\ a + o + n <= Size /\ a = (a + o) - o
  <2>1. o \in Nat /\ n \in 1 .. 2 * Half /\ Half \in Nat
    BY WidthAssumption
  <2>2. a \in Nat /\ Size \in Nat
    BY SizeAssumption DEF Addresses
  <2>3. a + o + n <= size /\ size \in 0 .. Size
    BY DEF Load, LogInv, TypeOK
  <2> QED
    BY <2>1, <2>2, <2>3
<1>2. /\ loaded' = [at |-> a + o, offset |-> o, width |-> n, kind |-> kind]
      /\ real' = real /\ shadow' = shadow
  BY DEF Load
<1>3. /\ loaded'.at = a + o /\ loaded'.offset = o /\ loaded'.width = n
      /\ loaded'.kind = kind
  BY <1>2
<1>4. From' = a
  BY <1>1, <1>3 DEF From
<1>5. loaded'.at + loaded'.width <= Size /\ loaded'.at >= loaded'.offset
  BY <1>1, <1>3
<1>6. CASE pc' = "scan"
  <2>1. scan' = [NoScan EXCEPT !.i = a, !.end = a + n]
    BY <1>6 DEF Load, ScanFrom
  <2>2. scan'.i = a /\ scan'.end = a + n
    BY <2>1 DEF NoScan
  <2> QED
    BY <1>1, <1>2, <1>3, <1>4, <1>5, <1>6, <2>2 DEF Covered, Reached, Addresses
<1>7. CASE pc' = "trapped"
  BY <1>5, <1>7 DEF Covered
<1>8. CASE pc' = pc /\ pc = "guest"
  <2>1. ~Ne(kind, Slice(shadow, a + o, n), Slice(real, a + o, n))
    BY <1>8 DEF Load
  <2>2. CASE Slice(shadow, a + o, n) = Slice(real, a + o, n)
    <3>1. ASSUME NEW b \in Read' PROVE shadow'[b] = real'[b]
      <4>1. b \in a + o .. a + o + n - 1
        BY <1>3 DEF Read
      <4>2. b - (a + o) + 1 \in 1 .. n /\ (a + o) + (b - (a + o) + 1) - 1 = b
        BY <1>1, <4>1
      <4> DEFINE k == b - (a + o) + 1
      <4>3. k \in 1 .. n /\ (a + o) + k - 1 = b
        BY <4>2
      <4> HIDE DEF k
      <4>4. Slice(shadow, a + o, n)[k] = shadow[b] /\ Slice(real, a + o, n)[k] = real[b]
        BY <4>3 DEF Slice
      <4> QED
        BY <1>2, <2>2, <4>4
    <3> QED
      BY <1>5, <1>8, <3>1 DEF Covered
  <2>3. CASE /\ kind = "float" /\ Slice(shadow, a + o, n) \in Zeros
             /\ Slice(real, a + o, n) \in Zeros
    BY <1>2, <1>3, <1>5, <1>8, <2>3 DEF Covered
  <2> QED
    BY <2>1, <2>2, <2>3 DEF Ne
<1> QED
  BY <1>6, <1>7, <1>8 DEF Load

LEMMA CoveredSkip == ASSUME LogInv, Covered, SkipByte PROVE Covered'
<1>1. /\ pc = "scan" /\ pc' = "scan" /\ real' = real /\ shadow' = shadow /\ loaded' = loaded
      /\ scan' = [scan EXCEPT !.i = @ + 1]
      /\ scan.i \in Nat /\ From \in Int /\ real[scan.i] = shadow[scan.i]
  BY LoadedType DEF SkipByte, Differs, LogInv, TypeOK
<1>2. scan'.i = scan.i + 1 /\ scan'.end = scan.end
  BY <1>1 DEF LogInv, TypeOK
<1> QED
  BY <1>1, <1>2 DEF Covered, Reached, From, Addresses

LEMMA CoveredBegin == ASSUME LogInv, Covered, BeginRun PROVE Covered'
<1>1. /\ pc = "scan" /\ pc' = "run" /\ real' = real /\ shadow' = shadow /\ loaded' = loaded
      /\ scan' = [scan EXCEPT !.start = scan.i, !.lo = Empty, !.hi = Empty]
  BY DEF BeginRun
<1>2. scan'.i = scan.i /\ scan'.start = scan.i /\ scan'.end = scan.end
  BY <1>1 DEF LogInv, TypeOK
<1> QED
  BY <1>1, <1>2 DEF Covered, Reached, From

LEMMA CoveredRun == ASSUME LogInv, Covered, RunByte PROVE Covered'
<1>1. /\ pc = "run" /\ pc' = "run" /\ real' = real /\ loaded' = loaded /\ mode' = mode
      /\ scan.i \in Nat /\ scan.start \in Nat /\ From \in Int
      /\ scan.start <= scan.i
  BY LoadedType DEF RunByte, LogInv, TypeOK, Window
<1>2. CASE mode = "core"
  <2>1. scan' = [scan EXCEPT !.i = @ + 1] /\ shadow' = shadow
    BY <1>2 DEF RunByte
  <2>2. scan'.start = scan.start /\ scan'.end = scan.end
    BY <2>1 DEF LogInv, TypeOK
  <2> QED
    BY <1>1, <1>2, <2>1, <2>2 DEF Covered, Reached, From
<1>3. CASE mode = "component"
  <2>1. /\ scan' = [Pack(scan, real[scan.i]) EXCEPT !.i = @ + 1]
        /\ shadow' = [shadow EXCEPT ![scan.i] = real[scan.i]]
    BY <1>3 DEF RunByte
  <2>2. scan'.i = scan.i + 1 /\ scan'.start = scan.start /\ scan'.end = scan.end
    BY <2>1 DEF Pack, LogInv, TypeOK
  <2>3. ASSUME NEW a \in Addresses, From <= a, a < scan.i + 1
        PROVE  shadow'[a] = real[a]
    <3>1. CASE a = scan.i
      BY <2>1, <3>1 DEF LogInv, TypeOK, Memories
    <3>2. CASE a # scan.i
      <4>1. a < scan.i
        BY <1>1, <2>3, <3>2 DEF Addresses
      <4> QED
        BY <1>1, <1>3, <2>1, <2>3, <3>2, <4>1 DEF Covered, Reached, From, LogInv, TypeOK, Memories
    <3> QED
      BY <3>1, <3>2
  <2> QED
    BY <1>1, <1>3, <2>2, <2>3 DEF Covered, Reached, From
<1> QED
  BY <1>2, <1>3 DEF LogInv, TypeOK

LEMMA CoveredEndRun == ASSUME LogInv, Covered, EndRun PROVE Covered'
<1>1. /\ pc = "run" /\ pc' = "scan" /\ real' = real /\ loaded' = loaded /\ mode' = mode
      /\ scan' = scan /\ shadow' = Synced
  BY DEF EndRun, AfterRun
<1>2. /\ RunData = Slice(real, scan.start, scan.i - scan.start)
      /\ scan.start \in Nat /\ scan.i \in Nat /\ scan.start <= scan.i
      /\ From \in Int /\ From <= scan.start
  BY <1>1, RunDataReal, LoadedType DEF Covered
<1>3. ASSUME NEW a \in Addresses, From <= a, a < scan.i
      PROVE  shadow'[a] = real[a]
  <2>1. CASE mode = "component"
    BY <1>1, <1>3, <2>1 DEF Covered, Reached, From, Synced
  <2>2. CASE mode = "core"
    <3>1. shadow' = Put(shadow, scan.start, Slice(real, scan.start, scan.i - scan.start))
      BY <1>1, <1>2, <2>2 DEF Synced
    <3>2. CASE a < scan.start
      <4>1. a - scan.start + 1 \notin 1 .. scan.i - scan.start
        BY <1>2, <3>2 DEF Addresses
      <4>2. shadow'[a] = shadow[a]
        BY <3>1, <4>1 DEF Put, Slice
      <4> QED
        BY <1>1, <1>3, <2>2, <3>2, <4>2 DEF Covered, Reached, From
    <3>3. CASE ~(a < scan.start)
      <4>1. /\ a - scan.start + 1 \in 1 .. scan.i - scan.start
            /\ scan.start + (a - scan.start + 1) - 1 = a
        BY <1>2, <1>3, <3>3 DEF Addresses
      <4> QED
        BY <3>1, <4>1 DEF Put, Slice
    <3> QED
      BY <3>2, <3>3
  <2> QED
    BY <2>1, <2>2 DEF LogInv, TypeOK
<1>4. From <= scan.i
  BY <1>2
<1> QED
  BY <1>1, <1>3, <1>4 DEF Covered, Reached, From

LEMMA CoveredEndScan == ASSUME LogInv, Covered, EndScan PROVE Covered'
<1>1. /\ pc = "scan" /\ pc' = "guest" /\ real' = real /\ shadow' = shadow /\ loaded' = loaded
      /\ scan.i \in Nat /\ scan.i >= scan.end /\ scan.end = From + loaded.width
  BY DEF EndScan, LogInv, TypeOK, Covered
<1>2. /\ loaded.at \in Nat /\ loaded.offset \in Nat /\ loaded.width \in Nat /\ Size \in Nat
      /\ loaded.at + loaded.width <= Size
  BY LoadedType DEF Covered
<1>3. ASSUME NEW a \in Read PROVE shadow[a] = real[a] \/ Unseen(a)
  <2>1. a \in Addresses /\ a \in Int
    BY <1>2 DEF Read, Addresses
  <2>2. CASE a \in Scanned
    <3>1. From <= a /\ a < scan.end
      BY <1>1, <1>2, <2>1, <2>2 DEF Scanned, Read, From
    <3>2. a < scan.i
      BY <1>1, <1>2, <2>1, <3>1 DEF From
    <3> QED
      BY <1>1, <2>1, <3>1, <3>2 DEF Covered, Reached
  <2>3. CASE a \notin Scanned
    BY <2>3 DEF Unseen
  <2> QED
    BY <2>2, <2>3
<1>4. Read' = Read /\ \A a : Unseen(a)' = Unseen(a)
  BY <1>1 DEF Read, Unseen, Scanned
<1> QED
  BY <1>1, <1>3, <1>4 DEF Covered

LEMMA CoveredStep ==
  ASSUME LogInv, Covered, [Next]_vars
  PROVE  Covered'
<1>1. CASE Access
  BY <1>1, CoveredLoad, CoveredForgotten DEF Access, Store, Written
<1>2. CASE Bulk \/ (\E n \in 0 .. Size : MemoryGrow(n)) \/ Host
  BY <1>2, CoveredForgotten
  DEF Bulk, MemoryFill, MemoryCopy, MemoryInit, Written, MemoryGrow, Host, HostWrite
<1>3. CASE ScanStep
  BY <1>3, CoveredSkip, CoveredBegin, CoveredRun, CoveredEndRun, CoveredEndScan DEF ScanStep
<1>4. CASE UNCHANGED vars
  BY <1>4 DEF vars, Covered, Reached, From, Read, Unseen, Scanned
<1> QED
  BY <1>1, <1>2, <1>3, <1>4 DEF Next, Guest, Trapped

(* Every load is explained, for every size, data segment, offset and       *)
(* access: what the host wrote is in the recording by the time it is       *)
(* loaded, unless the scan did not look at it, or it is a zero over a byte *)
(* of the data segments.                                                   *)
THEOREM LoadsAlwaysExplained == Spec => []LoadsExplained
<1>1. Init => LogInv /\ Covered
  BY InitInv, CoveredInit
<1>2. LogInv /\ Covered /\ [Next]_vars => LogInv' /\ Covered'
  BY StepInv, CoveredStep
<1>3. LogInv /\ Covered => LoadsExplained
  <2> SUFFICES ASSUME LogInv, Covered, pc = "guest", loaded # NoLoad,
                      \A a \in Read : shadow[a] = real[a] \/ Unseen(a), NEW a \in Read
               PROVE  rebuilt[a] = real[a] \/ Unseen(a) \/ (Unshadowed(a) /\ real[a] = Zero)
    BY DEF Covered, LoadsExplained
  <2>1. a \in Addresses
    BY LoadedType DEF Covered, Read, Addresses
  <2>2. Fits(rebuilt[a], shadow[a])
    BY <2>1 DEF LogInv, Agree
  <2> QED
    BY <2>2 DEF Fits, Unshadowed
<1> QED
  BY <1>1, <1>2, <1>3, PTL DEF Spec

(* The memories, the scan and its packed words keep their types: no run    *)
(* is longer than the two words hold.                                      *)
THEOREM ShadowTypeCorrect == Spec => []TypeOK
<1>1. Init => LogInv
  BY InitInv
<1>2. LogInv /\ [Next]_vars => LogInv'
  BY StepInv
<1>3. LogInv => TypeOK
  BY DEF LogInv
<1> QED
  BY <1>1, <1>2, <1>3, PTL DEF Spec
=============================================================================
