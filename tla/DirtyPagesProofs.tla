-------------------------- MODULE DirtyPagesProofs --------------------------
(***************************************************************************)
(* The trackers find what was written, for any buffer, pages of at least   *)
(* eight bytes, any steps of the walk and any number of runs: between two  *)
(* scans the inductive invariant says that the pages a scan would find are *)
(* the pages written, and after a scan that passed the assertions that it  *)
(* would find none, which is what the next run starts from.  Which         *)
(* soft-dirty bits the kernel leaves when it is told to clear them is      *)
(* open.  And the scans agree: PAGEMAP_SCAN and from_bitmap make the same  *)
(* regions of the same pages.                                              *)
(***************************************************************************)
EXTENDS DirtyPages, FiniteSetTheorems, SequenceTheorems, WellFoundedInduction,
        TLAPS

(* The quotient of a division.                                             *)
LEMMA Quotient ==
  ASSUME NEW n \in Nat \ {0}, NEW a \in Nat
  PROVE  /\ a \div n \in Nat
         /\ (a \div n) * n <= a
         /\ a < (a \div n) * n + n
  OBVIOUS

LEMMA QuotientIs ==
  ASSUME NEW n \in Nat \ {0}, NEW a \in Nat, NEW q \in Nat,
         q * n <= a, a < q * n + n
  PROVE  a \div n = q
  OBVIOUS

LEMMA QuotientMonotone ==
  ASSUME NEW n \in Nat \ {0}, NEW a \in Nat, NEW b \in Nat, a <= b
  PROVE  a \div n <= b \div n
<1> DEFINE p == a \div n
           q == b \div n
<1>1. /\ p \in Nat /\ q \in Nat /\ p * n <= a /\ b < q * n + n
  BY Quotient
<1> HIDE DEF p, q
<1>2. SUFFICES ASSUME q + 1 <= p PROVE FALSE
  BY <1>1 DEF p, q
<1>3. (q + 1) * n <= p * n
  BY <1>1, <1>2
<1>4. (q + 1) * n = q * n + n
  BY <1>1
<1> QED BY <1>1, <1>3, <1>4

(* Numbers less than n apart have quotients at most one apart.             *)
LEMMA QuotientNear ==
  ASSUME NEW n \in Nat \ {0}, NEW a \in Nat, NEW b \in Nat, b < a + n
  PROVE  b \div n <= (a \div n) + 1
<1> DEFINE p == a \div n
           q == b \div n
<1>1. /\ p \in Nat /\ q \in Nat /\ q * n <= b /\ a < p * n + n
  BY Quotient
<1> HIDE DEF p, q
<1>2. SUFFICES ASSUME p + 2 <= q PROVE FALSE
  BY <1>1 DEF p, q
<1>3. (p + 2) * n <= q * n
  BY <1>1, <1>2
<1>4. (p + 2) * n = p * n + n + n
  BY <1>1
<1> QED BY <1>1, <1>3, <1>4

LEMMA SizeType == Size \in Nat \ {0} /\ Page \subseteq Nat /\ PageSize \in Nat \ {0}
  BY PagesAssumption, PageSizeAssumption DEF Size, Page

(* Bytes of the buffer are in its pages.                                   *)
LEMMA PageOfType ==
  ASSUME NEW b \in 0..(Size - 1)
  PROVE  PageOf(b) \in Page
<1> DEFINE q == b \div PageSize
<1>1. q \in Nat /\ q * PageSize <= b
  BY Quotient, SizeType
<1>2. b < NumPages * PageSize
  BY SizeType DEF Size
<1> HIDE DEF q
<1>3. q < NumPages
  <2>1. SUFFICES ASSUME NumPages <= q PROVE FALSE
    BY <1>1, PagesAssumption
  <2>2. NumPages * PageSize <= q * PageSize
    BY <2>1, <1>1, SizeType, PagesAssumption
  <2>3. NumPages * PageSize \in Nat /\ q * PageSize \in Nat
    BY <1>1, SizeType, PagesAssumption
  <2> QED BY <2>2, <2>3, <1>1, <1>2, SizeType
<1> QED BY <1>1, <1>3, PagesAssumption DEF PageOf, Page, q

(* A range of at most a page has no pages but its first and its last: what *)
(* the generated code marks is what is written.                            *)
LEMMA MarksPages ==
  ASSUME NEW s \in Int, NEW n \in {1, 2, 4, 8},
         InBuffer([start |-> s, end |-> s + n])
  PROVE  /\ PagesOf([start |-> s, end |-> s + n]) \subseteq Page
         /\ Marked([start |-> s, end |-> s + n]) = PagesOf([start |-> s, end |-> s + n])
<1> DEFINE r == [start |-> s, end |-> s + n]
           e == s + n - 1
<1>1. /\ s \in 0..(Size - 1) /\ e \in 0..(Size - 1) /\ s <= e
      /\ r.start = s /\ r.end - 1 = e
  BY SizeType DEF InBuffer
<1>2. e < s + PageSize
  BY <1>1, PageSizeAssumption
<1> HIDE DEF e
<1>3. PagesOf(r) = {PageOf(b) : b \in s..e}
  BY <1>1 DEF PagesOf
<1>4. Marked(r) = {PageOf(s), PageOf(e)}
  BY <1>1 DEF Marked
<1> HIDE DEF r
<1>5. \A b \in s..e : b \in 0..(Size - 1)
  BY <1>1, SizeType
<1>6. ASSUME NEW b \in s..e
      PROVE  PageOf(b) \in {PageOf(s), PageOf(e)}
  <2>1. b \in Nat /\ s \in Nat /\ e \in Nat /\ s <= b /\ b <= e
    BY <1>1, SizeType
  <2>2. PageOf(s) <= PageOf(b) /\ PageOf(b) <= PageOf(e)
    BY <2>1, QuotientMonotone, SizeType DEF PageOf
  <2>3. PageOf(e) <= PageOf(s) + 1
    BY <2>1, <1>2, QuotientNear, SizeType DEF PageOf
  <2>4. PageOf(s) \in Nat /\ PageOf(b) \in Nat /\ PageOf(e) \in Nat
    BY <2>1, Quotient, SizeType DEF PageOf
  <2> QED BY <2>2, <2>3, <2>4
<1>7. PagesOf(r) \subseteq Page
  BY <1>3, <1>5, PageOfType
<1>8. PagesOf(r) = Marked(r)
  BY <1>1, <1>3, <1>4, <1>6
<1> QED BY <1>7, <1>8 DEF r

LEMMA RemType ==
  ASSUME NEW a \in Int, NEW b \in Nat \ {0}
  PROVE  Rem(a, b) \in Int /\ Rem(a, b) < b
  BY DEF Rem

(* Every access is of one, two, four or eight bytes, wherever it is.       *)
LEMMA SubrangeIs ==
  ASSUME NEW from \in Int, NEW offset \in Int, NEW len \in 0..3
  PROVE  \E s \in Int, n \in {1, 2, 4, 8} :
           Subrange(from, offset, len) = [start |-> s, end |-> s + n]
<1> DEFINE s == RangeStart(from, offset)
           k == Lesser(Size - s, len)
<1>1. s \in Int /\ s < Size
  BY RemType, SizeType DEF RangeStart
<1> HIDE DEF s
<1>2. k \in 0..3
  BY <1>1, SizeType DEF Lesser
<1> HIDE DEF k
<1>3. Bytes[1 + k] \in {1, 2, 4, 8}
  BY <1>2 DEF Bytes
<1>4. Subrange(from, offset, len) = [start |-> s, end |-> s + Bytes[1 + k]]
  BY DEF Subrange, s, k
<1> QED BY <1>1, <1>3, <1>4

----------------------------------------------------------------------------
(* The invariant.  What scans were taken does not matter for what the next *)
(* will find, so their type and that they agree come after it (RunInv).    *)
StateType ==
  /\ phase \in {"idle", "harness", "scanned", "stray", "failed"}
  /\ pos \in [read : Int, write : Int]
  /\ uffd \in Tables /\ soft \in Tables
  /\ bitmap \subseteq Page /\ written \subseteq Page
NothingLeft == phase \in {"idle", "scanned"} => UffdHits = {} /\ SoftHits = {}
IInv == StateType /\ NothingLeft /\ TrackedExactly

(* Accesses add the pages written to what a scan finds, and reads nothing. *)
LEMMA AccessHits ==
  ASSUME NEW t \in Tables, NEW R \in SUBSET Page, NEW F, NEW W \in SUBSET Page
  PROVE  /\ Store(Load(t, R, F), W) \in Tables
         /\ \A p \in Page :
              /\ UffdMatches(Store(Load(t, R, F), W)[p]) <=> UffdMatches(t[p]) \/ p \in W
              /\ SoftMatches(Store(Load(t, R, F), W)[p]) <=> SoftMatches(t[p]) \/ p \in W
<1>1. Load(t, R, F) \in Tables
  BY DEF Load, Tables, PteSet, Pte
<1>2. Store(Load(t, R, F), W) \in Tables
  BY <1>1 DEF Store, Tables, PteSet, Pte
<1>3. ASSUME NEW p \in Page
      PROVE  /\ UffdMatches(Store(Load(t, R, F), W)[p]) <=> UffdMatches(t[p]) \/ p \in W
             /\ SoftMatches(Store(Load(t, R, F), W)[p]) <=> SoftMatches(t[p]) \/ p \in W
  <2>1. CASE p \in W
    BY <2>1 DEF Store, Pte, UffdMatches, SoftMatches, Written
  <2>2. CASE p \notin W /\ p \in R /\ t[p].state = "none"
    <3>1. Store(Load(t, R, F), W)[p] = Pte("zero", FALSE, p \in F)
      BY <2>2 DEF Store, Load
    <3> QED BY <3>1, <2>2 DEF Pte, UffdMatches, SoftMatches, Written
  <2>3. CASE p \notin W /\ ~(p \in R /\ t[p].state = "none")
    <3>1. Store(Load(t, R, F), W)[p] = t[p]
      BY <2>3 DEF Store, Load
    <3> QED BY <3>1, <2>3
  <2> QED BY <2>1, <2>2, <2>3
<1> QED BY <1>2, <1>3

LEMMA LoadType ==
  ASSUME NEW t \in Tables, NEW R \in SUBSET Page, NEW F
  PROVE  Load(t, R, F) \in Tables
  BY DEF Load, Tables, PteSet, Pte

LEMMA LoadHits ==
  ASSUME NEW t \in Tables, NEW R \in SUBSET Page, NEW F, NEW p \in Page,
         ~SoftMatches(t[p])
  PROVE  ~SoftMatches(Load(t, R, F)[p])
<1>1. CASE p \in R /\ t[p].state = "none"
  <2>1. Load(t, R, F)[p] = Pte("zero", FALSE, p \in F)
    BY <1>1 DEF Load
  <2> QED BY <2>1 DEF Pte, SoftMatches
<1>2. CASE ~(p \in R /\ t[p].state = "none")
  <2>1. Load(t, R, F)[p] = t[p]
    BY <1>2 DEF Load
  <2> QED BY <2>1
<1> QED BY <1>1, <1>2

(* Clearing soft-dirty bits, whichever stay, adds no soft hits and leaves  *)
(* what is written.                                                        *)
LEMMA ClearHits ==
  ASSUME NEW t \in Tables, NEW K
  PROVE  /\ ClearSoftDirty(t, K) \in Tables
         /\ \A p \in Page :
              /\ SoftMatches(ClearSoftDirty(t, K)[p]) => SoftMatches(t[p])
              /\ UffdMatches(ClearSoftDirty(t, K)[p]) <=> UffdMatches(t[p])
<1>1. \A p \in Page : t[p] \in PteSet
  BY DEF Tables
<1>2. \A p \in Page :
        ClearSoftDirty(t, K)[p] = [t[p] EXCEPT !.dirty = t[p].dirty /\ p \in K]
  BY DEF ClearSoftDirty
<1>3. \A p \in Page : (t[p].dirty /\ p \in K) \in BOOLEAN
  BY <1>1 DEF PteSet
<1>4. ClearSoftDirty(t, K) \in Tables
  BY <1>1, <1>3 DEF ClearSoftDirty, Tables, PteSet
<1>5. \A p \in Page : /\ ClearSoftDirty(t, K)[p].dirty = (t[p].dirty /\ p \in K)
                     /\ ClearSoftDirty(t, K)[p].state = t[p].state
                     /\ ClearSoftDirty(t, K)[p].protected = t[p].protected
  BY <1>1, <1>2 DEF PteSet
<1> QED BY <1>4, <1>5 DEF SoftMatches, UffdMatches, Written

LEMMA ProtectHits ==
  ASSUME NEW t \in Tables, NEW hits \in SUBSET Page,
         \A p \in Page : UffdMatches(t[p]) => p \in hits
  PROVE  /\ Protect(t, hits) \in Tables
         /\ \A p \in Page : ~UffdMatches(Protect(t, hits)[p])
<1>1. \A p \in Page : t[p] \in PteSet
  BY DEF Tables
<1>2. Protect(t, hits) \in Tables
  BY <1>1 DEF Protect, Tables, PteSet
<1>3. \A p \in Page : p \in hits => Protect(t, hits)[p].protected = TRUE
  BY <1>1 DEF Protect, PteSet
<1>4. \A p \in Page : p \notin hits => Protect(t, hits)[p] = t[p]
  BY DEF Protect
<1> QED BY <1>2, <1>3, <1>4 DEF UffdMatches, Written

LEMMA InitIInv == Init => IInv
<1> SUFFICES ASSUME Init PROVE IInv
  OBVIOUS
<1>1. StateType
  <2>1. Size \div 2 \in Int
    BY SizeType
  <2> QED BY <2>1 DEF Init, StateType, Start, Tables, PteSet, Pte
<1>2. UffdHits = {} /\ SoftHits = {}
  BY DEF Init, UffdHits, SoftHits, UffdMatches, SoftMatches, Written, Pte
<1> QED BY <1>1, <1>2 DEF IInv, NothingLeft, TrackedExactly, Init

LEMMA BeginRunIInv ==
  ASSUME IInv, BeginRun
  PROVE  IInv'
<1> USE DEF IInv
<1>1. PICK touched \in {{}, Page}, fresh \in SUBSET Page, kept \in SUBSET Page :
        soft' = ClearSoftDirty(Load(soft, touched, fresh), kept)
  BY DEF BeginRun
<1>2. Load(soft, touched, fresh) \in Tables
  BY LoadType DEF StateType
<1>3. soft' \in Tables /\ SoftHits' = {}
  <2>1. \A p \in Page : ~SoftMatches(soft[p])
    BY DEF BeginRun, NothingLeft, SoftHits
  <2>2. \A p \in Page : ~SoftMatches(Load(soft, touched, fresh)[p])
    BY <2>1, LoadHits DEF StateType
  <2> QED BY <1>1, <1>2, <2>2, ClearHits DEF SoftHits
<1>4. UffdHits' = {}
  BY DEF BeginRun, NothingLeft, UffdHits
<1>5. StateType'
  <2>1. Size \div 2 \in Int
    BY SizeType
  <2> QED BY <1>3, <2>1 DEF BeginRun, StateType, Start, FreshBitmap
<1>6. TrackedExactly'
  BY <1>3, <1>4 DEF BeginRun, FreshBitmap, TrackedExactly
<1>7. NothingLeft'
  BY DEF BeginRun, NothingLeft
<1> QED BY <1>5, <1>6, <1>7

LEMMA AccessIInv ==
  ASSUME IInv, Access
  PROVE  IInv'
<1> USE DEF IInv
<1>1. PICK ro \in Offsets, wo \in Offsets, rl \in Lens, wl \in Lens :
        LET r == Subrange(pos.read, ro, rl)
            w == Subrange(pos.write, wo, wl)
        IN IF InBuffer(r) /\ InBuffer(w)
           THEN /\ pos' = [read |-> r.start, write |-> w.start]
                /\ \E fresh, fresh2 \in SUBSET PagesOf(r) :
                     /\ uffd' = Store(Load(uffd, PagesOf(r), fresh), PagesOf(w))
                     /\ soft' = Store(Load(soft, PagesOf(r), fresh2), PagesOf(w))
                /\ bitmap' = bitmap \cup Marked(w)
                /\ written' = written \cup PagesOf(w)
                /\ UNCHANGED phase
           ELSE /\ phase' = "stray"
                /\ UNCHANGED <<pos, uffd, soft, bitmap, written>>
  BY DEF Access
<1> DEFINE r == Subrange(pos.read, ro, rl)
           w == Subrange(pos.write, wo, wl)
<1>2. pos.read \in Int /\ pos.write \in Int /\ phase = "harness"
  BY DEF StateType, Access
<1>3. /\ ro \in Int /\ wo \in Int /\ rl \in 0..3 /\ wl \in 0..3
  BY OffsetsAssumption, LensAssumption
<1>4. PICK s \in Int, n \in {1, 2, 4, 8} : r = [start |-> s, end |-> s + n]
  BY <1>2, <1>3, SubrangeIs
<1>5. PICK s2 \in Int, n2 \in {1, 2, 4, 8} : w = [start |-> s2, end |-> s2 + n2]
  BY <1>2, <1>3, SubrangeIs
<1> HIDE DEF r, w
<1>6. CASE InBuffer(r) /\ InBuffer(w)
  <2>1. PagesOf(r) \subseteq Page
    BY <1>4, <1>6, MarksPages
  <2>2. PagesOf(w) \subseteq Page /\ Marked(w) = PagesOf(w)
    BY <1>5, <1>6, MarksPages
  <2>3. /\ pos' = [read |-> r.start, write |-> w.start]
        /\ \E fresh, fresh2 \in SUBSET PagesOf(r) :
             /\ uffd' = Store(Load(uffd, PagesOf(r), fresh), PagesOf(w))
             /\ soft' = Store(Load(soft, PagesOf(r), fresh2), PagesOf(w))
        /\ bitmap' = bitmap \cup PagesOf(w)
        /\ written' = written \cup PagesOf(w)
        /\ phase' = "harness"
    BY <1>1, <1>2, <1>6, <2>2 DEF r, w
  <2>4. /\ uffd' \in Tables /\ soft' \in Tables
        /\ \A p \in Page : UffdMatches(uffd'[p]) <=> UffdMatches(uffd[p]) \/ p \in PagesOf(w)
        /\ \A p \in Page : SoftMatches(soft'[p]) <=> SoftMatches(soft[p]) \/ p \in PagesOf(w)
    <3>1. PICK fresh \in SUBSET PagesOf(r), fresh2 \in SUBSET PagesOf(r) :
            /\ uffd' = Store(Load(uffd, PagesOf(r), fresh), PagesOf(w))
            /\ soft' = Store(Load(soft, PagesOf(r), fresh2), PagesOf(w))
      BY <2>3
    <3>2. uffd \in Tables /\ soft \in Tables
      BY DEF StateType
    <3> QED BY <2>1, <2>2, <3>1, <3>2, AccessHits
  <2>5. UffdHits' = UffdHits \cup PagesOf(w) /\ SoftHits' = SoftHits \cup PagesOf(w)
    BY <2>2, <2>4 DEF UffdHits, SoftHits
  <2>6. r.start \in Int /\ w.start \in Int
    BY <1>4, <1>5
  <2>7. StateType'
    BY <2>2, <2>3, <2>4, <2>6 DEF StateType
  <2>8. TrackedExactly'
    BY <1>2, <2>3, <2>5 DEF TrackedExactly
  <2> QED BY <2>3, <2>7, <2>8 DEF NothingLeft
<1>7. CASE ~(InBuffer(r) /\ InBuffer(w))
  <2>1. phase' = "stray" /\ UNCHANGED <<pos, uffd, soft, bitmap, written>>
    BY <1>1, <1>7 DEF r, w
  <2> QED BY <2>1 DEF StateType, NothingLeft, TrackedExactly
<1> QED BY <1>6, <1>7

LEMMA ScanIInv ==
  ASSUME IInv, Scan
  PROVE  IInv'
<1> USE DEF IInv
<1>1. UffdHits \subseteq Page /\ \A p \in Page : UffdMatches(uffd[p]) => p \in UffdHits
  BY DEF UffdHits
<1>2. /\ Protect(uffd, UffdHits) \in Tables
      /\ \A p \in Page : ~UffdMatches(Protect(uffd, UffdHits)[p])
  BY <1>1, ProtectHits DEF StateType
<1>3. uffd' \in Tables /\ \A p \in Page : ~UffdMatches(uffd'[p])
  <2>1. PICK kept \in SUBSET SoftDirty(uffd) :
          uffd' = ClearSoftDirty(Protect(uffd, UffdHits), kept)
    BY DEF Scan, ScanAndProtect
  <2> QED BY <1>2, <2>1, ClearHits
<1>4. soft' \in Tables /\ \A p \in Page : SoftMatches(soft'[p]) => SoftMatches(soft[p])
  <2>1. PICK kept \in SUBSET SoftDirty(soft) : soft' = ClearSoftDirty(soft, kept)
    BY DEF Scan
  <2> QED BY <2>1, ClearHits DEF StateType
<1>5. UffdHits' = {}
  BY <1>3 DEF UffdHits
<1>6. phase' = IF SoftHits' = {} THEN "scanned" ELSE "failed"
  BY <1>5 DEF Scan
<1>7. StateType'
  BY <1>3, <1>4, <1>6 DEF Scan, StateType
<1>8. SoftHits' # {} => \E p \in written' : soft'[p].dirty
  <2>1. SUFFICES ASSUME NEW p \in Page, SoftMatches(soft'[p])
                 PROVE  p \in written' /\ soft'[p].dirty
    BY DEF SoftHits
  <2>2. p \in SoftHits /\ SoftHits = written /\ written' = written
    BY <1>4, <2>1 DEF SoftHits, TrackedExactly, Scan
  <2> QED BY <2>1, <2>2 DEF SoftMatches
<1>9. NothingLeft' /\ TrackedExactly'
  BY <1>5, <1>6, <1>8 DEF NothingLeft, TrackedExactly
<1> QED BY <1>7, <1>9

----------------------------------------------------------------------------
(* Induction over the pages, from the least element of a set of naturals.  *)

(* Lemma: a set of naturals that is not empty has a least element.         *)
LEMMA LeastNat ==
  ASSUME NEW T \in SUBSET Nat, T # {}
  PROVE  \E n \in T : \A m \in T : n <= m
<1>1. PICK n \in T : \A m \in T : ~ (<<m, n>> \in OpToRel(<, Nat))
  BY WFMin, NatLessThanWellFounded
<1>2. \A m \in T : ~ (m < n)
  BY <1>1 DEF OpToRel
<1> QED BY <1>2

(* Lemma: a set that has 0 and the successor of each of its members has    *)
(* every natural number.                                                   *)
LEMMA SetInduction ==
  ASSUME NEW T \in SUBSET Nat, 0 \in T, \A n \in T : n + 1 \in T
  PROVE  T = Nat
<1> SUFFICES ASSUME Nat \ T # {} PROVE FALSE
  OBVIOUS
<1>1. PICK n \in Nat \ T : \A m \in Nat \ T : n <= m
  BY LeastNat
<1>2. n # 0 /\ n - 1 \in Nat /\ n - 1 \in T
  BY <1>1
<1> QED BY <1>1, <1>2

(* Lemma: the recursion of from_bitmap has a solution, so that what it     *)
(* defines is one.                                                         *)
ScanOf(marks, n, g) ==
  g = [i \in 0..n |-> IF i = 0 THEN NoRuns ELSE AfterPage(marks, g[i - 1], i - 1)]

LEMMA ScanExists ==
  ASSUME NEW marks, NEW N \in Nat
  PROVE  \E g : ScanOf(marks, N, g)
<1> DEFINE T == {n \in Nat : \E g : ScanOf(marks, n, g)}
<1>1. 0 \in T
  <2>1. ScanOf(marks, 0, [i \in 0..0 |-> NoRuns])
    BY DEF ScanOf
  <2> QED BY <2>1
<1>2. ASSUME NEW n \in T PROVE n + 1 \in T
  <2>1. PICK g : ScanOf(marks, n, g)
    OBVIOUS
  <2> DEFINE h == [i \in 0..n + 1 |->
                     IF i = n + 1 THEN AfterPage(marks, g[n], n) ELSE g[i]]
  <2>2. ASSUME NEW i \in 0..n + 1
        PROVE  h[i] = IF i = 0 THEN NoRuns ELSE AfterPage(marks, h[i - 1], i - 1)
    BY <2>1 DEF ScanOf
  <2>3. ScanOf(marks, n + 1, h)
    BY <2>2 DEF ScanOf
  <2> HIDE DEF h
  <2>4. \E f : ScanOf(marks, n + 1, f)
    BY <2>3
  <2> QED BY <2>4
<1>3. T = Nat
  <2> HIDE DEF T
  <2> QED BY <1>1, <1>2, SetInduction DEF T
<1> QED BY <1>3

(* Lemma: what from_bitmap returns is read off such a solution.            *)
LEMMA FromBitmapScan ==
  ASSUME NEW marks
  PROVE  \E g : ScanOf(marks, NumPages, g) /\ FromBitmap(marks) = RunClosed(g[NumPages])
<1>1. \E g : /\ FromBitmap(marks) = RunClosed(g[NumPages])
             /\ g = CHOOSE h : h = [i \in 0..NumPages |->
                  IF i = 0 THEN NoRuns ELSE AfterPage(marks, h[i - 1], i - 1)]
  BY DEF FromBitmap
<1>2. \E h : h = [i \in 0..NumPages |->
                  IF i = 0 THEN NoRuns ELSE AfterPage(marks, h[i - 1], i - 1)]
  BY ScanExists, PagesAssumption DEF ScanOf
<1> QED BY <1>1, <1>2 DEF ScanOf

----------------------------------------------------------------------------
(* Runs of marked pages.                                                   *)

(* The first pages of the runs of S, those before a page, and the end of   *)
(* the run that a page begins.                                             *)
Starts(S) == {a \in S : a - 1 \notin S}
Before(S, i) == {a \in Starts(S) : a < i}
IsEnd(S, a, b) == b \in a + 1..NumPages /\ b \notin S /\ \A p \in a..b - 1 : p \in S

(* The regions are the first runs of S, in their order.                    *)
FirstRuns(S, regions) ==
  \A k \in 1..Len(regions) :
    /\ regions[k].start \in Starts(S)
    /\ Cardinality(Before(S, regions[k].start)) = k - 1
    /\ IsEnd(S, regions[k].start, regions[k].end)

(* Lemma: the sets that are counted are finite.                            *)
LEMMA BeforeFinite ==
  ASSUME NEW S \in SUBSET Page, NEW i \in Int
  PROVE  /\ IsFiniteSet(Before(S, i)) /\ Cardinality(Before(S, i)) \in Nat
         /\ IsFiniteSet(Starts(S)) /\ Cardinality(Starts(S)) \in Nat
<1>1. IsFiniteSet(Page)
  BY FS_Interval, PagesAssumption DEF Page
<1>2. Before(S, i) \in SUBSET Page /\ Starts(S) \in SUBSET Page
  BY DEF Before, Starts
<1>3. IsFiniteSet(Before(S, i)) /\ IsFiniteSet(Starts(S))
  BY <1>1, <1>2, FS_Subset
<1> QED BY <1>3, FS_CardinalityType

(* Lemma: the runs that begin up to a start are one more than before it.   *)
LEMMA BeforeNext ==
  ASSUME NEW S \in SUBSET Page, NEW a \in Starts(S), NEW i \in Int, a < i,
         \A b \in Starts(S) : b < i => b <= a
  PROVE  Cardinality(Before(S, i)) = Cardinality(Before(S, a)) + 1
<1>1. a \in Int /\ \A b \in Starts(S) : b \in Int
  BY SizeType DEF Starts
<1>2. \A x, j : x \in Before(S, j) <=> x \in Starts(S) /\ x < j
  BY DEF Before
<1>3. a \notin Before(S, a)
  BY <1>1, <1>2
<1>4. ASSUME NEW x PROVE x \in Before(S, i) <=> x \in Before(S, a) \cup {a}
  <2>1. CASE x \in Starts(S)
    BY <2>1, <1>1, <1>2
  <2>2. CASE x \notin Starts(S)
    BY <2>2, <1>2
  <2> QED BY <2>1, <2>2
<1>5. Before(S, i) = Before(S, a) \cup {a}
  BY <1>4
<1> QED BY <1>1, <1>3, <1>5, BeforeFinite, FS_AddElement

(* Lemma: so a run is known by how many begin before it.                   *)
LEMMA BeforeUnique ==
  ASSUME NEW S \in SUBSET Page, NEW a \in Starts(S), NEW b \in Starts(S),
         Cardinality(Before(S, a)) = Cardinality(Before(S, b))
  PROVE  a = b
<1>1. a \in Int /\ b \in Int /\ \A c \in Starts(S) : c \in Int
  BY SizeType DEF Starts
<1>2. ASSUME NEW x \in Starts(S), NEW y \in Starts(S), x < y
      PROVE  Cardinality(Before(S, x)) < Cardinality(Before(S, y))
  <2>1. x \in Int /\ y \in Int
    BY <1>1
  <2>2. Before(S, x) \cup {x} \subseteq Before(S, y) /\ x \notin Before(S, x)
    <3>1. \A c, j : c \in Before(S, j) <=> c \in Starts(S) /\ c < j
      BY DEF Before
    <3>2. x \notin Before(S, x)
      BY <2>1, <3>1
    <3>3. ASSUME NEW c \in Before(S, x) \cup {x} PROVE c \in Before(S, y)
      <4>1. c \in Starts(S)
        BY <3>1
      <4> QED BY <1>1, <1>2, <3>1, <4>1
    <3> QED BY <3>2, <3>3
  <2>3. /\ IsFiniteSet(Before(S, x)) /\ Cardinality(Before(S, x)) \in Nat
        /\ IsFiniteSet(Before(S, y)) /\ Cardinality(Before(S, y)) \in Nat
    BY <2>1, BeforeFinite
  <2>4. Cardinality(Before(S, x) \cup {x}) = Cardinality(Before(S, x)) + 1
    BY <2>2, <2>3, FS_AddElement
  <2>5. Cardinality(Before(S, x) \cup {x}) <= Cardinality(Before(S, y))
    BY <2>2, <2>3, FS_Subset
  <2> QED BY <2>3, <2>4, <2>5
<1>3. /\ Cardinality(Before(S, a)) \in Nat /\ Cardinality(Before(S, b)) \in Nat
  BY <1>1, BeforeFinite
<1>4. ~(a < b) /\ ~(b < a)
  BY <1>2, <1>3
<1> QED BY <1>1, <1>4

(* Lemma: a run has one end.                                               *)
LEMMA EndUnique ==
  ASSUME NEW S \in SUBSET Page, NEW a \in Int, NEW b, NEW c, IsEnd(S, a, b), IsEnd(S, a, c)
  PROVE  b = c
<1>1. b \in Int /\ c \in Int /\ a < b /\ a < c
  BY PagesAssumption DEF IsEnd
<1>2. ~(b < c) /\ ~(c < b)
  BY <1>1 DEF IsEnd
<1> QED BY <1>1, <1>2

(* Lemma: what Append does.                                                *)
LEMMA AppendRegion ==
  ASSUME NEW regions \in Regions, NEW r \in [start : 0..NumPages, end : 0..NumPages]
  PROVE  /\ Append(regions, r) \in Regions
         /\ Len(regions) \in Nat
         /\ Len(Append(regions, r)) = Len(regions) + 1
         /\ \A k \in 1..Len(regions) : Append(regions, r)[k] = regions[k]
         /\ Append(regions, r)[Len(regions) + 1] = r
  BY DEF Regions

(* Lemma: each region is one.                                              *)
LEMMA RegionAt ==
  ASSUME NEW regions \in Regions, NEW k \in 1..Len(regions)
  PROVE  /\ regions[k] \in [start : 0..NumPages, end : 0..NumPages]
         /\ regions[k] = [start |-> regions[k].start, end |-> regions[k].end]
<1>1. regions[k] \in [start : 0..NumPages, end : 0..NumPages]
  BY ElementOfSeq DEF Regions
<1> QED BY <1>1

(* What the loop of from_bitmap knows before page i.                       *)
ScanInv(S, i, s) ==
  /\ s = [current |-> s.current, regions |-> s.regions]
  /\ s.regions \in Regions
  /\ FirstRuns(S, s.regions)
  /\ \/ /\ s.current = NoStart /\ i - 1 \notin S
        /\ Len(s.regions) = Cardinality(Before(S, i))
     \/ /\ s.current \in Starts(S) /\ s.current < i
        /\ \A p \in s.current..i - 1 : p \in S
        /\ Len(s.regions) = Cardinality(Before(S, s.current))

(* Lemma: closing the current run at a page that is not marked.            *)
LEMMA CloseRun ==
  ASSUME NEW S \in SUBSET Page, NEW i \in 0..NumPages, i \notin S,
         NEW regions \in Regions, FirstRuns(S, regions),
         NEW c \in Starts(S), c < i, \A p \in c..i - 1 : p \in S,
         Len(regions) = Cardinality(Before(S, c))
  PROVE  LET closed == Append(regions, Region(c, i))
         IN  /\ closed \in Regions
             /\ FirstRuns(S, closed)
             /\ \A j \in Int : (j > i /\ \A b \in Starts(S) : b < j => b <= i)
                  => Len(closed) = Cardinality(Before(S, j))
<1> DEFINE closed == Append(regions, Region(c, i))
<1>1. c \in Int /\ c \in 0..NumPages /\ i \in Int /\ \A b \in Starts(S) : b \in Int /\ b \in S
  BY SizeType, PagesAssumption DEF Starts, Page
<1>2. Region(c, i) \in [start : 0..NumPages, end : 0..NumPages]
  BY <1>1 DEF Region
<1>3. /\ closed \in Regions /\ Len(regions) \in Nat
      /\ Len(closed) = Len(regions) + 1
      /\ \A k \in 1..Len(regions) : closed[k] = regions[k]
      /\ closed[Len(regions) + 1] = Region(c, i)
  BY <1>2, AppendRegion
<1> HIDE DEF closed
<1>4. IsEnd(S, c, i)
  BY <1>1 DEF IsEnd
<1>5. FirstRuns(S, closed)
  <2> SUFFICES ASSUME NEW k \in 1..Len(closed)
               PROVE  /\ closed[k].start \in Starts(S)
                      /\ Cardinality(Before(S, closed[k].start)) = k - 1
                      /\ IsEnd(S, closed[k].start, closed[k].end)
    BY DEF FirstRuns
  <2>1. CASE k \in 1..Len(regions)
    BY <2>1, <1>3 DEF FirstRuns
  <2>2. CASE k = Len(regions) + 1
    <3>1. closed[k].start = c /\ closed[k].end = i
      BY <2>2, <1>3 DEF Region
    <3>2. k - 1 = Len(regions)
      BY <2>2, <1>3
    <3> QED BY <3>1, <3>2, <1>4
  <2> QED BY <2>1, <2>2, <1>3
<1>6. ASSUME NEW j \in Int, j > i, \A b \in Starts(S) : b < j => b <= i
      PROVE  Len(closed) = Cardinality(Before(S, j))
  <2>1. ASSUME NEW b \in Starts(S), b < j PROVE b <= c
    <3>1. SUFFICES ASSUME c < b PROVE FALSE
      BY <1>1
    <3>2. b <= i /\ b # i
      BY <1>1, <1>6, <2>1
    <3>3. b - 1 \in c..i - 1
      BY <1>1, <3>1, <3>2
    <3> QED BY <3>3 DEF Starts
  <2>2. Cardinality(Before(S, j)) = Cardinality(Before(S, c)) + 1
    BY <1>1, <1>6, <2>1, BeforeNext
  <2> QED BY <2>2, <1>3
<1> QED BY <1>3, <1>5, <1>6 DEF closed

(* Lemma: each page keeps it: a run begins, ends, goes on, or none is open.*)
LEMMA AfterPageInv ==
  ASSUME NEW S \in SUBSET Page, NEW i \in Page, NEW s, ScanInv(S, i, s)
  PROVE  ScanInv(S, i + 1, AfterPage(S, s, i))
<1>1. i \in Int /\ i \in 0..NumPages /\ NoStart \notin S /\ NoStart = -1
  BY SizeType, PagesAssumption DEF NoStart, Page
<1>2. CASE i \in S /\ s.current = NoStart
  <2>1. AfterPage(S, s, i) = [current |-> i, regions |-> s.regions]
    BY <1>2 DEF AfterPage, ScanInv
  <2>2. i \in Starts(S) /\ Len(s.regions) = Cardinality(Before(S, i))
    BY <1>1, <1>2 DEF ScanInv, Starts
  <2>3. \A p \in i..(i + 1) - 1 : p \in S
    BY <1>1, <1>2
  <2> QED BY <2>1, <2>2, <2>3, <1>1 DEF ScanInv
<1>3. CASE i \notin S /\ s.current # NoStart
  <2> DEFINE closed == Append(s.regions, Region(s.current, i))
  <2>1. AfterPage(S, s, i) = [current |-> NoStart, regions |-> closed]
    BY <1>3 DEF AfterPage
  <2>2. /\ closed \in Regions /\ FirstRuns(S, closed)
        /\ \A j \in Int : (j > i /\ \A b \in Starts(S) : b < j => b <= i)
             => Len(closed) = Cardinality(Before(S, j))
    BY <1>1, <1>3, CloseRun DEF ScanInv
  <2>3. \A b \in Starts(S) : b < i + 1 => b <= i
    BY <1>1, SizeType DEF Starts
  <2>4. Len(closed) = Cardinality(Before(S, i + 1))
    BY <2>2, <2>3, <1>1
  <2> HIDE DEF closed
  <2>5. (i + 1) - 1 \notin S
    BY <1>1, <1>3
  <2> QED BY <2>1, <2>2, <2>4, <2>5 DEF ScanInv
<1>4. CASE i \in S /\ s.current # NoStart
  <2>1. AfterPage(S, s, i) = s
    BY <1>4 DEF AfterPage
  <2>2. s.current \in Int
    BY <1>4, SizeType DEF ScanInv, Starts
  <2>3. \A p \in s.current..(i + 1) - 1 : p \in s.current..i - 1 \/ p = i
    BY <1>1, <2>2
  <2> QED BY <2>1, <2>2, <2>3, <1>1, <1>4 DEF ScanInv
<1>5. CASE i \notin S /\ s.current = NoStart
  <2>1. AfterPage(S, s, i) = s
    BY <1>5 DEF AfterPage
  <2>2. \A b \in Starts(S) : b \in Int /\ b # i
    BY <1>5, SizeType DEF Starts
  <2>3. Before(S, i + 1) = Before(S, i)
    BY <1>1, <2>2 DEF Before
  <2>4. s.current \notin Starts(S)
    BY <1>1, <1>5 DEF Starts
  <2>5. (i + 1) - 1 \notin S
    BY <1>1, <1>5
  <2> QED BY <2>1, <2>3, <2>4, <2>5 DEF ScanInv
<1> QED BY <1>2, <1>3, <1>4, <1>5

(* Lemma: from_bitmap finds all runs of the marked pages, in order.        *)
LEMMA FromBitmapRuns ==
  ASSUME NEW S \in SUBSET Page
  PROVE  /\ FromBitmap(S) \in Regions
         /\ Len(FromBitmap(S)) = Cardinality(Starts(S))
         /\ FirstRuns(S, FromBitmap(S))
<1>1. PICK g : ScanOf(S, NumPages, g) /\ FromBitmap(S) = RunClosed(g[NumPages])
  BY FromBitmapScan
<1>2. /\ g[0] = NoRuns
      /\ \A i \in Page : g[i + 1] = AfterPage(S, g[i], i)
  <2>1. \A i \in 0..NumPages :
          g[i] = IF i = 0 THEN NoRuns ELSE AfterPage(S, g[i - 1], i - 1)
    BY <1>1 DEF ScanOf
  <2>2. g[0] = NoRuns
    BY <2>1, PagesAssumption
  <2>3. ASSUME NEW i \in Page PROVE g[i + 1] = AfterPage(S, g[i], i)
    <3>1. i + 1 \in 0..NumPages /\ i + 1 # 0 /\ (i + 1) - 1 = i
      BY PagesAssumption DEF Page
    <3> QED BY <2>1, <3>1
  <2> QED BY <2>2, <2>3
<1>3. \A c \in Starts(S) : c \in Int /\ 0 <= c /\ c < NumPages
  BY PagesAssumption DEF Starts, Page
<1> DEFINE T == {i \in Nat : i <= NumPages => ScanInv(S, i, g[i])}
<1>4. 0 \in T
  <2>1. NoRuns.regions = <<>> /\ NoRuns.current = NoStart
    BY DEF NoRuns
  <2>2. Before(S, 0) = {}
    BY <1>3 DEF Before
  <2>3. 0 - 1 \notin S
    BY SizeType
  <2>4. <<>> \in Regions /\ Len(<<>>) = 0
    BY DEF Regions
  <2>5. FirstRuns(S, <<>>)
    BY <2>4 DEF FirstRuns
  <2>6. ScanInv(S, 0, NoRuns)
    BY <2>1, <2>2, <2>3, <2>4, <2>5, FS_EmptySet DEF ScanInv, NoRuns
  <2> QED BY <1>2, <2>6
<1>5. ASSUME NEW i \in T PROVE i + 1 \in T
  <2>1. SUFFICES ASSUME i + 1 <= NumPages PROVE ScanInv(S, i + 1, g[i + 1])
    OBVIOUS
  <2>2. i \in Page /\ ScanInv(S, i, g[i])
    BY <2>1, PagesAssumption DEF Page
  <2> QED BY <1>2, <2>2, AfterPageInv
<1>6. ScanInv(S, NumPages, g[NumPages])
  <2>1. T = Nat
    <3> HIDE DEF T
    <3> QED BY <1>4, <1>5, SetInduction DEF T
  <2> QED BY <2>1, PagesAssumption
<1> DEFINE s == g[NumPages]
<1>7. NumPages \in Int /\ NumPages \in 0..NumPages /\ NumPages \notin S
  BY PagesAssumption DEF Page
<1>8. CASE s.current = NoStart
  <2>1. FromBitmap(S) = s.regions
    BY <1>1, <1>8 DEF RunClosed
  <2>2. Before(S, NumPages) = Starts(S)
    BY <1>3 DEF Before
  <2>3. s.current \notin Starts(S)
    BY <1>3, <1>8 DEF NoStart
  <2> QED BY <1>6, <2>1, <2>2, <2>3 DEF ScanInv
<1>9. CASE s.current # NoStart
  <2>1. FromBitmap(S) = Append(s.regions, Region(s.current, NumPages))
    BY <1>1, <1>9 DEF RunClosed
  <2>2. Before(S, NumPages + 1) = Starts(S)
    BY <1>3, <1>7 DEF Before
  <2>3. /\ FromBitmap(S) \in Regions /\ FirstRuns(S, FromBitmap(S))
        /\ \A j \in Int : (j > NumPages /\ \A b \in Starts(S) : b < j => b <= NumPages)
             => Len(FromBitmap(S)) = Cardinality(Before(S, j))
    BY <1>6, <1>7, <1>9, <2>1, CloseRun DEF ScanInv
  <2>4. Len(FromBitmap(S)) = Cardinality(Before(S, NumPages + 1))
    BY <1>3, <1>7, <2>3
  <2> QED BY <2>2, <2>3, <2>4
<1> QED BY <1>8, <1>9

(* Lemma: PAGEMAP_SCAN reports the same regions, if all pages it finds     *)
(* have the same categories.                                               *)
LEMMA ScanRegionsRuns ==
  ASSUME NEW S \in SUBSET Page, NEW t, \A p \in S : t[p].dirty = TRUE
  PROVE  ScanRegions(t, S) = FromBitmap(S)
<1> DEFINE Joined(p) == p \in S /\ p + 1 \in S /\ t[p].dirty = t[p + 1].dirty
           starts == {p \in S : ~Joined(p - 1)}
           EndOf(a) == CHOOSE b \in a + 1..NumPages :
                         ~Joined(b - 1) /\ \A p \in a..b - 2 : Joined(p)
           Nth(k) == CHOOSE a \in starts : Cardinality({q \in starts : q < a}) = k - 1
           R == FromBitmap(S)
<1>1. ScanRegions(t, S) = [k \in 1..Cardinality(starts) |-> Region(Nth(k), EndOf(Nth(k)))]
  BY DEF ScanRegions
<1>2. \A p : Joined(p) <=> p \in S /\ p + 1 \in S
  OBVIOUS
<1>3. \A p \in S : p \in Int /\ p <= NumPages - 1
  BY PagesAssumption DEF Page
<1> HIDE DEF Joined
<1>4. starts = Starts(S)
  BY <1>2, <1>3 DEF Starts
<1>5. \A a : {q \in starts : q < a} = Before(S, a)
  BY <1>4 DEF Before
<1>6. R \in Regions /\ Len(R) = Cardinality(Starts(S)) /\ FirstRuns(S, R)
  BY FromBitmapRuns
<1> HIDE DEF starts, R
<1>7. ASSUME NEW a \in Starts(S), NEW b
      PROVE  (b \in a + 1..NumPages /\ ~Joined(b - 1) /\ \A p \in a..b - 2 : Joined(p))
               <=> IsEnd(S, a, b)
  <2>1. a \in S /\ a \in Int
    BY <1>3 DEF Starts
  <2>2. ASSUME IsEnd(S, a, b)
        PROVE  b \in a + 1..NumPages /\ ~Joined(b - 1) /\ \A p \in a..b - 2 : Joined(p)
    <3>1. b \in a + 1..NumPages /\ b \notin S /\ b \in Int /\ (b - 1) + 1 = b
      BY <2>1, <2>2, PagesAssumption DEF IsEnd
    <3>2. ASSUME NEW p \in a..b - 2 PROVE Joined(p)
      <4>1. p \in a..b - 1 /\ p + 1 \in a..b - 1
        BY <2>1, <3>1
      <4> QED BY <4>1, <2>2, <1>2 DEF IsEnd
    <3> QED BY <3>1, <3>2, <1>2
  <2>3. ASSUME b \in a + 1..NumPages, ~Joined(b - 1), \A p \in a..b - 2 : Joined(p)
        PROVE  IsEnd(S, a, b)
    <3>1. b \in Int /\ a < b /\ (b - 1) + 1 = b
      BY <2>1, <2>3, PagesAssumption
    <3>2. ASSUME NEW p \in a..b - 1 PROVE p \in S
      <4>1. CASE p = a
        BY <4>1, <2>1
      <4>2. CASE p # a
        <5>1. p - 1 \in a..b - 2 /\ (p - 1) + 1 = p
          BY <4>2, <2>1, <3>1
        <5> QED BY <5>1, <2>3, <1>2
      <4> QED BY <4>1, <4>2
    <3>3. b \notin S
      <4>1. b - 1 \in S
        BY <2>1, <3>1, <3>2
      <4> QED BY <4>1, <3>1, <2>3, <1>2
    <3> QED BY <2>3, <3>2, <3>3 DEF IsEnd
  <2> QED BY <2>2, <2>3
<1>8. ASSUME NEW k \in 1..Len(R)
      PROVE  Region(Nth(k), EndOf(Nth(k))) = R[k]
  <2>1. /\ R[k].start \in Starts(S)
        /\ Cardinality(Before(S, R[k].start)) = k - 1
        /\ IsEnd(S, R[k].start, R[k].end)
    BY <1>6 DEF FirstRuns
  <2>2. Nth(k) = R[k].start
    <3>1. Nth(k) = CHOOSE a \in Starts(S) : Cardinality(Before(S, a)) = k - 1
      BY <1>4, <1>5
    <3> HIDE DEF Nth
    <3>2. Nth(k) \in Starts(S) /\ Cardinality(Before(S, Nth(k))) = k - 1
      BY <2>1, <3>1
    <3> QED BY <2>1, <3>2, BeforeUnique
  <2> HIDE DEF Nth
  <2>3. EndOf(R[k].start) = R[k].end
    <3>1. R[k].end \in R[k].start + 1..NumPages
      BY <2>1 DEF IsEnd
    <3>2. IsEnd(S, R[k].start, EndOf(R[k].start))
      BY <2>1, <3>1, <1>7
    <3> HIDE DEF EndOf
    <3>3. R[k].start \in Int
      BY <2>1, <1>3 DEF Starts
    <3> QED BY <2>1, <3>2, <3>3, EndUnique
  <2> HIDE DEF EndOf
  <2>4. R[k] = [start |-> R[k].start, end |-> R[k].end]
    BY <1>6, RegionAt
  <2> QED BY <2>2, <2>3, <2>4 DEF Region
<1> HIDE DEF Nth, EndOf
<1>9. R = [k \in 1..Len(R) |-> R[k]]
  BY <1>6 DEF Regions
<1> QED BY <1>1, <1>4, <1>6, <1>8, <1>9 DEF R

----------------------------------------------------------------------------
(* The scans of a run.                                                     *)

(* A page written in a run is a page of its own, and soft-dirty, so that   *)
(* all pages that a scan finds have the same categories.                   *)
WrittenDirty ==
  phase = "harness" =>
    \A p \in written : uffd[p] = Pte("page", FALSE, TRUE) /\ soft[p] = Pte("page", FALSE, TRUE)

RunInv == IInv /\ TypeOK /\ WrittenDirty /\ ScansAgree

(* Lemma: what each step leaves of the pages written.                      *)
LEMMA AccessDirty ==
  ASSUME NEW t \in Tables, NEW R \in SUBSET Page, NEW F, NEW W \in SUBSET Page,
         NEW p \in Page, p \in W \/ t[p] = Pte("page", FALSE, TRUE)
  PROVE  Store(Load(t, R, F), W)[p] = Pte("page", FALSE, TRUE)
<1>1. CASE p \in W
  BY <1>1 DEF Store
<1>2. CASE p \notin W
  <2>1. Load(t, R, F)[p] = t[p]
    BY <1>2 DEF Load, Pte
  <2> QED BY <1>2, <2>1 DEF Store
<1> QED BY <1>1, <1>2

(* Lemma: each action keeps the invariant, the scan because all three find *)
(* the pages written and make the same regions of them.                    *)
LEMMA ScanRunInv ==
  ASSUME RunInv, Scan
  PROVE  RunInv'
<1>1. IInv'
  BY ScanIInv DEF RunInv
<1>2. /\ UffdHits = written /\ SoftHits = written /\ bitmap = written
      /\ written \in SUBSET Page /\ phase = "harness"
  BY DEF RunInv, IInv, TrackedExactly, Scan, StateType
<1>3. /\ \A p \in written : uffd[p].dirty = TRUE
      /\ \A p \in written : soft[p].dirty = TRUE
  BY <1>2 DEF RunInv, WrittenDirty, Pte
<1>4. /\ ScanRegions(uffd, UffdHits) = FromBitmap(written)
      /\ ScanRegions(soft, SoftHits) = FromBitmap(written)
      /\ FromBitmap(bitmap) = FromBitmap(written)
      /\ FromBitmap(written) \in Regions
  BY <1>2, <1>3, ScanRegionsRuns, FromBitmapRuns
<1>5. /\ scans'.uffd = FromBitmap(written) /\ scans'.soft = FromBitmap(written)
      /\ scans'.emulated = FromBitmap(written)
      /\ scans' \in [uffd : Regions, soft : Regions, emulated : Regions]
  BY <1>4 DEF Scan
<1>6. TypeOK'
  BY <1>1, <1>5 DEF Scan, RunInv, TypeOK, IInv, StateType
<1>7. WrittenDirty'
  BY DEF Scan, WrittenDirty
<1>8. ScansAgree'
  BY <1>5 DEF ScansAgree, ValidRun
<1> QED BY <1>1, <1>6, <1>7, <1>8 DEF RunInv

LEMMA AccessRunInv ==
  ASSUME RunInv, Access
  PROVE  RunInv'
<1>1. IInv'
  BY AccessIInv DEF RunInv
<1>2. /\ uffd \in Tables /\ soft \in Tables /\ written \in SUBSET Page
      /\ pos.read \in Int /\ pos.write \in Int
      /\ phase = "harness" /\ ops < MaxOps /\ ops \in 0..MaxOps
  BY DEF RunInv, TypeOK, Access
<1>3. scans' = scans
  BY DEF Access
<1>4. ops' \in 0..MaxOps
  BY <1>2, OpsAssumption DEF Access
<1>5. TypeOK'
  BY <1>1, <1>3, <1>4 DEF RunInv, TypeOK, IInv, StateType
<1>6. WrittenDirty'
  <2>1. PICK ro \in Offsets, wo \in Offsets, rl \in Lens, wl \in Lens :
          LET r == Subrange(pos.read, ro, rl)
              w == Subrange(pos.write, wo, wl)
          IN \/ phase' = "stray"
             \/ /\ InBuffer(r) /\ InBuffer(w)
                /\ \E fresh, fresh2 \in SUBSET PagesOf(r) :
                     /\ uffd' = Store(Load(uffd, PagesOf(r), fresh), PagesOf(w))
                     /\ soft' = Store(Load(soft, PagesOf(r), fresh2), PagesOf(w))
                /\ written' = written \cup PagesOf(w)
    BY DEF Access
  <2> DEFINE r == Subrange(pos.read, ro, rl)
             w == Subrange(pos.write, wo, wl)
  <2>2. ro \in Int /\ wo \in Int /\ rl \in 0..3 /\ wl \in 0..3
    BY OffsetsAssumption, LensAssumption
  <2>3. PICK s \in Int, n \in {1, 2, 4, 8} : r = [start |-> s, end |-> s + n]
    BY <1>2, <2>2, SubrangeIs
  <2>4. PICK s2 \in Int, n2 \in {1, 2, 4, 8} : w = [start |-> s2, end |-> s2 + n2]
    BY <1>2, <2>2, SubrangeIs
  <2> HIDE DEF r, w
  <2>5. CASE phase' = "stray"
    BY <2>5 DEF WrittenDirty
  <2>6. CASE /\ InBuffer(r) /\ InBuffer(w)
             /\ \E fresh, fresh2 \in SUBSET PagesOf(r) :
                  /\ uffd' = Store(Load(uffd, PagesOf(r), fresh), PagesOf(w))
                  /\ soft' = Store(Load(soft, PagesOf(r), fresh2), PagesOf(w))
             /\ written' = written \cup PagesOf(w)
    <3>1. PagesOf(r) \in SUBSET Page /\ PagesOf(w) \in SUBSET Page
      BY <2>3, <2>4, <2>6, MarksPages
    <3>2. /\ \A p \in written : uffd[p] = Pte("page", FALSE, TRUE)
          /\ \A p \in written : soft[p] = Pte("page", FALSE, TRUE)
      BY <1>2 DEF RunInv, WrittenDirty
    <3>3. /\ \A p \in written \cup PagesOf(w) : uffd'[p] = Pte("page", FALSE, TRUE)
          /\ \A p \in written \cup PagesOf(w) : soft'[p] = Pte("page", FALSE, TRUE)
      <4>1. PICK fresh \in SUBSET PagesOf(r), fresh2 \in SUBSET PagesOf(r) :
              /\ uffd' = Store(Load(uffd, PagesOf(r), fresh), PagesOf(w))
              /\ soft' = Store(Load(soft, PagesOf(r), fresh2), PagesOf(w))
        BY <2>6
      <4>2. ASSUME NEW p \in written \cup PagesOf(w)
            PROVE  /\ uffd'[p] = Pte("page", FALSE, TRUE)
                   /\ soft'[p] = Pte("page", FALSE, TRUE)
        <5>1. /\ p \in Page
              /\ p \in PagesOf(w) \/ uffd[p] = Pte("page", FALSE, TRUE)
              /\ p \in PagesOf(w) \/ soft[p] = Pte("page", FALSE, TRUE)
              /\ uffd \in Tables /\ soft \in Tables
              /\ PagesOf(r) \in SUBSET Page /\ PagesOf(w) \in SUBSET Page
          BY <1>2, <3>1, <3>2
        <5>2. Store(Load(uffd, PagesOf(r), fresh), PagesOf(w))[p] = Pte("page", FALSE, TRUE)
          BY <5>1, AccessDirty
        <5>3. Store(Load(soft, PagesOf(r), fresh2), PagesOf(w))[p] = Pte("page", FALSE, TRUE)
          BY <5>1, AccessDirty
        <5> QED BY <4>1, <5>2, <5>3
      <4> QED BY <4>2
    <3> QED BY <2>6, <3>3 DEF WrittenDirty
  <2> QED BY <2>1, <2>5, <2>6 DEF r, w
<1>7. ScansAgree'
  <2>1. phase' \in {"harness", "stray"}
    BY <1>2 DEF Access
  <2> QED BY <2>1 DEF ScansAgree
<1> QED BY <1>1, <1>5, <1>6, <1>7 DEF RunInv

LEMMA BeginRunRunInv ==
  ASSUME RunInv, BeginRun
  PROVE  RunInv'
<1>1. IInv'
  BY BeginRunIInv DEF RunInv
<1>2. TypeOK'
  BY <1>1, OpsAssumption DEF BeginRun, RunInv, TypeOK, IInv, StateType
<1>3. WrittenDirty' /\ ScansAgree'
  BY DEF BeginRun, WrittenDirty, ScansAgree
<1> QED BY <1>1, <1>2, <1>3 DEF RunInv

LEMMA InitRunInv == Init => RunInv
<1> SUFFICES ASSUME Init PROVE RunInv
  OBVIOUS
<1>1. IInv
  BY InitIInv
<1>2. scans \in [uffd : Regions, soft : Regions, emulated : Regions]
  <2>1. <<>> \in Regions
    BY DEF Regions
  <2> QED BY <2>1 DEF Init
<1>3. TypeOK
  BY <1>1, <1>2, OpsAssumption DEF Init, TypeOK, IInv, StateType
<1> QED BY <1>1, <1>3 DEF Init, RunInv, WrittenDirty, ScansAgree

LEMMA NextRunInv == RunInv /\ [Next]_vars => RunInv'
<1> SUFFICES ASSUME RunInv, [Next]_vars PROVE RunInv'
  OBVIOUS
<1>1. CASE BeginRun
  BY <1>1, BeginRunRunInv
<1>2. CASE Access
  BY <1>2, AccessRunInv
<1>3. CASE Scan
  BY <1>3, ScanRunInv
<1>4. CASE Stopped \/ UNCHANGED vars
  <2>1. UNCHANGED vars
    BY <1>4 DEF Stopped
  <2> QED BY <2>1 DEF vars, RunInv, IInv, StateType, NothingLeft, TrackedExactly,
                      UffdHits, SoftHits, TypeOK, WrittenDirty, ScansAgree
<1> QED BY <1>1, <1>2, <1>3, <1>4 DEF Next

----------------------------------------------------------------------------
(* Theorems.                                                               *)

(* Theorem: between scans of any number of runs, write protection,         *)
(* soft-dirty bits and the bitmap each hold exactly the pages written in   *)
(* the run, whichever bits the kernel leaves when it clears them, and of   *)
(* the assertions about the reset state only that of the soft-dirty bits   *)
(* can fail.                                                               *)
THEOREM TrackedAlways == Spec => []TrackedExactly
<1>1. RunInv => TrackedExactly
  BY DEF RunInv, IInv
<1> QED BY <1>1, InitRunInv, NextRunInv, PTL DEF Spec

(* Theorem: page tables, bitmap and scans keep their types; every region   *)
(* of a scan lies within the buffer.                                       *)
THEOREM TrackersTypeCorrect == Spec => []TypeOK
<1>1. RunInv => TypeOK
  BY DEF RunInv
<1> QED BY <1>1, InitRunInv, NextRunInv, PTL DEF Spec

(* Theorem: the comparison of the scripts never fails: in every run the    *)
(* regions that PAGEMAP_SCAN reports are those that from_bitmap makes of   *)
(* the marks, in the same order, for write protection and soft-dirty bits. *)
THEOREM ScansAlwaysAgree == Spec => []ScansAgree
<1>1. RunInv => ScansAgree
  BY DEF RunInv
<1> QED BY <1>1, InitRunInv, NextRunInv, PTL DEF Spec
=============================================================================
