----------------------------- MODULE DirtyPages -----------------------------
(***************************************************************************)
(* The dirty-page trackers of the snapshot benchmark (snapshot): write     *)
(* protection through userfaultfd with PAGEMAP_SCAN, the kernel's          *)
(* soft-dirty bits, and a bitmap that the generated code keeps (emulated). *)
(*                                                                         *)
(* Each is measured in a process of its own, but all processes draw the    *)
(* same accesses from the same seed, and the scripts around the benchmark  *)
(* compare their scans run by run.  So the three are modelled side by      *)
(* side, doing the same accesses.                                          *)
(*                                                                         *)
(* The kernel is external: a page-table entry here has what PAGEMAP_SCAN   *)
(* tells of it.  Pages are not swapped out and are not huge.               *)
(***************************************************************************)
EXTENDS Integers, Sequences, FiniteSets

CONSTANTS
  NumPages,  (* pages of the buffer                                        *)
  PageSize,  (* bytes of a page                                            *)
  Offsets,   (* steps of the random walk, as sampled and rounded           *)
  Lens,      (* log2 of the length of an access, as sampled and clamped    *)
  MaxOps     (* bound of the checked instances: accesses in a run          *)

ASSUME PagesAssumption == NumPages \in Nat \ {0}
(* No access is longer than a page.                                        *)
ASSUME PageSizeAssumption == PageSize \in Nat /\ PageSize >= 8
ASSUME OffsetsAssumption == Offsets \subseteq Int
ASSUME LensAssumption == Lens \subseteq 0..3
ASSUME OpsAssumption == MaxOps \in Nat

Size == NumPages * PageSize
Page == 0..(NumPages - 1)
PageOf(b) == b \div PageSize

VARIABLES
  phase,     (* idle, harness, scanned; stray when the generated code      *)
             (* accesses what is not in the buffer, failed when an         *)
             (* assertion about the reset state fails                      *)
  pos,       (* read_start and write_start                                 *)
  ops,       (* accesses done in this run                                  *)
  uffd,      (* page table of the process of each kernel strategy          *)
  soft,
  bitmap,    (* pages marked in the bitmap of the emulated strategy        *)
  written,   (* pages written in this run                                  *)
  scans      (* the regions each strategy has found in this run            *)

vars == <<phase, pos, ops, uffd, soft, bitmap, written, scans>>

----------------------------------------------------------------------------
(* Page tables.                                                            *)

Pte(s, p, d) == [state |-> s, protected |-> p, dirty |-> d]
PteSet == [state : {"none", "zero", "page"}, protected : BOOLEAN, dirty : BOOLEAN]
Tables == [Page -> PteSet]
Regions == Seq([start : 0..NumPages, end : 0..NumPages])

TypeOK ==
  /\ phase \in {"idle", "harness", "scanned", "stray", "failed"}
  /\ pos \in [read : Int, write : Int]
  /\ ops \in 0..MaxOps
  /\ uffd \in Tables /\ soft \in Tables
  /\ bitmap \subseteq Page /\ written \subseteq Page
  /\ scans \in [uffd : Regions, soft : Regions, emulated : Regions]

Start == [read |-> Size \div 2, write |-> Size \div 2]

Init ==
  /\ phase = "idle"
  /\ pos = Start
  /\ ops = 0
  /\ uffd = [p \in Page |-> Pte("none", FALSE, FALSE)]
  /\ soft = [p \in Page |-> Pte("none", FALSE, FALSE)]
  /\ bitmap = {} /\ written = {}
  /\ scans = [uffd |-> <<>>, soft |-> <<>>, emulated |-> <<>>]

(* A first read maps the zero page, and some newly mapped pages (fresh)    *)
(* are soft-dirty; a write faults a page of its own in, which is           *)
(* soft-dirty, and lifts an asynchronous write protection.                 *)
Load(t, pages, fresh) ==
  [p \in Page |-> IF p \in pages /\ t[p].state = "none"
                  THEN Pte("zero", FALSE, p \in fresh) ELSE t[p]]
Store(t, pages) ==
  [p \in Page |-> IF p \in pages THEN Pte("page", FALSE, TRUE) ELSE t[p]]
(* Writing 4 to clear_refs: "it sometimes clears and sometimes it          *)
(* doesn't" (main.rs), so some pages keep their bit.                       *)
ClearSoftDirty(t, kept) ==
  [p \in Page |-> [t[p] EXCEPT !.dirty = @ /\ p \in kept]]
SoftDirty(t) == {p \in Page : t[p].dirty}
Protect(t, pages) ==
  [p \in Page |-> IF p \in pages THEN [t[p] EXCEPT !.protected = TRUE] ELSE t[p]]

(* The category WRITTEN: mapped and not write-protected.                   *)
Written(e) == e.state # "none" /\ ~e.protected
(* Fault: PFNZERO is not inverted, so it does not filter.                  *)
UffdMatchesZero(e) == Written(e)
UffdMatches(e) == Written(e) /\ e.state # "zero"
(* Fault: the mask has no SOFT_DIRTY.                                      *)
SoftMatchesWritten(e) == Written(e) /\ e.state # "zero"
SoftMatches(e) == e.dirty /\ Written(e) /\ e.state # "zero"

(* The pages that match, and whether each is reported as SOFT_DIRTY.       *)
UffdHits == {p \in Page : UffdMatches(uffd[p])}
SoftHits == {p \in Page : SoftMatches(soft[p])}

Region(a, b) == [start |-> a, end |-> b]

(* PAGEMAP_SCAN puts neighbours with equal categories into one region.     *)
(* The vector has room for a region per page, so one call is enough.       *)
ScanRegions(t, hits) ==
  LET Joined(p) == p \in hits /\ p + 1 \in hits /\ t[p].dirty = t[p + 1].dirty
      starts == {p \in hits : ~Joined(p - 1)}
      EndOf(a) == CHOOSE b \in a + 1..NumPages :
                    ~Joined(b - 1) /\ \A p \in a..b - 2 : Joined(p)
      Nth(k) == CHOOSE a \in starts : Cardinality({s \in starts : s < a}) = k - 1
  IN [k \in 1..Cardinality(starts) |-> Region(Nth(k), EndOf(Nth(k)))]

(* PageMapScanResult::from_bitmap.                                         *)
NoStart == -1
(* Fault: a run that reaches the end of the bitmap is dropped.             *)
RunLost(s) == s.regions
RunClosed(s) ==
  IF s.current = NoStart THEN s.regions
  ELSE Append(s.regions, Region(s.current, NumPages))

(* What page i does to the runs found before it.                           *)
NoRuns == [current |-> NoStart, regions |-> <<>>]
AfterPage(marks, s, i) ==
  CASE i \in marks /\ s.current = NoStart -> [s EXCEPT !.current = i]
    [] i \notin marks /\ s.current # NoStart ->
         [current |-> NoStart,
          regions |-> Append(s.regions, Region(s.current, i))]
    [] OTHER -> s

FromBitmap(marks) ==
  LET scan[i \in 0..NumPages] ==
        IF i = 0 THEN NoRuns ELSE AfterPage(marks, scan[i - 1], i - 1)
  IN RunClosed(scan[NumPages])

----------------------------------------------------------------------------
(* The harness.                                                            *)

(* get_random_subrange.  The remainder has the sign of what is divided.    *)
Rem(a, b) == IF a >= 0 THEN a % b ELSE -((-a) % b)
Lesser(a, b) == IF a < b THEN a ELSE b
RangeStart(from, offset) == Rem(from + offset, Size)
(* 1 << k.                                                                 *)
Bytes == <<1, 2, 4, 8>>
Subrange(from, offset, len) ==
  LET s == RangeStart(from, offset)
  IN [start |-> s, end |-> s + Bytes[1 + Lesser(Size - s, len)]]
InBuffer(r) == r.start >= 0 /\ r.end <= Size

PagesOf(r) == {PageOf(b) : b \in r.start..r.end - 1}

(* The code generated for a write marks its first page and its last.       *)
(* Fault: only the first; or the page of the byte after the last.          *)
FirstMarked(r) == {PageOf(r.start)}
NextMarked(r) == {PageOf(r.start), PageOf(r.end)}
Marked(r) == {PageOf(r.start), PageOf(r.end - 1)}

(* touch_pages reads every page, unless the optimizer removes the loads,   *)
(* whose values are not used.  The bitmap is new in each run.              *)
(* Fault: the bitmap of the last run is used on.                           *)
BitmapKept == bitmap
FreshBitmap == {}

BeginRun ==
  /\ phase \in {"idle", "scanned"}
  /\ phase' = "harness"
  /\ pos' = Start
  /\ ops' = 0
  /\ \E touched \in {{}, Page}, fresh, kept \in SUBSET Page :
       soft' = ClearSoftDirty(Load(soft, touched, fresh), kept)
  /\ bitmap' = FreshBitmap
  /\ written' = {}
  /\ UNCHANGED <<uffd, scans>>

(* One read and one write of the random walks.                             *)
Access ==
  /\ phase = "harness" /\ ops < MaxOps
  /\ \E ro, wo \in Offsets, rl, wl \in Lens :
       LET r == Subrange(pos.read, ro, rl)
           w == Subrange(pos.write, wo, wl)
       IN IF InBuffer(r) /\ InBuffer(w)
          THEN /\ pos' = [read |-> r.start, write |-> w.start]
               /\ ops' = ops + 1
               /\ \E fresh, fresh2 \in SUBSET PagesOf(r) :
                    /\ uffd' = Store(Load(uffd, PagesOf(r), fresh), PagesOf(w))
                    /\ soft' = Store(Load(soft, PagesOf(r), fresh2), PagesOf(w))
               /\ bitmap' = bitmap \cup Marked(w)
               /\ written' = written \cup PagesOf(w)
               /\ UNCHANGED <<phase, scans>>
          ELSE /\ phase' = "stray"
               /\ UNCHANGED <<pos, ops, uffd, soft, bitmap, written, scans>>

(* Fault: the scan does not protect the pages it finds.                    *)
ScanOnly(t, hits, kept) == ClearSoftDirty(t, kept)
(* The scan protects what it finds; then soft-dirty bits are cleared.      *)
ScanAndProtect(t, hits, kept) == ClearSoftDirty(Protect(t, hits), kept)

(* Each strategy takes its scan and resets its bits, and the kernel's two  *)
(* assert that nothing is left.                                            *)
Scan ==
  /\ phase = "harness"
  /\ scans' = [uffd |-> ScanRegions(uffd, UffdHits),
               soft |-> ScanRegions(soft, SoftHits),
               emulated |-> FromBitmap(bitmap)]
  /\ \E kept \in SUBSET SoftDirty(uffd) : uffd' = ScanAndProtect(uffd, UffdHits, kept)
  /\ \E kept \in SUBSET SoftDirty(soft) : soft' = ClearSoftDirty(soft, kept)
  /\ phase' = IF UffdHits' = {} /\ SoftHits' = {} THEN "scanned" ELSE "failed"
  /\ UNCHANGED <<pos, ops, bitmap, written>>

Stopped == phase \in {"stray", "failed"} /\ UNCHANGED vars

Next == BeginRun \/ Access \/ Scan \/ Stopped

Spec == Init /\ [][Next]_vars

----------------------------------------------------------------------------
(* Properties.                                                             *)

(* validate_run, by which the scripts compare the scans of a run.  The     *)
(* bounds of the walk, which are in the scans too, are those of the        *)
(* buffer, which has whole pages.                                          *)
DirtyPagesOf(regions) ==
  UNION {regions[k].start..regions[k].end - 1 : k \in DOMAIN regions}
ValidRun(u, e, s) == u = e /\ DirtyPagesOf(u) \subseteq DirtyPagesOf(s)

(* The comparison of the scripts never fails: write protection and bitmap  *)
(* give the same regions in every run, and soft-dirty bits at least their  *)
(* pages, whatever earlier runs have read and written.                     *)
ScansAgree == phase = "scanned" => ValidRun(scans.uffd, scans.emulated, scans.soft)

(* What a scan would find is what was written since the last one, in the   *)
(* middle of a run too: no strategy loses a page, reports one of an        *)
(* earlier run, or takes a page for dirty that was only read.  This is so  *)
(* although soft-dirty bits may stay when they are cleared: those of pages *)
(* that were only read are filtered, and one of a page that was written    *)
(* ends the process by the assertion about the reset state.  That is the   *)
(* only way to fail: the assertion of write protection never does.         *)
TrackedExactly ==
  /\ phase = "harness" =>
       UffdHits = written /\ SoftHits = written /\ bitmap = written
  /\ phase = "failed" => UffdHits = {} /\ \E p \in written : soft[p].dirty

(* "Choose a length ensuring we don't exceed the buffer end" (main.rs,     *)
(* get_random_subrange): no access leaves the buffer.                      *)
WalkInBuffer == phase # "stray"
=============================================================================
