--------------------------- MODULE LinkingProofs ---------------------------
(***************************************************************************)
(* Proofs about the linking of decompose, for every component: what it     *)
(* accepts it links as the component model says, and it turns down no      *)
(* component that it supports.                                             *)
(*                                                                         *)
(* Definitions only refer to earlier ones, so a rank of core instances and *)
(* core functions falls along every reference (Ranked).  It is what makes  *)
(* the recursive definitions total, and what every induction is over.      *)
(***************************************************************************)
EXTENDS Linking, FiniteSetTheorems, SequenceTheorems, WellFoundedInduction, TLAPS

ModuleInsts == {i \in DOMAIN coreInsts : coreInsts[i].kind = "module"}

(* Names are exported by the instance they are looked up in.               *)
Named ==
  /\ \A i \in ModuleInsts : \A p \in Packages(coreInsts[i].module) :
       Needed(coreInsts[i].module, p) \subseteq NamesOf(coreInsts[i].args[p])
  /\ \A f \in DOMAIN coreFuncs : coreFuncs[f].kind = "alias" =>
       coreFuncs[f].name \in NamesOf(coreFuncs[f].inst)

Size == Len(coreInsts) + Len(coreFuncs)

(* The function of an option is none, or of a lower rank.                  *)
OptionBelow(rF, f, r) == f = 0 \/ rF[f] < r

Ranked(rI, rF) ==
  /\ \A i \in ModuleInsts : \A p \in Packages(coreInsts[i].module) :
       rI[coreInsts[i].args[p]] < rI[i]
  /\ \A i \in DOMAIN coreInsts : coreInsts[i].kind = "exports" =>
       \A n \in DOMAIN coreInsts[i].exports : rF[coreInsts[i].exports[n]] < rI[i]
  /\ \A f \in DOMAIN coreFuncs :
       /\ coreFuncs[f].kind = "alias" => rI[coreFuncs[f].inst] < rF[f]
       /\ coreFuncs[f].kind = "lower" => OptionBelow(rF, coreFuncs[f].realloc, rF[f])
       /\ coreFuncs[f].kind = "drop" => OptionBelow(rF, coreFuncs[f].dtor, rF[f])

ExportsBack ==
  \A f \in DOMAIN compFuncs : compFuncs[f].kind = "exported" => compFuncs[f].func < f

WellFormed(rI, rF) ==
  /\ ComponentTypeOK
  /\ Named /\ ExportsBack
  /\ rI \in [DOMAIN coreInsts -> 0..Size - 1] /\ rF \in [DOMAIN coreFuncs -> 0..Size - 1]
  /\ Ranked(rI, rF)

ComponentInv ==
  /\ ComponentTypeOK
  /\ Named /\ ExportsBack
  /\ \E rI \in [DOMAIN coreInsts -> 0..Size - 1], rF \in [DOMAIN coreFuncs -> 0..Size - 1] :
       Ranked(rI, rF)

(* The three stages of linking.                                            *)
Assumed ==
  /\ assumed \in [{m \in Modules : InstancesOf(m) # {}} -> DOMAIN coreInsts]
  /\ \A m \in DOMAIN assumed : assumed[m] \in InstancesOf(m)

Linked ==
  /\ links = [i \in DOMAIN coreInsts |-> LinkedArgs(i)]
  /\ mm = {coreInsts[i].module : i \in ModuleInsts}
  /\ \A i \in ModuleInsts :
       /\ ~Unmatched(coreInsts[i].module, coreInsts[i].args)
       /\ \A j \in DOMAIN links[i] : links[i][j] # Panic

ExportFunc(k) ==
  LET found == handle_func(InOrder(exports)[k])
  IN [record_id |-> k - 1, inst |-> found.func.package, name |-> found.func.member,
      option |-> found.option]
Gathered ==
  /\ \A k \in DOMAIN InOrder(exports) : handle_func(InOrder(exports)[k]) # Panic
  /\ exportFuncs = {ExportFunc(k) : k \in DOMAIN InOrder(exports)}

StagesInv ==
  /\ phase \in {"parsing", "linking", "linked", "gathered", "accepted", "panicked"}
  /\ IF phase = "parsing" THEN assumed = <<>> ELSE Assumed
  /\ (links = <<>> /\ mm = {}) \/ (Linked /\ phase \notin {"parsing", "linking"})
  /\ phase \in {"linked", "gathered", "accepted"} => Linked
  /\ exportFuncs = {} \/ (Gathered /\ phase \in {"gathered", "accepted"})
  /\ phase \in {"gathered", "accepted"} => Gathered
  /\ phase = "panicked" => ~Supported

LinkInv == ComponentInv /\ StagesInv

----------------------------------------------------------------------------
(* Induction, and facts about the definitions.                             *)

(* Lemma: a set of naturals that is not empty has a least element.         *)
LEMMA LeastNat ==
  ASSUME NEW T \in SUBSET Nat, T # {}
  PROVE  \E n \in T : \A m \in T : n <= m
<1>1. PICK n \in T : \A m \in T : ~ (<<m, n>> \in OpToRel(<, Nat))
  BY WFMin, NatLessThanWellFounded
<1>2. \A m \in T : ~ (m < n)
  BY <1>1 DEF OpToRel
<1> QED BY <1>2

(* Lemma: a set that has 0 and the successor of each of its members has    *)
(* every natural number.                                                   *)
LEMMA SetInduction ==
  ASSUME NEW T \in SUBSET Nat, 0 \in T, \A n \in T : n + 1 \in T
  PROVE  T = Nat
<1> SUFFICES ASSUME Nat \ T # {} PROVE FALSE
  OBVIOUS
<1>1. PICK n \in Nat \ T : \A m \in Nat \ T : n <= m
  BY LeastNat
<1>2. n # 0 /\ n - 1 \in Nat /\ n - 1 \in T
  BY <1>1
<1> QED BY <1>1, <1>2

(* Lemma: there are finitely many definitions.                             *)
LEMMA SizeNat ==
  ASSUME NEW rI, NEW rF, WellFormed(rI, rF)
  PROVE  Size \in Nat
<1>1. coreInsts \in Seq(CoreInstances) /\ coreFuncs \in Seq(CoreFuncs)
  BY DEF WellFormed, ComponentTypeOK
<1>2. Len(coreInsts) \in Nat /\ Len(coreFuncs) \in Nat
  BY <1>1, LenProperties
<1> QED
  BY <1>2 DEF Size

(* Lemma: what the types say of a core instance.                           *)
LEMMA InstanceFacts ==
  ASSUME ComponentTypeOK, NEW i \in DOMAIN coreInsts
  PROVE  /\ coreInsts[i].kind \in {"module", "exports"}
         /\ coreInsts[i].kind = "module" =>
              /\ coreInsts[i].module \in Modules
              /\ coreInsts[i].args \in [Packages(coreInsts[i].module) -> DOMAIN coreInsts]
         /\ coreInsts[i].kind = "exports" =>
              /\ coreInsts[i].exports \in [DOMAIN coreInsts[i].exports -> DOMAIN coreFuncs]
              /\ DOMAIN coreInsts[i].exports \subseteq Names
<1>1. coreInsts[i] \in CoreInstances
  BY ElementOfSeq DEF ComponentTypeOK
<1>2. CASE \E m \in Modules : coreInsts[i] \in
             [kind : {"module"}, module : {m}, args : [Packages(m) -> DOMAIN coreInsts]]
  BY <1>2
<1>3. CASE \E N \in SUBSET Names : coreInsts[i] \in
             [kind : {"exports"}, exports : [N -> DOMAIN coreFuncs]]
  BY <1>3
<1> QED
  BY <1>1, <1>2, <1>3 DEF CoreInstances

(* Lemma: what the types say of a core function.                           *)
LEMMA FuncFacts ==
  ASSUME ComponentTypeOK, NEW f \in DOMAIN coreFuncs
  PROVE  /\ coreFuncs[f].kind \in {"alias", "lower", "drop", "new"}
         /\ coreFuncs[f].kind = "alias" =>
              coreFuncs[f].inst \in DOMAIN coreInsts /\ coreFuncs[f].name \in Names
         /\ coreFuncs[f].kind = "lower" =>
              /\ coreFuncs[f].func \in DOMAIN compFuncs
              /\ coreFuncs[f].realloc \in {0} \cup DOMAIN coreFuncs
         /\ coreFuncs[f].kind = "drop" =>
              coreFuncs[f].host \in BOOLEAN /\ coreFuncs[f].dtor \in {0} \cup DOMAIN coreFuncs
<1>1. coreFuncs[f] \in CoreFuncs
  BY ElementOfSeq DEF ComponentTypeOK
<1>2. 0..Len(coreFuncs) = {0} \cup DOMAIN coreFuncs
  BY DEF ComponentTypeOK
<1> QED
  BY <1>1, <1>2 DEF CoreFuncs, ResourceNew

(* Lemma: what the types say of a component function.                      *)
LEMMA CompFacts ==
  ASSUME ComponentTypeOK, NEW f \in DOMAIN compFuncs
  PROVE  /\ compFuncs[f].kind \in {"imported", "lifted", "exported"}
         /\ compFuncs[f].kind = "lifted" =>
              /\ compFuncs[f].core \in DOMAIN coreFuncs
              /\ compFuncs[f].realloc \in {0} \cup DOMAIN coreFuncs
         /\ compFuncs[f].kind = "exported" => compFuncs[f].func \in DOMAIN compFuncs
<1>1. compFuncs[f] \in CompFuncs
  BY ElementOfSeq DEF ComponentTypeOK
<1>2. 0..Len(coreFuncs) = {0} \cup DOMAIN coreFuncs
  BY DEF ComponentTypeOK
<1> QED
  BY <1>1, <1>2 DEF CompFuncs

(* Lemma: an import of a module is a name of the instance that is given    *)
(* for it.                                                                 *)
LEMMA GivenFacts ==
  ASSUME ComponentTypeOK, Named, NEW i \in ModuleInsts,
         NEW j \in Imports[coreInsts[i].module]
  PROVE  /\ j[1] \in Packages(coreInsts[i].module)
         /\ coreInsts[i].args[j[1]] \in DOMAIN coreInsts
         /\ j[2] \in NamesOf(coreInsts[i].args[j[1]])
<1>1. i \in DOMAIN coreInsts /\ coreInsts[i].kind = "module"
  BY DEF ModuleInsts
<1>2. j[1] \in Packages(coreInsts[i].module)
  BY DEF Packages
<1>3. j[2] \in Needed(coreInsts[i].module, j[1])
  BY DEF Needed
<1>4. coreInsts[i].args \in [Packages(coreInsts[i].module) -> DOMAIN coreInsts]
  BY <1>1, InstanceFacts
<1> QED
  BY <1>1, <1>2, <1>3, <1>4 DEF Named

----------------------------------------------------------------------------
(* The recursive definitions are total: each is what its equation says.    *)

(* One step of resolve_core_func.                                          *)
ResolveBody(g, f) ==
  IF coreFuncs[f].kind # "alias" THEN coreFuncs[f] ELSE follow_alias(g, coreFuncs[f])

(* Lemma: what a core function resolves to only depends on what functions  *)
(* of a lower rank resolve to.                                             *)
LEMMA ResolveBelow ==
  ASSUME NEW rI, NEW rF, WellFormed(rI, rF), NEW f \in DOMAIN coreFuncs, NEW g, NEW h,
         \A e \in DOMAIN coreFuncs : rF[e] < rF[f] => g[e] = h[e]
  PROVE  ResolveBody(g, f) = ResolveBody(h, f)
<1> DEFINE i == coreInsts[coreFuncs[f].inst]
           e == i.exports[coreFuncs[f].name]
<1>1. CASE coreFuncs[f].kind = "alias" /\ i.kind # "module"
  <2>1. /\ coreFuncs[f].inst \in DOMAIN coreInsts
        /\ coreFuncs[f].name \in NamesOf(coreFuncs[f].inst)
        /\ rI[coreFuncs[f].inst] < rF[f]
    BY <1>1, FuncFacts DEF WellFormed, Named, Ranked
  <2>2. /\ i.kind = "exports"
        /\ i.exports \in [DOMAIN i.exports -> DOMAIN coreFuncs]
        /\ coreFuncs[f].name \in DOMAIN i.exports
    BY <1>1, <2>1, InstanceFacts DEF WellFormed, NamesOf
  <2>3. e \in DOMAIN coreFuncs /\ rF[e] < rI[coreFuncs[f].inst]
    BY <2>1, <2>2 DEF WellFormed, Ranked
  <2>4. rI[coreFuncs[f].inst] \in Int /\ rF[e] \in Int /\ rF[f] \in Int
    BY <2>1, <2>3 DEF WellFormed
  <2>5. g[e] = h[e]
    BY <2>1, <2>3, <2>4
  <2> QED
    BY <2>5, <1>1 DEF ResolveBody, follow_alias, Followed
<1>2. CASE ~ (coreFuncs[f].kind = "alias" /\ i.kind # "module")
  BY <1>2 DEF ResolveBody, follow_alias
<1> QED
  BY <1>1, <1>2

(* Lemma: so the recursive definition of what they resolve to has a        *)
(* solution.                                                               *)
LEMMA ResolveUnfolds ==
  ASSUME NEW rI, NEW rF, WellFormed(rI, rF)
  PROVE  \A f \in DOMAIN coreFuncs : resolve_core_func[f] = ResolveBody(resolve_core_func, f)
<1> DEFINE D == DOMAIN coreFuncs
           T == {n \in Nat : \E g : \A f \in D : rF[f] < n => g[f] = ResolveBody(g, f)}
<1>1. \A f \in D : rF[f] \in Nat /\ rF[f] < Size
  BY SizeNat DEF WellFormed
<1>2. T = Nat
  <2>1. 0 \in T
    BY <1>1
  <2>2. ASSUME NEW n \in T PROVE n + 1 \in T
    <3>1. PICK g : \A f \in D : rF[f] < n => g[f] = ResolveBody(g, f)
      BY <2>2
    <3> DEFINE h == [f \in D |-> IF rF[f] < n THEN g[f] ELSE ResolveBody(g, f)]
    <3>2. ASSUME NEW f \in D, rF[f] < n + 1 PROVE h[f] = ResolveBody(h, f)
      <4>1. \A e \in D : rF[e] < rF[f] => g[e] = h[e]
        BY <1>1, <3>2
      <4>2. ResolveBody(g, f) = ResolveBody(h, f)
        BY <4>1, ResolveBelow
      <4>3. h[f] = ResolveBody(g, f)
        BY <3>1
      <4> QED
        BY <4>2, <4>3
    <3> HIDE DEF h
    <3>3. \E x : \A f \in D : rF[f] < n + 1 => x[f] = ResolveBody(x, f)
      BY <3>2
    <3> QED
      BY <3>3
  <2> HIDE DEF T
  <2>3. T \in SUBSET Nat
    BY DEF T
  <2> QED
    BY <2>1, <2>2, <2>3, SetInduction
<1>3. Size \in T
  BY <1>2, SizeNat
<1>4. PICK g : \A f \in D : g[f] = ResolveBody(g, f)
  BY <1>1, <1>3
<1> DEFINE r == [f \in D |-> g[f]]
<1>5. \A f \in D : ResolveBody(g, f) = ResolveBody(r, f)
  BY ResolveBelow
<1>6. r = [f \in D |-> ResolveBody(r, f)]
  BY <1>4, <1>5
<1> HIDE DEF r
<1>7. \E x : x = [f \in D |-> ResolveBody(x, f)]
  BY <1>6
<1>8. resolve_core_func = CHOOSE x : x = [f \in D |-> ResolveBody(x, f)]
  BY DEF resolve_core_func, ResolveBody
<1>9. resolve_core_func = [f \in D |-> ResolveBody(resolve_core_func, f)]
  BY <1>7, <1>8
<1> QED
  BY <1>9

(* The rank of an item is that of its definition.                          *)
RankOf(rI, rF, x) == IF x.kind = "func" THEN rF[x.func] ELSE rI[x.inst]

(* Lemma: an item is a core function or a name of a core instance.         *)
LEMMA ItemFacts ==
  /\ \A f \in DOMAIN coreFuncs : Func(f) \in Items /\ Func(f).kind = "func" /\ Func(f).func = f
  /\ \A i \in DOMAIN coreInsts : \A n \in NamesOf(i) :
       /\ Export(i, n) \in Items
       /\ Export(i, n).kind = "export" /\ Export(i, n).inst = i /\ Export(i, n).name = n
  /\ \A x \in Items :
       \/ \E f \in DOMAIN coreFuncs : x = Func(f)
       \/ \E i \in DOMAIN coreInsts : \E n \in NamesOf(i) : x = Export(i, n)
<1>1. \A f \in DOMAIN coreFuncs : Func(f) \in Items /\ Func(f).kind = "func" /\ Func(f).func = f
  BY DEF Items, Func
<1>2. ASSUME NEW i \in DOMAIN coreInsts, NEW n \in NamesOf(i)
      PROVE  /\ Export(i, n) \in Items
             /\ Export(i, n).kind = "export" /\ Export(i, n).inst = i /\ Export(i, n).name = n
  <2>1. Export(i, n) \in {Export(i, k) : k \in NamesOf(i)}
    OBVIOUS
  <2>2. Export(i, n) \in Items
    BY <2>1, Zenon DEF Items
  <2> QED
    BY <2>2 DEF Export
<1>3. ASSUME NEW x \in Items
      PROVE  \/ \E f \in DOMAIN coreFuncs : x = Func(f)
             \/ \E i \in DOMAIN coreInsts : \E n \in NamesOf(i) : x = Export(i, n)
  BY Zenon DEF Items
<1> QED
  BY <1>1, <1>2, <1>3

(* One step of Denoted.                                                    *)
DenotedBody(g, x) ==
  IF x.kind = "func" THEN FuncDenoted(g, coreFuncs[x.func])
  ELSE ExportDenoted(g, x.inst, x.name)

(* Lemma: what an item denotes only depends on items of a lower rank.      *)
LEMMA DenotedBelow ==
  ASSUME NEW rI, NEW rF, WellFormed(rI, rF), NEW x \in Items, NEW g, NEW h,
         \A y \in Items : RankOf(rI, rF, y) < RankOf(rI, rF, x) => g[y] = h[y]
  PROVE  DenotedBody(g, x) = DenotedBody(h, x)
<1>1. ASSUME NEW f \in DOMAIN coreFuncs, x = Func(f) PROVE DenotedBody(g, x) = DenotedBody(h, x)
  <2> DEFINE c == coreFuncs[f]
  <2>1. x.kind = "func" /\ x.func = f /\ RankOf(rI, rF, x) = rF[f]
    BY <1>1 DEF Func, RankOf
  <2>2. \A e \in DOMAIN coreFuncs : rF[e] < rF[f] => g[Func(e)] = h[Func(e)]
    BY <2>1, ItemFacts DEF RankOf
  <2>3. CASE c.kind = "alias"
    <3>1. c.inst \in DOMAIN coreInsts /\ c.name \in NamesOf(c.inst) /\ rI[c.inst] < rF[f]
      BY <2>3, FuncFacts DEF WellFormed, Named, Ranked
    <3>2. g[Export(c.inst, c.name)] = h[Export(c.inst, c.name)]
      BY <2>1, <3>1, ItemFacts DEF RankOf
    <3> QED
      BY <2>1, <2>3, <3>2 DEF DenotedBody, FuncDenoted
  <2>4. CASE c.kind = "lower"
    <3>1. OptionDenoted(g, c.realloc) = OptionDenoted(h, c.realloc)
      BY <2>2, <2>4, FuncFacts DEF WellFormed, Ranked, OptionBelow, OptionDenoted
    <3> QED
      BY <2>1, <2>4, <3>1 DEF DenotedBody, FuncDenoted
  <2>5. CASE c.kind = "drop"
    <3>1. OptionDenoted(g, c.dtor) = OptionDenoted(h, c.dtor)
      BY <2>2, <2>5, FuncFacts DEF WellFormed, Ranked, OptionBelow, OptionDenoted
    <3> QED
      BY <2>1, <2>5, <3>1 DEF DenotedBody, FuncDenoted
  <2>6. CASE c.kind = "new"
    BY <2>1, <2>6 DEF DenotedBody, FuncDenoted
  <2> QED
    BY <2>3, <2>4, <2>5, <2>6, FuncFacts DEF WellFormed
<1>2. ASSUME NEW i \in DOMAIN coreInsts, NEW n \in NamesOf(i), x = Export(i, n)
      PROVE  DenotedBody(g, x) = DenotedBody(h, x)
  <2> DEFINE d == coreInsts[i]
  <2>1. x.kind = "export" /\ x.inst = i /\ x.name = n /\ RankOf(rI, rF, x) = rI[i]
    BY <1>2 DEF Export, RankOf
  <2>2. CASE d.kind = "exports"
    <3>1. n \in DOMAIN d.exports /\ d.exports[n] \in DOMAIN coreFuncs /\ rF[d.exports[n]] < rI[i]
      BY <2>2, InstanceFacts DEF WellFormed, Ranked, NamesOf
    <3>2. g[Func(d.exports[n])] = h[Func(d.exports[n])]
      BY <2>1, <3>1, ItemFacts DEF RankOf
    <3> QED
      BY <2>1, <2>2, <3>2 DEF DenotedBody, ExportDenoted
  <2>3. CASE d.kind = "module" /\ Exports[d.module][n] \in Imports[d.module]
    <3> DEFINE f == Exports[d.module][n]
    <3>1. /\ f[1] \in Packages(d.module) /\ d.args[f[1]] \in DOMAIN coreInsts
          /\ f[2] \in NamesOf(d.args[f[1]])
      BY <2>3, GivenFacts DEF WellFormed, ModuleInsts
    <3>2. rI[d.args[f[1]]] < rI[i]
      BY <2>3, <3>1 DEF WellFormed, Ranked, ModuleInsts
    <3> DEFINE y == Export(d.args[f[1]], f[2])
    <3>3. y \in Items /\ y.kind = "export" /\ y.inst = d.args[f[1]]
      BY <3>1, ItemFacts
    <3>4. RankOf(rI, rF, y) < RankOf(rI, rF, x)
      BY <2>1, <3>2, <3>3 DEF RankOf
    <3> HIDE DEF y
    <3>5. g[y] = h[y]
      BY <3>3, <3>4
    <3> QED
      BY <2>1, <2>3, <3>5 DEF y, DenotedBody, ExportDenoted
  <2>4. CASE d.kind = "module" /\ Exports[d.module][n] \notin Imports[d.module]
    BY <2>1, <2>4 DEF DenotedBody, ExportDenoted
  <2> QED
    BY <2>2, <2>3, <2>4, InstanceFacts DEF WellFormed
<1> QED
  BY <1>1, <1>2, ItemFacts

(* Lemma: so the recursive definition of what they denote has a solution.  *)
LEMMA DenotedUnfolds ==
  ASSUME NEW rI, NEW rF, WellFormed(rI, rF)
  PROVE  \A x \in Items : Denoted[x] = DenotedBody(Denoted, x)
<1> DEFINE Rank(x) == RankOf(rI, rF, x)
           T == {n \in Nat : \E g : \A x \in Items : Rank(x) < n => g[x] = DenotedBody(g, x)}
<1>1. \A x \in Items : Rank(x) \in Nat /\ Rank(x) < Size
  <2>1. /\ \A f \in DOMAIN coreFuncs : rF[f] \in Nat /\ rF[f] < Size
        /\ \A i \in DOMAIN coreInsts : rI[i] \in Nat /\ rI[i] < Size
    BY SizeNat DEF WellFormed
  <2> QED
    BY <2>1, ItemFacts DEF RankOf
<1> HIDE DEF Rank
<1>2. ASSUME NEW x \in Items, NEW g, NEW h, \A y \in Items : Rank(y) < Rank(x) => g[y] = h[y]
      PROVE  DenotedBody(g, x) = DenotedBody(h, x)
  BY <1>2, DenotedBelow DEF Rank
<1>3. T = Nat
  <2>1. 0 \in T
    BY <1>1
  <2>2. ASSUME NEW n \in T PROVE n + 1 \in T
    <3>1. PICK g : \A x \in Items : Rank(x) < n => g[x] = DenotedBody(g, x)
      BY <2>2
    <3> DEFINE h == [x \in Items |-> IF Rank(x) < n THEN g[x] ELSE DenotedBody(g, x)]
    <3>2. ASSUME NEW x \in Items, Rank(x) < n + 1 PROVE h[x] = DenotedBody(h, x)
      <4>1. \A y \in Items : Rank(y) < Rank(x) => g[y] = h[y]
        BY <1>1, <3>2
      <4>2. DenotedBody(h, x) = DenotedBody(g, x)
        BY <4>1, <1>2
      <4>3. h[x] = DenotedBody(g, x)
        BY <3>1
      <4> QED
        BY <4>2, <4>3
    <3> HIDE DEF h
    <3>3. \E g2 : \A x \in Items : Rank(x) < n + 1 => g2[x] = DenotedBody(g2, x)
      BY <3>2
    <3> QED
      BY <3>3
  <2> HIDE DEF T
  <2>3. T \in SUBSET Nat
    BY DEF T
  <2> QED
    BY <2>1, <2>2, <2>3, SetInduction
<1>4. Size \in T
  BY <1>3, SizeNat
<1>5. PICK g : \A x \in Items : g[x] = DenotedBody(g, x)
  BY <1>1, <1>4
<1> DEFINE r == [x \in Items |-> g[x]]
<1>6. \A x \in Items : DenotedBody(g, x) = DenotedBody(r, x)
  BY <1>2
<1>7. r = [x \in Items |-> DenotedBody(r, x)]
  BY <1>5, <1>6
<1> HIDE DEF r
<1>8. \E d : d = [x \in Items |-> DenotedBody(d, x)]
  BY <1>7
<1>9. Denoted = CHOOSE d : d = [x \in Items |-> DenotedBody(d, x)]
  BY DEF Denoted, DenotedBody
<1>10. Denoted = [x \in Items |-> DenotedBody(Denoted, x)]
  BY <1>8, <1>9
<1> QED
  BY <1>10

(* One step of resolve_component_func.                                     *)
ComponentBody(g, f) ==
  IF compFuncs[f].kind = "exported" THEN g[compFuncs[f].func] ELSE compFuncs[f]

(* Lemma: exports go back to earlier functions, so the recursive           *)
(* definition of what a component function resolves to has a solution.     *)
LEMMA ComponentUnfolds ==
  ASSUME NEW rI, NEW rF, WellFormed(rI, rF)
  PROVE  \A f \in DOMAIN compFuncs :
           resolve_component_func[f] = ComponentBody(resolve_component_func, f)
<1> DEFINE D == DOMAIN compFuncs
           T == {n \in Nat : \E g : \A f \in D : f < n => g[f] = ComponentBody(g, f)}
<1>1. D = 1..Len(compFuncs) /\ Len(compFuncs) \in Nat
  BY LenProperties DEF WellFormed, ComponentTypeOK
<1>2. ASSUME NEW f \in D, NEW g, NEW h, \A e \in D : e < f => g[e] = h[e]
      PROVE  ComponentBody(g, f) = ComponentBody(h, f)
  <2>1. compFuncs[f].kind = "exported" => compFuncs[f].func \in D /\ compFuncs[f].func < f
    BY CompFacts DEF WellFormed, ExportsBack
  <2> QED
    BY <1>2, <2>1 DEF ComponentBody
<1>3. T = Nat
  <2>1. 0 \in T
    BY <1>1
  <2>2. ASSUME NEW n \in T PROVE n + 1 \in T
    <3>1. PICK g : \A f \in D : f < n => g[f] = ComponentBody(g, f)
      BY <2>2
    <3> DEFINE h == [f \in D |-> IF f < n THEN g[f] ELSE ComponentBody(g, f)]
    <3>2. ASSUME NEW f \in D, f < n + 1 PROVE h[f] = ComponentBody(h, f)
      <4>1. \A e \in D : e < f => g[e] = h[e]
        BY <1>1, <3>2
      <4>2. ComponentBody(h, f) = ComponentBody(g, f)
        BY <4>1, <1>2
      <4>3. h[f] = ComponentBody(g, f)
        BY <3>1
      <4> QED
        BY <4>2, <4>3
    <3> HIDE DEF h
    <3>3. \E x : \A f \in D : f < n + 1 => x[f] = ComponentBody(x, f)
      BY <3>2
    <3> QED
      BY <3>3
  <2> HIDE DEF T
  <2>3. T \in SUBSET Nat
    BY DEF T
  <2> QED
    BY <2>1, <2>2, <2>3, SetInduction
<1>4. Len(compFuncs) + 1 \in T
  <2>1. Len(compFuncs) + 1 \in Nat
    BY <1>1
  <2> HIDE DEF T
  <2> QED
    BY <2>1, <1>3
<1>5. PICK g : \A f \in D : g[f] = ComponentBody(g, f)
  BY <1>1, <1>4
<1> DEFINE r == [f \in D |-> g[f]]
<1>6. \A f \in D : ComponentBody(g, f) = ComponentBody(r, f)
  BY <1>2
<1>7. r = [f \in D |-> ComponentBody(r, f)]
  BY <1>5, <1>6
<1> HIDE DEF r
<1>8. \E x : x = [f \in D |-> ComponentBody(x, f)]
  BY <1>7
<1>9. resolve_component_func = CHOOSE x : x = [f \in D |-> ComponentBody(x, f)]
  BY DEF resolve_component_func, ComponentBody
<1>10. resolve_component_func = [f \in D |-> ComponentBody(resolve_component_func, f)]
  BY <1>8, <1>9
<1> QED
  BY <1>10

(* Lemma: component functions resolve, through exports, to the import or   *)
(* the lift that they are.                                                 *)
LEMMA ComponentResolved ==
  ASSUME NEW rI, NEW rF, WellFormed(rI, rF), NEW f \in DOMAIN compFuncs
  PROVE  LET c == resolve_component_func[f] IN
           /\ c.kind \in {"imported", "lifted"}
           /\ c.kind = "lifted" =>
                c.core \in DOMAIN coreFuncs /\ c.realloc \in {0} \cup DOMAIN coreFuncs
<1> DEFINE D == DOMAIN compFuncs
           P(e) == resolve_component_func[e] \in
                     {compFuncs[d] : d \in {d \in D : compFuncs[d].kind # "exported"}}
           T == {n \in Nat : \A e \in D : e < n => P(e)}
<1>1. D = 1..Len(compFuncs) /\ Len(compFuncs) \in Nat
  BY LenProperties DEF WellFormed, ComponentTypeOK
<1>2. 0 \in T
  BY <1>1
<1>3. ASSUME NEW n \in T PROVE n + 1 \in T
  <2> SUFFICES ASSUME NEW e \in D, e < n + 1 PROVE P(e)
    OBVIOUS
  <2>1. resolve_component_func[e] = ComponentBody(resolve_component_func, e)
    BY ComponentUnfolds
  <2>2. CASE compFuncs[e].kind = "exported"
    <3>1. compFuncs[e].func \in D /\ compFuncs[e].func < e
      BY <2>2, CompFacts DEF WellFormed, ExportsBack
    <3>2. P(compFuncs[e].func)
      BY <1>1, <1>3, <3>1
    <3> QED
      BY <2>1, <2>2, <3>2 DEF ComponentBody
  <2>3. CASE compFuncs[e].kind # "exported"
    BY <2>1, <2>3 DEF ComponentBody
  <2> QED
    BY <2>2, <2>3
<1>4. f + 1 \in T
  <2> HIDE DEF T
  <2>1. T \in SUBSET Nat
    BY DEF T
  <2> QED
    BY <1>1, <1>2, <1>3, <2>1, SetInduction
<1>5. P(f)
  BY <1>1, <1>4
<1>6. PICK d \in D : resolve_component_func[f] = compFuncs[d] /\ compFuncs[d].kind # "exported"
  BY <1>5
<1> QED
  BY <1>6, CompFacts DEF WellFormed

----------------------------------------------------------------------------
(* Resolution finds the function that the component model denotes.         *)

(* A function of rank r is the export n of the module instance i.          *)
Leads(rI, rF, f, i, n) ==
  /\ i \in ModuleInsts /\ n \in NamesOf(i)
  /\ resolve_core_func[f] = FromModule(coreInsts[i].module, Exports[coreInsts[i].module][n])
  /\ rI[i] < rF[f]
  /\ Denoted[Func(f)] = Denoted[Export(i, n)]

(* What a core function may resolve to.                                    *)
ResolvedRight(rI, rF, f) ==
  \/ resolve_core_func[f] = Panic
  \/ resolve_core_func[f] = coreFuncs[f] /\ coreFuncs[f].kind \in {"lower", "drop", "new"}
  \/ \E i \in ModuleInsts : \E n \in NamesOf(i) : Leads(rI, rF, f, i, n)

(* Lemma: an alias resolves right if functions of a lower rank do.         *)
LEMMA AliasResolved ==
  ASSUME NEW rI, NEW rF, WellFormed(rI, rF), NEW f \in DOMAIN coreFuncs,
         coreFuncs[f].kind = "alias",
         \A e \in DOMAIN coreFuncs : rF[e] < rF[f] => ResolvedRight(rI, rF, e)
  PROVE  ResolvedRight(rI, rF, f)
<1> DEFINE c == coreFuncs[f]
           i == coreInsts[c.inst]
<1>1. resolve_core_func[f] = follow_alias(resolve_core_func, c)
  BY ResolveUnfolds DEF ResolveBody
<1>2. c.inst \in DOMAIN coreInsts /\ c.name \in NamesOf(c.inst) /\ rI[c.inst] < rF[f]
  BY FuncFacts DEF WellFormed, Named, Ranked
<1>3. Denoted[Func(f)] = Denoted[Export(c.inst, c.name)]
  <2>1. Func(f) \in Items /\ Func(f).kind = "func" /\ Func(f).func = f
    BY ItemFacts
  <2>2. Denoted[Func(f)] = DenotedBody(Denoted, Func(f))
    BY <2>1, DenotedUnfolds
  <2> QED
    BY <2>1, <2>2 DEF DenotedBody, FuncDenoted
<1>4. CASE i.kind = "module"
  <2>1. Leads(rI, rF, f, c.inst, c.name)
    BY <1>1, <1>2, <1>3, <1>4 DEF Leads, ModuleInsts, follow_alias
  <2> QED
    BY <1>2, <1>4, <2>1 DEF ResolvedRight, ModuleInsts
<1>5. CASE i.kind = "exports"
  <2> DEFINE e == i.exports[c.name]
             x == Export(c.inst, c.name)
  <2>1. e \in DOMAIN coreFuncs /\ rF[e] < rI[c.inst]
    BY <1>2, <1>5, InstanceFacts DEF WellFormed, NamesOf, Ranked
  <2>2. rF[e] < rF[f]
    BY <1>2, <2>1 DEF WellFormed
  <2>3. Denoted[x] = Denoted[Func(e)]
    <3>1. x \in Items /\ x.kind = "export" /\ x.inst = c.inst /\ x.name = c.name
      BY <1>2, ItemFacts
    <3>2. Denoted[x] = DenotedBody(Denoted, x)
      BY <3>1, DenotedUnfolds
    <3> HIDE DEF x
    <3> QED
      BY <1>5, <3>1, <3>2 DEF DenotedBody, ExportDenoted
  <2>4. resolve_core_func[f] =
          IF resolve_core_func[e].kind = "fromModule" THEN resolve_core_func[e] ELSE Panic
    BY <1>1, <1>5 DEF follow_alias, Followed
  <2>5. CASE resolve_core_func[e].kind # "fromModule"
    BY <2>4, <2>5 DEF ResolvedRight
  <2>6. CASE resolve_core_func[e].kind = "fromModule"
    <3>1. PICK k \in ModuleInsts : \E n \in NamesOf(k) : Leads(rI, rF, e, k, n)
      BY <2>1, <2>2, <2>6 DEF ResolvedRight, Panic
    <3>2. PICK n \in NamesOf(k) : Leads(rI, rF, e, k, n)
      BY <3>1
    <3>3. rI[k] < rF[f]
      BY <2>1, <2>2, <3>1, <3>2 DEF Leads, WellFormed, ModuleInsts
    <3>4. Leads(rI, rF, f, k, n)
      BY <1>3, <2>3, <2>4, <2>6, <3>2, <3>3 DEF Leads
    <3> QED
      BY <3>4 DEF ResolvedRight
  <2> QED
    BY <2>5, <2>6
<1> QED
  BY <1>2, <1>4, <1>5, InstanceFacts DEF WellFormed

(* Lemma: what a core function resolves to is a function of the module of  *)
(* an instance that denotes the same, or the host or builtin function that *)
(* it is itself.                                                           *)
LEMMA ResolveRight ==
  ASSUME NEW rI, NEW rF, WellFormed(rI, rF), NEW f \in DOMAIN coreFuncs
  PROVE  ResolvedRight(rI, rF, f)
<1> DEFINE D == DOMAIN coreFuncs
           T == {n \in Nat : \A e \in D : rF[e] < n => ResolvedRight(rI, rF, e)}
<1>1. \A e \in D : rF[e] \in Nat /\ rF[e] < Size
  BY SizeNat DEF WellFormed
<1>2. 0 \in T
  BY <1>1
<1>3. ASSUME NEW n \in T PROVE n + 1 \in T
  <2> SUFFICES ASSUME NEW e \in D, rF[e] < n + 1 PROVE ResolvedRight(rI, rF, e)
    OBVIOUS
  <2>1. CASE coreFuncs[e].kind # "alias"
    <3>1. resolve_core_func[e] = coreFuncs[e]
      BY <2>1, ResolveUnfolds DEF ResolveBody
    <3> QED
      BY <2>1, <3>1, FuncFacts DEF WellFormed, ResolvedRight
  <2>2. CASE coreFuncs[e].kind = "alias"
    <3>1. \A d \in D : rF[d] < rF[e] => ResolvedRight(rI, rF, d)
      BY <1>1, <1>3
    <3> QED
      BY <2>2, <3>1, AliasResolved
  <2> QED
    BY <2>1, <2>2
<1>4. Size \in T
  <2> HIDE DEF T
  <2>1. T \in SUBSET Nat
    BY DEF T
  <2> QED
    BY <1>2, <1>3, <2>1, SetInduction, SizeNat
<1> QED
  BY <1>1, <1>4

(* Lemma: two instances of a module that is instantiated once are one.     *)
LEMMA OnlyInstance ==
  ASSUME ComponentTypeOK, InstantiatedOnce, NEW i \in ModuleInsts, NEW j \in ModuleInsts,
         coreInsts[i].module = coreInsts[j].module
  PROVE  i = j
<1> DEFINE S == InstancesOf(coreInsts[i].module)
<1>1. coreInsts[i].module \in Modules
  BY InstanceFacts DEF ModuleInsts
<1>2. Len(coreInsts) \in Nat /\ DOMAIN coreInsts = 1..Len(coreInsts)
  BY LenProperties DEF ComponentTypeOK
<1>3. IsFiniteSet(1..Len(coreInsts))
  BY <1>2, FS_Interval
<1>4. S \subseteq 1..Len(coreInsts)
  BY <1>2 DEF InstancesOf
<1>5. IsFiniteSet(S) /\ Cardinality(S) <= 1 /\ Cardinality(S) \in Nat
  BY <1>1, <1>3, <1>4, FS_Subset, FS_CardinalityType DEF InstantiatedOnce
<1>6. i \in S /\ j \in S
  BY DEF ModuleInsts, InstancesOf
<1>7. SUFFICES ASSUME i # j PROVE FALSE
  OBVIOUS
<1>8. IsFiniteSet({i}) /\ Cardinality({i}) = 1
  BY FS_Singleton
<1>9. Cardinality({i} \cup {j}) = 2
  <2>1. j \notin {i}
    BY <1>7
  <2>2. Cardinality({i} \cup {j}) = Cardinality({i}) + 1
    BY <1>8, <2>1, FS_AddElement
  <2> QED
    BY <1>8, <2>2
<1>10. Cardinality({i} \cup {j}) <= Cardinality(S)
  BY <1>5, <1>6, FS_Subset
<1> QED
  BY <1>5, <1>9, <1>10

(* Lemma: what a module instance exports under two names of one function   *)
(* is the same.                                                            *)
LEMMA SameFunction ==
  ASSUME NEW rI, NEW rF, WellFormed(rI, rF), NEW i \in ModuleInsts,
         NEW n \in NamesOf(i), NEW k \in NamesOf(i),
         Exports[coreInsts[i].module][n] = Exports[coreInsts[i].module][k]
  PROVE  Denoted[Export(i, n)] = Denoted[Export(i, k)]
<1>1. i \in DOMAIN coreInsts /\ coreInsts[i].kind = "module"
  BY DEF ModuleInsts
<1>2. ASSUME NEW x \in NamesOf(i) PROVE Denoted[Export(i, x)] = ExportDenoted(Denoted, i, x)
  <2>1. /\ Export(i, x) \in Items
        /\ Export(i, x).kind = "export" /\ Export(i, x).inst = i /\ Export(i, x).name = x
    BY <1>1, ItemFacts
  <2>2. Denoted[Export(i, x)] = DenotedBody(Denoted, Export(i, x))
    BY <2>1, DenotedUnfolds
  <2> QED
    BY <2>1, <2>2 DEF DenotedBody
<1> QED
  BY <1>1, <1>2 DEF ExportDenoted

(* Lemma: the module function is renamed to an export of the instance that *)
(* is assumed for its module - the right one, if there is only one.        *)
LEMMA RenameRight ==
  ASSUME NEW rI, NEW rF, WellFormed(rI, rF), Assumed, NEW f \in DOMAIN coreFuncs,
         NEW i \in ModuleInsts, NEW n \in NamesOf(i), Leads(rI, rF, f, i, n)
  PROVE  LET k == Rename(resolve_core_func[f]) IN
           /\ k \in Renames /\ k.package \in ModuleInsts /\ k.member \in NamesOf(k.package)
           /\ InstantiatedOnce =>
                k.package = i /\ Denoted[Export(i, k.member)] = Denoted[Func(f)]
<1> DEFINE m == coreInsts[i].module
           g == Exports[m][n]
           k == Rename(resolve_core_func[f])
<1>1. i \in DOMAIN coreInsts /\ coreInsts[i].kind = "module" /\ m \in Modules
  BY InstanceFacts DEF ModuleInsts, WellFormed
<1>2. k = [kind |-> "rename", package |-> assumed[m], member |-> get_export_name(m, g)]
  BY DEF Leads, FromModule, Rename
<1>3. n \in DOMAIN Exports[m]
  BY <1>1 DEF NamesOf
<1>4. get_export_name(m, g) \in DOMAIN Exports[m] /\ Exports[m][get_export_name(m, g)] = g
  BY <1>3 DEF get_export_name
<1>5. assumed[m] \in ModuleInsts /\ coreInsts[assumed[m]].module = m
  <2>1. i \in InstancesOf(m)
    BY <1>1 DEF InstancesOf
  <2>2. assumed[m] \in InstancesOf(m)
    BY <1>1, <2>1 DEF Assumed
  <2> QED
    BY <2>2 DEF InstancesOf, ModuleInsts
<1>6. NamesOf(assumed[m]) = DOMAIN Exports[m] /\ NamesOf(i) = DOMAIN Exports[m]
  BY <1>1, <1>5 DEF NamesOf, ModuleInsts
<1>7. k \in Renames /\ k.package \in ModuleInsts /\ k.member \in NamesOf(k.package)
  BY <1>1, <1>2, <1>4, <1>5, <1>6, ExportsAssumption DEF Renames, ModuleInsts
<1>8. ASSUME InstantiatedOnce
      PROVE  k.package = i /\ Denoted[Export(i, k.member)] = Denoted[Func(f)]
  <2>1. k.package = i
    BY <1>2, <1>5, <1>8, OnlyInstance DEF WellFormed
  <2>2. k.member \in NamesOf(i) /\ Exports[m][k.member] = Exports[m][n]
    BY <1>2, <1>4, <1>6
  <2>3. Denoted[Export(i, k.member)] = Denoted[Export(i, n)]
    BY <2>2, SameFunction
  <2> QED
    BY <2>1, <2>3 DEF Leads
<1> QED
  BY <1>7, <1>8

----------------------------------------------------------------------------
(* A link is the function that the component model denotes, after merging. *)

(* The merged modules are right for instances of a lower rank.             *)
Agrees(rI, r, M) ==
  \A i \in ModuleInsts : \A n \in NamesOf(i) :
    rI[i] < r => M[Export(i, n)] = Denoted[Export(i, n)]

(* Lemma: an option or a destructor that does not panic is right.          *)
LEMMA OptionRight ==
  ASSUME NEW rI, NEW rF, WellFormed(rI, rF), Assumed, NEW f \in {0} \cup DOMAIN coreFuncs,
         FuncOption(f) # Panic, NEW r \in Int, OptionBelow(rF, f, r)
  PROVE  /\ FuncOption(f) = None \/ FuncOption(f) \in Renames
         /\ f # 0 => FuncOption(f).package \in ModuleInsts
         /\ InstantiatedOnce => \A M : Agrees(rI, r, M) =>
              MergedRename(M, FuncOption(f)) = OptionDenoted(Denoted, f)
<1>1. CASE f = 0
  BY <1>1 DEF FuncOption, MergedRename, OptionDenoted
<1>2. CASE f # 0
  <2> DEFINE k == Rename(resolve_core_func[f])
  <2>1. f \in DOMAIN coreFuncs /\ FuncOption(f) = k /\ resolve_core_func[f].kind = "fromModule"
    BY <1>2 DEF FuncOption
  <2>2. PICK i \in ModuleInsts : \E n \in NamesOf(i) : Leads(rI, rF, f, i, n)
    BY <2>1, ResolveRight DEF ResolvedRight, Panic
  <2>3. PICK n \in NamesOf(i) : Leads(rI, rF, f, i, n)
    BY <2>2
  <2>4. /\ k \in Renames /\ k.package \in ModuleInsts /\ k.member \in NamesOf(k.package)
        /\ InstantiatedOnce =>
             k.package = i /\ Denoted[Export(i, k.member)] = Denoted[Func(f)]
    BY <2>1, <2>3, RenameRight
  <2>5. ASSUME InstantiatedOnce, NEW M, Agrees(rI, r, M)
        PROVE  MergedRename(M, k) = Denoted[Func(f)]
    <3>1. k.kind = "rename" /\ None.kind = "none"
      BY <2>4 DEF Renames, None
    <3>2. MergedRename(M, k) = M[Export(k.package, k.member)]
      BY <3>1 DEF MergedRename
    <3>3. rI[i] < r
      BY <1>2, <2>1, <2>3 DEF Leads, OptionBelow, WellFormed, ModuleInsts
    <3> QED
      BY <2>4, <2>5, <3>2, <3>3 DEF Agrees
  <2> HIDE DEF k
  <2> QED
    BY <1>2, <2>1, <2>4, <2>5 DEF OptionDenoted
<1> QED
  BY <1>1, <1>2

(* Lemma: the link for a core function is right.                           *)
LEMMA FuncLinkRight ==
  ASSUME NEW rI, NEW rF, WellFormed(rI, rF), Assumed, NEW f \in DOMAIN coreFuncs,
         resolve_core_func_link(f) # Panic
  PROVE  /\ resolve_core_func_link(f) \in Kinds
         /\ InstantiatedOnce => \A M : Agrees(rI, rF[f], M) =>
              MergedKind(M, resolve_core_func_link(f)) = Denoted[Func(f)]
<1> DEFINE r == resolve_core_func[f]
           k == resolve_core_func_link(f)
<1>1. rF[f] \in Int
  BY DEF WellFormed
<1>2. Denoted[Func(f)] = FuncDenoted(Denoted, coreFuncs[f])
  BY ItemFacts, DenotedUnfolds DEF DenotedBody
<1>3. r # Panic
  <2>1. SUFFICES ASSUME r = Panic PROVE FALSE
    OBVIOUS
  <2>2. r.kind = "panic"
    BY <2>1 DEF Panic
  <2>3. /\ r.kind # "fromModule" /\ r.kind # "lower" /\ r.kind # "drop" /\ r.kind # "new"
    BY <2>2
  <2>4. resolve_core_func_link(f) = Panic
    BY <2>3, Zenon DEF resolve_core_func_link
  <2> QED
    BY <2>4
<1>4. ASSUME NEW i \in ModuleInsts, NEW n \in NamesOf(i), Leads(rI, rF, f, i, n)
      PROVE  /\ k \in Kinds
             /\ InstantiatedOnce =>
                  \A M : Agrees(rI, rF[f], M) => MergedKind(M, k) = Denoted[Func(f)]
  <2>1. r.kind = "fromModule"
    BY <1>4 DEF Leads, FromModule
  <2>2. k = Rename(r)
    BY <2>1 DEF resolve_core_func_link
  <2>3. /\ k \in Renames /\ k.package \in ModuleInsts /\ k.member \in NamesOf(k.package)
        /\ InstantiatedOnce =>
             k.package = i /\ Denoted[Export(i, k.member)] = Denoted[Func(f)]
    BY <1>4, <2>2, RenameRight
  <2> HIDE DEF k
  <2>4. k.kind = "rename" /\ None.kind = "none"
    BY <2>3 DEF Renames, None
  <2>5. ASSUME InstantiatedOnce, NEW M, Agrees(rI, rF[f], M)
        PROVE  MergedKind(M, k) = Denoted[Func(f)]
    <3>1. MergedKind(M, k) = M[Export(k.package, k.member)]
      BY <2>4 DEF MergedKind, MergedRename
    <3>2. rI[i] < rF[f]
      BY <1>4 DEF Leads
    <3> QED
      BY <2>3, <2>5, <3>1, <3>2 DEF Agrees
  <2> QED
    BY <2>3, <2>5 DEF Kinds
<1>5. ASSUME r = coreFuncs[f], coreFuncs[f].kind = "lower"
      PROVE  /\ k \in Kinds
             /\ InstantiatedOnce =>
                  \A M : Agrees(rI, rF[f], M) => MergedKind(M, k) = Denoted[Func(f)]
  <2> DEFINE o == FuncOption(coreFuncs[f].realloc)
  <2>1. coreFuncs[f].realloc \in {0} \cup DOMAIN coreFuncs
    BY <1>5, FuncFacts DEF WellFormed
  <2>2. OptionBelow(rF, coreFuncs[f].realloc, rF[f])
    BY <1>5 DEF WellFormed, Ranked
  <2>3. k = WithOption("trueImport", TRUE, o) /\ k # Panic
    BY <1>5 DEF resolve_core_func_link
  <2>4. o # Panic /\ k = [kind |-> "trueImport", host |-> TRUE, option |-> o]
    BY <2>3 DEF WithOption
  <2>5. /\ o = None \/ o \in Renames
        /\ InstantiatedOnce => \A M : Agrees(rI, rF[f], M) =>
             MergedRename(M, o) = OptionDenoted(Denoted, coreFuncs[f].realloc)
    BY <1>1, <2>1, <2>2, <2>4, OptionRight
  <2> HIDE DEF k, o
  <2>6. k \in Kinds
    BY <2>4, <2>5 DEF Kinds
  <2>7. \A M : MergedKind(M, k) = Outside("trueImport", TRUE, MergedRename(M, o))
    BY <2>4 DEF MergedKind
  <2>8. Denoted[Func(f)] =
          Outside("trueImport", TRUE, OptionDenoted(Denoted, coreFuncs[f].realloc))
    BY <1>2, <1>5 DEF FuncDenoted
  <2> QED
    BY <2>5, <2>6, <2>7, <2>8
<1>6. ASSUME r = coreFuncs[f], coreFuncs[f].kind = "drop"
      PROVE  /\ k \in Kinds
             /\ InstantiatedOnce =>
                  \A M : Agrees(rI, rF[f], M) => MergedKind(M, k) = Denoted[Func(f)]
  <2> DEFINE o == FuncOption(coreFuncs[f].dtor)
             h == coreFuncs[f].host
  <2>1. coreFuncs[f].dtor \in {0} \cup DOMAIN coreFuncs /\ h \in BOOLEAN
    BY <1>6, FuncFacts DEF WellFormed
  <2>2. OptionBelow(rF, coreFuncs[f].dtor, rF[f])
    BY <1>6 DEF WellFormed, Ranked
  <2>3. k = WithOption("builtin", h, o) /\ k # Panic
    BY <1>6 DEF resolve_core_func_link
  <2>4. o # Panic /\ k = [kind |-> "builtin", host |-> h, option |-> o]
    BY <2>3 DEF WithOption
  <2>5. /\ o = None \/ o \in Renames
        /\ InstantiatedOnce => \A M : Agrees(rI, rF[f], M) =>
             MergedRename(M, o) = OptionDenoted(Denoted, coreFuncs[f].dtor)
    BY <1>1, <2>1, <2>2, <2>4, OptionRight
  <2>7. Denoted[Func(f)] = Outside("builtin", h, OptionDenoted(Denoted, coreFuncs[f].dtor))
    BY <1>2, <1>6 DEF FuncDenoted
  <2> HIDE DEF k, o, h
  <2>6. k \in Kinds
    BY <2>1, <2>4, <2>5 DEF Kinds
  <2>8. \A M : MergedKind(M, k) = Outside("builtin", h, MergedRename(M, o))
    BY <2>4 DEF MergedKind
  <2> QED
    BY <2>5, <2>6, <2>7, <2>8
<1>7. ASSUME r = coreFuncs[f], coreFuncs[f].kind = "new"
      PROVE  /\ k \in Kinds
             /\ \A M : MergedKind(M, k) = Denoted[Func(f)]
  <2>1. k = [kind |-> "builtin", host |-> FALSE, option |-> None]
    BY <1>7 DEF resolve_core_func_link, WithOption, None, Panic
  <2>2. Denoted[Func(f)] = Outside("builtin", FALSE, None)
    BY <1>2, <1>7 DEF FuncDenoted
  <2> HIDE DEF k
  <2>3. \A M : MergedKind(M, k) = Outside("builtin", FALSE, None)
    BY <2>1 DEF MergedKind, MergedRename
  <2> QED
    BY <2>1, <2>2, <2>3 DEF Kinds
<1> HIDE DEF k, r
<1>8. \/ r = coreFuncs[f] /\ coreFuncs[f].kind \in {"lower", "drop", "new"}
      \/ \E i \in ModuleInsts : \E n \in NamesOf(i) : Leads(rI, rF, f, i, n)
  BY <1>3, ResolveRight DEF ResolvedRight, r
<1>9. /\ k \in Kinds
      /\ InstantiatedOnce =>
           \A M : Agrees(rI, rF[f], M) => MergedKind(M, k) = Denoted[Func(f)]
  BY <1>4, <1>5, <1>6, <1>7, <1>8
<1> QED
  BY <1>9 DEF k

(* Lemma: the link for a name of an instance that is given as package.     *)
LEMMA ImportKindRight ==
  ASSUME NEW rI, NEW rF, WellFormed(rI, rF), Assumed, NEW i \in DOMAIN coreInsts,
         NEW n \in NamesOf(i), ImportKind(i, n) # Panic, NEW r \in Int, rI[i] < r
  PROVE  /\ ImportKind(i, n) \in Kinds
         /\ InstantiatedOnce => \A M : Agrees(rI, r, M) =>
              MergedKind(M, ImportKind(i, n)) = Denoted[Export(i, n)]
<1> DEFINE k == ImportKind(i, n)
           x == Export(i, n)
<1>1. x \in Items /\ x.kind = "export" /\ x.inst = i /\ x.name = n
  BY ItemFacts
<1>2. Denoted[x] = ExportDenoted(Denoted, i, n)
  <2>1. Denoted[x] = DenotedBody(Denoted, x)
    BY <1>1, DenotedUnfolds
  <2> HIDE DEF x
  <2> QED
    BY <1>1, <2>1 DEF DenotedBody
<1>3. CASE coreInsts[i].kind = "exports"
  <2> DEFINE f == coreInsts[i].exports[n]
  <2>1. f \in DOMAIN coreFuncs /\ rF[f] < rI[i]
    BY <1>3, InstanceFacts DEF WellFormed, NamesOf, Ranked
  <2>2. k = resolve_core_func_link(f)
    BY <1>3 DEF ImportKind
  <2>3. /\ k \in Kinds
        /\ InstantiatedOnce =>
             \A M : Agrees(rI, rF[f], M) => MergedKind(M, k) = Denoted[Func(f)]
    BY <2>1, <2>2, FuncLinkRight
  <2>4. Denoted[x] = Denoted[Func(f)]
    BY <1>2, <1>3 DEF ExportDenoted
  <2>5. \A M : Agrees(rI, r, M) => Agrees(rI, rF[f], M)
    BY <2>1 DEF Agrees, WellFormed, ModuleInsts
  <2> QED
    BY <2>3, <2>4, <2>5
<1>4. CASE coreInsts[i].kind = "module"
  <2> DEFINE m == coreInsts[i].module
  <2>1. i \in ModuleInsts /\ m \in Modules
    BY <1>4, InstanceFacts DEF ModuleInsts, WellFormed
  <2>2. k = [kind |-> "rename", package |-> assumed[m], member |-> n]
    BY <1>4 DEF ImportKind
  <2>3. assumed[m] \in ModuleInsts /\ coreInsts[assumed[m]].module = m
    BY <1>4, <2>1 DEF Assumed, InstancesOf, ModuleInsts
  <2>4. n \in Names
    BY <1>4, <2>1, ExportsAssumption DEF NamesOf
  <2>5. k \in Kinds
    BY <2>2, <2>3, <2>4 DEF Kinds, Renames, ModuleInsts
  <2>6. ASSUME InstantiatedOnce, NEW M, Agrees(rI, r, M)
        PROVE  MergedKind(M, k) = Denoted[x]
    <3>1. assumed[m] = i
      BY <2>1, <2>3, <2>6, OnlyInstance DEF WellFormed
    <3>2. MergedKind(M, k) = M[Export(i, n)]
      BY <2>2, <3>1 DEF MergedKind, MergedRename, None
    <3> QED
      BY <2>1, <2>6, <3>2 DEF Agrees
  <2> QED
    BY <2>5, <2>6
<1> QED
  BY <1>3, <1>4, InstanceFacts DEF WellFormed

(* Lemma: the link of an import of an instance.                            *)
LEMMA LinkRight ==
  ASSUME NEW rI, NEW rF, WellFormed(rI, rF), Assumed, Linked, NEW i \in ModuleInsts,
         NEW j \in Imports[coreInsts[i].module]
  PROVE  /\ j \in DOMAIN links[i]
         /\ links[i][j] \in Kinds
         /\ InstantiatedOnce => \A M : Agrees(rI, rI[i], M) =>
              MergedKind(M, links[i][j]) = Denoted[Export(coreInsts[i].args[j[1]], j[2])]
<1> DEFINE a == coreInsts[i].args[j[1]]
<1>1. i \in DOMAIN coreInsts /\ coreInsts[i].kind = "module"
  BY DEF ModuleInsts
<1>2. links[i] = [l \in Imports[coreInsts[i].module] |->
                    ImportKind(coreInsts[i].args[l[1]], l[2])]
  BY <1>1 DEF Linked, LinkedArgs
<1>3. j \in DOMAIN links[i] /\ links[i][j] = ImportKind(a, j[2]) /\ links[i][j] # Panic
  BY <1>2 DEF Linked
<1>4. /\ j[1] \in Packages(coreInsts[i].module) /\ a \in DOMAIN coreInsts
      /\ j[2] \in NamesOf(a)
  BY GivenFacts DEF WellFormed
<1>5. rI[a] < rI[i] /\ rI[i] \in Int
  BY <1>1, <1>4 DEF WellFormed, Ranked
<1> HIDE DEF a
<1>6. /\ ImportKind(a, j[2]) \in Kinds
      /\ InstantiatedOnce => \A M : Agrees(rI, rI[i], M) =>
           MergedKind(M, ImportKind(a, j[2])) = Denoted[Export(a, j[2])]
  BY <1>3, <1>4, <1>5, ImportKindRight
<1> QED
  BY <1>3, <1>6 DEF a

(* One step of Merged.                                                     *)
MergedBody(g, x) ==
  LET m == coreInsts[x.inst].module
      f == Exports[m][x.name]
  IN IF f \in Imports[m] THEN MergedKind(g, links[x.inst][f]) ELSE Guest(x.inst, f)

(* Lemma: an export of an instance becomes what it denotes if those of     *)
(* instances of a lower rank do.                                           *)
LEMMA MergedBodyRight ==
  ASSUME NEW rI, NEW rF, WellFormed(rI, rF), Assumed, Linked, InstantiatedOnce,
         NEW i \in ModuleInsts, NEW n \in NamesOf(i), NEW M, Agrees(rI, rI[i], M)
  PROVE  MergedBody(M, Export(i, n)) = Denoted[Export(i, n)]
<1> DEFINE x == Export(i, n)
           m == coreInsts[i].module
           f == Exports[m][n]
<1>1. i \in DOMAIN coreInsts /\ coreInsts[i].kind = "module"
  BY DEF ModuleInsts
<1>2. x \in Items /\ x.kind = "export" /\ x.inst = i /\ x.name = n
  BY <1>1, ItemFacts
<1>3. Denoted[x] = ExportDenoted(Denoted, i, n)
  <2>1. Denoted[x] = DenotedBody(Denoted, x)
    BY <1>2, DenotedUnfolds
  <2> HIDE DEF x
  <2> QED
    BY <1>2, <2>1 DEF DenotedBody
<1> HIDE DEF x
<1>4. CASE f \in Imports[m]
  <2>1. MergedKind(M, links[i][f]) = Denoted[Export(coreInsts[i].args[f[1]], f[2])]
    BY <1>4, LinkRight
  <2>2. MergedBody(M, x) = MergedKind(M, links[i][f])
    BY <1>2, <1>4 DEF MergedBody
  <2>3. Denoted[x] = Denoted[Export(coreInsts[i].args[f[1]], f[2])]
    BY <1>1, <1>3, <1>4 DEF ExportDenoted
  <2> QED
    BY <2>1, <2>2, <2>3 DEF x
<1>5. CASE f \notin Imports[m]
  <2>1. MergedBody(M, x) = Denoted[x]
    BY <1>1, <1>2, <1>3, <1>5 DEF MergedBody, ExportDenoted
  <2> QED
    BY <2>1 DEF x
<1> QED
  BY <1>4, <1>5

(* Lemma: so, after merging, every export of an instance of a module is    *)
(* what it was in the component.  It says too that merging comes to an     *)
(* end: renames lead from an instance to one of a lower rank.              *)
LEMMA MergedRight ==
  ASSUME NEW rI, NEW rF, WellFormed(rI, rF), Assumed, Linked, InstantiatedOnce
  PROVE  \A i \in ModuleInsts : \A n \in NamesOf(i) :
           Merged[Export(i, n)] = Denoted[Export(i, n)]
<1> DEFINE E == ModuleExports
           T == {r \in Nat : Agrees(rI, r, Merged)}
<1>1. \A i \in ModuleInsts : i \in DOMAIN coreInsts /\ rI[i] \in Nat /\ rI[i] < Size
  BY SizeNat DEF WellFormed, ModuleInsts
<1>2. /\ \A i \in ModuleInsts : \A n \in NamesOf(i) : Export(i, n) \in E
      /\ \A x \in E : \E i \in ModuleInsts : \E n \in NamesOf(i) : x = Export(i, n)
  <2>1. ASSUME NEW i \in ModuleInsts, NEW n \in NamesOf(i) PROVE Export(i, n) \in E
    BY ItemFacts DEF ModuleExports, ModuleInsts
  <2>2. ASSUME NEW x \in E PROVE \E i \in ModuleInsts : \E n \in NamesOf(i) : x = Export(i, n)
    <3>1. x \in Items /\ x.kind = "export" /\ coreInsts[x.inst].kind = "module"
      BY DEF ModuleExports
    <3>2. PICK i \in DOMAIN coreInsts : \E n \in NamesOf(i) : x = Export(i, n)
      BY <3>1, ItemFacts
    <3>3. x.inst = i
      BY <3>2, ItemFacts
    <3> QED
      BY <3>1, <3>2, <3>3 DEF ModuleInsts
  <2> QED
    BY <2>1, <2>2
<1>3. Merged = [x \in E |-> MergedBody(Merged, x)]
  <2> DEFINE g == [x \in E |-> Denoted[x]]
  <2>1. \A r : Agrees(rI, r, g)
    BY <1>2 DEF Agrees
  <2> HIDE DEF g
  <2>2. \A i \in ModuleInsts : \A n \in NamesOf(i) :
          MergedBody(g, Export(i, n)) = Denoted[Export(i, n)]
    BY <2>1, MergedBodyRight
  <2>3. g = [x \in E |-> MergedBody(g, x)]
    BY <1>2, <2>2 DEF g
  <2>4. \E h : h = [x \in E |-> MergedBody(h, x)]
    BY <2>3
  <2>5. Merged = CHOOSE h : h = [x \in E |-> MergedBody(h, x)]
    BY DEF Merged, MergedBody
  <2> QED
    BY <2>4, <2>5
<1>4. 0 \in T
  BY <1>1 DEF Agrees
<1>5. ASSUME NEW r \in T PROVE r + 1 \in T
  <2> SUFFICES ASSUME NEW i \in ModuleInsts, NEW n \in NamesOf(i), rI[i] < r + 1
               PROVE  Merged[Export(i, n)] = Denoted[Export(i, n)]
    BY DEF Agrees
  <2>1. Agrees(rI, rI[i], Merged)
    BY <1>1, <1>5 DEF Agrees
  <2>2. MergedBody(Merged, Export(i, n)) = Denoted[Export(i, n)]
    BY <2>1, MergedBodyRight
  <2> QED
    BY <1>2, <1>3, <2>2
<1>6. Agrees(rI, Size, Merged)
  <2> HIDE DEF T
  <2>1. T \in SUBSET Nat
    BY DEF T
  <2>2. T = Nat
    BY <1>4, <1>5, <2>1, SetInduction
  <2> QED
    BY <2>2, SizeNat DEF T
<1> QED
  BY <1>1, <1>6 DEF Agrees

----------------------------------------------------------------------------
(* Numbers of exports.                                                     *)

FuncsOf(e) == exports[e].funcs
Count(e) == Cardinality(Before(e, 1))

(* Lemma: what the types say of the exports.                               *)
LEMMA ExportFacts ==
  ASSUME ComponentTypeOK
  PROVE  /\ Len(exports) \in Nat /\ DOMAIN exports = 1..Len(exports)
         /\ \A e \in DOMAIN exports :
              /\ FuncsOf(e) \in Seq(DOMAIN compFuncs)
              /\ Len(FuncsOf(e)) \in Nat /\ DOMAIN FuncsOf(e) = 1..Len(FuncsOf(e))
<1>1. exports \in Seq([kind : {"func", "instance"}, funcs : Seq(DOMAIN compFuncs)])
  BY DEF ComponentTypeOK
<1>2. Len(exports) \in Nat /\ DOMAIN exports = 1..Len(exports)
  BY <1>1, LenProperties
<1>3. ASSUME NEW e \in DOMAIN exports PROVE FuncsOf(e) \in Seq(DOMAIN compFuncs)
  <2>1. exports[e] \in [kind : {"func", "instance"}, funcs : Seq(DOMAIN compFuncs)]
    BY <1>1, <1>2, ElementOfSeq
  <2> QED
    BY <2>1 DEF FuncsOf
<1> QED
  BY <1>2, <1>3, LenProperties

(* Lemma: how many functions come before the next, in an export and from   *)
(* an export to the next.                                                  *)
LEMMA BeforeNext ==
  /\ \A e, k \in Nat :
       k >= 1 => Before(e, k + 1) = Before(e, k) \cup {<<e, k>>} /\ <<e, k>> \notin Before(e, k)
  /\ Before(1, 1) = {}
  /\ \A e \in Nat : e >= 1 /\ DOMAIN FuncsOf(e) = 1..Len(FuncsOf(e)) /\ Len(FuncsOf(e)) \in Nat =>
       Before(e + 1, 1) = Before(e, Len(FuncsOf(e)) + 1)
<1>1. ASSUME NEW e \in Nat, NEW k \in Nat, k >= 1
      PROVE  Before(e, k + 1) = Before(e, k) \cup {<<e, k>>} /\ <<e, k>> \notin Before(e, k)
  <2>1. {<<e, j>> : j \in 1..(k + 1) - 1} = {<<e, j>> : j \in 1..k - 1} \cup {<<e, k>>}
    <3>1. 1..(k + 1) - 1 = (1..k - 1) \cup {k}
      BY <1>1
    <3> QED
      BY <3>1
  <2>2. Before(e, k + 1) = Before(e, k) \cup {<<e, k>>}
    BY <2>1, Zenon DEF Before
  <2>3. <<e, k>> \notin {<<e, j>> : j \in 1..k - 1}
    BY <1>1
  <2>4. <<e, k>> \notin UNION {{<<d, j>> : j \in DOMAIN exports[d].funcs} : d \in 1..e - 1}
    <3>1. SUFFICES ASSUME NEW d \in 1..e - 1,
                          <<e, k>> \in {<<d, j>> : j \in DOMAIN exports[d].funcs}
                   PROVE  FALSE
      BY Zenon
    <3>2. e = d
      BY <3>1
    <3> QED
      BY <3>2
  <2> QED
    BY <2>2, <2>3, <2>4, Zenon DEF Before
<1>2. Before(1, 1) = {}
  <2>1. 1..1 - 1 = {}
    OBVIOUS
  <2>2. {<<1, j>> : j \in 1..1 - 1} = {}
    BY <2>1
  <2>3. UNION {{<<d, j>> : j \in DOMAIN exports[d].funcs} : d \in 1..1 - 1} = {}
    BY <2>1, Zenon
  <2> QED
    BY <2>2, <2>3, Zenon DEF Before
<1>3. ASSUME NEW e \in Nat, e >= 1, DOMAIN FuncsOf(e) = 1..Len(FuncsOf(e)), Len(FuncsOf(e)) \in Nat
      PROVE  Before(e + 1, 1) = Before(e, Len(FuncsOf(e)) + 1)
  <2> DEFINE Of(d) == {<<d, j>> : j \in DOMAIN exports[d].funcs}
             n == Len(FuncsOf(e))
  <2>1. 1..(e + 1) - 1 = (1..e - 1) \cup {e} /\ 1..1 - 1 = {} /\ 1..(n + 1) - 1 = 1..n
    BY <1>3
  <2>2. {<<e + 1, j>> : j \in 1..1 - 1} = {}
    BY <2>1
  <2>3. {<<e, j>> : j \in 1..(n + 1) - 1} = Of(e)
    BY <1>3, <2>1 DEF FuncsOf
  <2> HIDE DEF Of
  <2>4. UNION {Of(d) : d \in 1..(e + 1) - 1} = (UNION {Of(d) : d \in 1..e - 1}) \cup Of(e)
    <3>1. UNION {Of(d) : d \in (1..e - 1) \cup {e}} = (UNION {Of(d) : d \in 1..e - 1}) \cup Of(e)
      BY Zenon
    <3> QED
      BY <2>1, <3>1, Zenon
  <2>5. Before(e + 1, 1) = (UNION {Of(d) : d \in 1..(e + 1) - 1}) \cup {<<e + 1, j>> : j \in 1..1 - 1}
    BY Zenon DEF Before, Of
  <2>6. Before(e, n + 1) = (UNION {Of(d) : d \in 1..e - 1}) \cup {<<e, j>> : j \in 1..(n + 1) - 1}
    BY Zenon DEF Before, Of
  <2> QED
    BY <2>2, <2>3, <2>4, <2>5, <2>6, Zenon
<1> QED
  BY <1>1, <1>2, <1>3

(* Lemma: how many functions come before each one of an export.            *)
LEMMA Counted ==
  ASSUME ComponentTypeOK
  PROVE  /\ Count(1) = 0
         /\ \A e \in 1..Len(exports) + 1 : Count(e) \in Nat
         /\ \A e \in DOMAIN exports : Count(e + 1) = Count(e) + Len(FuncsOf(e))
         /\ \A e \in DOMAIN exports : \A k \in 1..Len(FuncsOf(e)) :
              Cardinality(Before(e, k)) = Count(e) + k - 1
<1> DEFINE N == Len(exports)
           Finite(e) == IsFiniteSet(Before(e, 1))
<1>1. N \in Nat /\ DOMAIN exports = 1..N
  BY ExportFacts
<1>2. ASSUME NEW e \in 1..N, Finite(e)
      PROVE  \A n \in Nat : n <= Len(FuncsOf(e)) =>
               /\ IsFiniteSet(Before(e, n + 1))
               /\ Cardinality(Before(e, n + 1)) = Count(e) + n
  <2> DEFINE Q(n) == /\ IsFiniteSet(Before(e, n + 1))
                     /\ Cardinality(Before(e, n + 1)) = Count(e) + n
             T == {n \in Nat : n <= Len(FuncsOf(e)) => Q(n)}
  <2>1. Count(e) \in Nat
    BY <1>2, FS_CardinalityType DEF Count
  <2>2. Q(0)
    BY <1>2, <2>1 DEF Count
  <2>3. ASSUME NEW n \in T PROVE n + 1 \in T
    <3> SUFFICES ASSUME n + 1 <= Len(FuncsOf(e)) PROVE Q(n + 1)
      OBVIOUS
    <3>1. Len(FuncsOf(e)) \in Nat
      BY <1>1, ExportFacts
    <3>2. Q(n)
      BY <2>3, <3>1
    <3> DEFINE k == n + 1
    <3>3. e \in Nat /\ k \in Nat /\ k >= 1
      BY <1>1
    <3> HIDE DEF k
    <3>4. Before(e, k + 1) = Before(e, k) \cup {<<e, k>>} /\ <<e, k>> \notin Before(e, k)
      BY <3>3, BeforeNext
    <3>5. /\ IsFiniteSet(Before(e, (n + 1) + 1))
          /\ Cardinality(Before(e, (n + 1) + 1)) = Cardinality(Before(e, n + 1)) + 1
      BY <3>2, <3>4, FS_AddElement DEF k
    <3> QED
      BY <2>1, <3>2, <3>5
  <2> HIDE DEF Q
  <2>4. 0 \in T
    BY <2>2
  <2>5. T \in SUBSET Nat
    OBVIOUS
  <2> HIDE DEF T
  <2>6. T = Nat
    BY <2>3, <2>4, <2>5, SetInduction
  <2> QED
    BY <2>6 DEF T, Q
<1>3. \A e \in 1..N + 1 : Finite(e)
  <2> DEFINE T == {e \in Nat : e + 1 <= N + 1 => Finite(e + 1)}
  <2>1. 0 \in T
    <3>1. Finite(1)
      BY BeforeNext, FS_EmptySet
    <3> HIDE DEF Finite
    <3> QED
      BY <3>1
  <2>2. ASSUME NEW e \in T PROVE e + 1 \in T
    <3> SUFFICES ASSUME (e + 1) + 1 <= N + 1 PROVE Finite((e + 1) + 1)
      OBVIOUS
    <3>1. e + 1 \in 1..N /\ Finite(e + 1)
      BY <1>1, <2>2
    <3>2. /\ Len(FuncsOf(e + 1)) \in Nat
          /\ DOMAIN FuncsOf(e + 1) = 1..Len(FuncsOf(e + 1))
      BY <1>1, <3>1, ExportFacts
    <3>3. IsFiniteSet(Before(e + 1, Len(FuncsOf(e + 1)) + 1))
      BY <1>2, <3>1, <3>2
    <3>4. Before((e + 1) + 1, 1) = Before(e + 1, Len(FuncsOf(e + 1)) + 1)
      BY <3>2, BeforeNext
    <3> QED
      BY <3>3, <3>4
  <2>3. T \in SUBSET Nat
    OBVIOUS
  <2> HIDE DEF T
  <2>4. T = Nat
    BY <2>1, <2>2, <2>3, SetInduction
  <2> SUFFICES ASSUME NEW e \in 1..N + 1 PROVE Finite(e)
    OBVIOUS
  <2>5. e - 1 \in T
    BY <1>1, <2>4
  <2> HIDE DEF Finite
  <2>6. Finite((e - 1) + 1)
    BY <1>1, <2>5 DEF T
  <2> QED
    BY <1>1, <2>6
<1>4. Count(1) = 0
  BY BeforeNext, FS_EmptySet DEF Count
<1>5. \A e \in 1..N + 1 : Count(e) \in Nat
  BY <1>3, FS_CardinalityType DEF Count
<1>6. ASSUME NEW e \in 1..N PROVE Count(e + 1) = Count(e) + Len(FuncsOf(e))
  <2>1. Finite(e)
    BY <1>1, <1>3
  <2>2. Len(FuncsOf(e)) \in Nat /\ DOMAIN FuncsOf(e) = 1..Len(FuncsOf(e))
    BY <1>1, ExportFacts
  <2>3. Cardinality(Before(e, Len(FuncsOf(e)) + 1)) = Count(e) + Len(FuncsOf(e))
    BY <1>2, <2>1, <2>2
  <2>4. Before(e + 1, 1) = Before(e, Len(FuncsOf(e)) + 1)
    BY <1>1, <2>2, BeforeNext
  <2> QED
    BY <2>3, <2>4 DEF Count
<1>7. ASSUME NEW e \in 1..N, NEW k \in 1..Len(FuncsOf(e))
      PROVE  Cardinality(Before(e, k)) = Count(e) + k - 1
  <2>1. Finite(e) /\ Count(e) \in Nat
    BY <1>1, <1>3, <1>5
  <2>2. Len(FuncsOf(e)) \in Nat
    BY <1>1, ExportFacts
  <2>3. k - 1 \in Nat /\ k - 1 <= Len(FuncsOf(e)) /\ (k - 1) + 1 = k
    BY <2>2
  <2>4. Cardinality(Before(e, (k - 1) + 1)) = Count(e) + (k - 1)
    BY <1>2, <2>1, <2>3
  <2> QED
    BY <2>1, <2>3, <2>4
<1> QED
  BY <1>1, <1>4, <1>5, <1>6, <1>7

(* FlattenSeq joins one sequence after the other.                          *)
FlatBody(g, s, e) == IF e = 1 THEN s[e] ELSE g[e - 1] \o s[e]
Flat(s) == CHOOSE g : g = [e \in 1..Len(s) |-> FlatBody(g, s, e)]

(* Lemma: FlattenSeq joins the sequences one after the other.              *)
LEMMA FlatUnfolds ==
  ASSUME NEW s, Len(s) \in Nat
  PROVE  /\ \A e \in 1..Len(s) : Flat(s)[e] = FlatBody(Flat(s), s, e)
         /\ Len(s) # 0 => FlattenSeq(s) = Flat(s)[Len(s)]
<1> DEFINE D == 1..Len(s)
           T == {n \in Nat : \E g : \A e \in D : e < n => g[e] = FlatBody(g, s, e)}
<1>1. ASSUME NEW e \in D, NEW g, NEW h, \A d \in D : d < e => g[d] = h[d]
      PROVE  FlatBody(g, s, e) = FlatBody(h, s, e)
  <2>1. e # 1 => e - 1 \in D /\ e - 1 < e
    OBVIOUS
  <2> QED
    BY <1>1, <2>1 DEF FlatBody
<1>2. 0 \in T
  OBVIOUS
<1>3. ASSUME NEW n \in T PROVE n + 1 \in T
  <2>1. PICK g : \A e \in D : e < n => g[e] = FlatBody(g, s, e)
    BY <1>3
  <2> DEFINE h == [e \in D |-> IF e < n THEN g[e] ELSE FlatBody(g, s, e)]
  <2>2. ASSUME NEW e \in D, e < n + 1 PROVE h[e] = FlatBody(h, s, e)
    <3>1. \A d \in D : d < e => g[d] = h[d]
      BY <2>2
    <3>2. FlatBody(h, s, e) = FlatBody(g, s, e)
      BY <3>1, <1>1
    <3>3. h[e] = FlatBody(g, s, e)
      BY <2>1
    <3> QED
      BY <3>2, <3>3
  <2> HIDE DEF h
  <2>3. \E x : \A e \in D : e < n + 1 => x[e] = FlatBody(x, s, e)
    BY <2>2
  <2> QED
    BY <2>3
<1>4. Len(s) + 1 \in T
  <2>1. T \in SUBSET Nat
    OBVIOUS
  <2> HIDE DEF T
  <2>2. T = Nat
    BY <1>2, <1>3, <2>1, SetInduction
  <2> QED
    BY <2>2
<1>5. PICK g : \A e \in D : g[e] = FlatBody(g, s, e)
  BY <1>4
<1> DEFINE r == [e \in D |-> g[e]]
<1>6. \A e \in D : FlatBody(g, s, e) = FlatBody(r, s, e)
  BY <1>1
<1>7. r = [e \in D |-> FlatBody(r, s, e)]
  BY <1>5, <1>6
<1> HIDE DEF r
<1>8. \E x : x = [e \in D |-> FlatBody(x, s, e)]
  BY <1>7
<1>9. Flat(s) = [e \in D |-> FlatBody(Flat(s), s, e)]
  BY <1>8 DEF Flat
<1>10. Len(s) # 0 => FlattenSeq(s) = Flat(s)[Len(s)]
  BY DEF FlattenSeq, Flat, FlatBody
<1> QED
  BY <1>9, <1>10

(* The functions of the exports up to e, in order.                         *)
Ordered(q, e) ==
  /\ q \in Seq(DOMAIN compFuncs)
  /\ Len(q) = Count(e + 1)
  /\ \A d \in 1..e : \A k \in 1..Len(FuncsOf(d)) :
       Count(d) + k \in 1..Len(q) /\ q[Count(d) + k] = FuncsOf(d)[k]
  /\ \A p \in 1..Len(q) : \E d \in 1..e : \E k \in 1..Len(FuncsOf(d)) : p = Count(d) + k

(* Lemma: the functions up to an export, and those of the next, are in     *)
(* order.                                                                  *)
LEMMA OrderedNext ==
  ASSUME ComponentTypeOK, NEW e \in 1..Len(exports), e + 1 \in 1..Len(exports),
         NEW q, Ordered(q, e)
  PROVE  Ordered(q \o FuncsOf(e + 1), e + 1)
<1> DEFINE s == FuncsOf(e + 1)
           t == q \o s
           S == DOMAIN compFuncs
<1>1. Len(exports) \in Nat /\ DOMAIN exports = 1..Len(exports)
  BY ExportFacts
<1>2. s \in Seq(S) /\ Len(s) \in Nat
  BY <1>1, ExportFacts
<1>3. q \in Seq(S) /\ Len(q) = Count(e + 1) /\ Len(q) \in Nat
  BY LenProperties DEF Ordered
<1>4. /\ t \in Seq(S) /\ Len(t) = Len(q) + Len(s)
      /\ \A i \in 1..Len(t) : t[i] = IF i <= Len(q) THEN q[i] ELSE s[i - Len(q)]
  BY <1>2, <1>3, ConcatProperties
<1> HIDE DEF t
<1>5. Len(t) = Count((e + 1) + 1)
  BY <1>1, <1>3, <1>4, Counted
<1>6. ASSUME NEW d \in 1..e + 1, NEW k \in 1..Len(FuncsOf(d))
      PROVE  Count(d) + k \in 1..Len(t) /\ t[Count(d) + k] = FuncsOf(d)[k]
  <2>1. CASE d = e + 1
    <3>1. k \in 1..Len(s) /\ Count(d) = Len(q)
      BY <1>3, <2>1
    <3>2. Len(q) + k \in 1..Len(t) /\ ~ (Len(q) + k <= Len(q)) /\ (Len(q) + k) - Len(q) = k
      BY <1>2, <1>3, <1>4, <3>1
    <3>3. t[Len(q) + k] = s[k]
      BY <1>4, <3>2
    <3> QED
      BY <2>1, <3>1, <3>2, <3>3
  <2>2. CASE d # e + 1
    <3>1. d \in 1..e
      BY <1>1, <2>2
    <3>2. Count(d) + k \in 1..Len(q) /\ q[Count(d) + k] = FuncsOf(d)[k]
      BY <3>1 DEF Ordered
    <3> QED
      BY <1>2, <1>3, <1>4, <3>2
  <2> QED
    BY <2>1, <2>2
<1>7. ASSUME NEW p \in 1..Len(t)
      PROVE  \E d \in 1..e + 1 : \E k \in 1..Len(FuncsOf(d)) : p = Count(d) + k
  <2>1. CASE p <= Len(q)
    <3>1. p \in 1..Len(q)
      BY <1>2, <1>3, <1>4, <2>1
    <3>2. PICK d \in 1..e : \E k \in 1..Len(FuncsOf(d)) : p = Count(d) + k
      BY <3>1 DEF Ordered
    <3> QED
      BY <3>2
  <2>2. CASE ~ (p <= Len(q))
    <3>1. p - Len(q) \in 1..Len(s) /\ p = Count(e + 1) + (p - Len(q))
      BY <1>2, <1>3, <1>4, <2>2
    <3>2. e + 1 \in 1..e + 1
      BY <1>1
    <3> QED
      BY <3>1, <3>2
  <2> QED
    BY <2>1, <2>2
<1>8. Ordered(t, e + 1)
  BY <1>4, <1>5, <1>6, <1>7 DEF Ordered
<1> QED
  BY <1>8 DEF t

(* Lemma: in the order of export_funcs every exported function has the     *)
(* place that the number of those before it says, and there are no others. *)
LEMMA InOrderRight ==
  ASSUME ComponentTypeOK
  PROVE  LET order == InOrder(exports) IN
           /\ \A e \in DOMAIN exports : \A k \in DOMAIN exports[e].funcs :
                /\ Cardinality(Before(e, k)) \in Nat
                /\ Cardinality(Before(e, k)) + 1 \in DOMAIN order
                /\ order[Cardinality(Before(e, k)) + 1] = exports[e].funcs[k]
           /\ \A p \in DOMAIN order : p \in Nat /\ p >= 1
           /\ \A p \in DOMAIN order : \E e \in DOMAIN exports : \E k \in DOMAIN exports[e].funcs :
                order[p] = exports[e].funcs[k]
<1> DEFINE N == Len(exports)
           order == InOrder(exports)
           s == [e \in DOMAIN exports |-> exports[e].funcs]
<1>1. N \in Nat /\ DOMAIN exports = 1..N
  BY ExportFacts
<1>2. s = [e \in 1..N |-> FuncsOf(e)]
  BY <1>1 DEF FuncsOf
<1>3. Len(s) = N
  BY <1>1, <1>2
<1>4. order = FlattenSeq(s)
  BY DEF InOrder
<1> HIDE DEF s, order
<1>5. CASE N = 0
  <2>1. order = s
    BY <1>3, <1>4, <1>5 DEF FlattenSeq
  <2>2. DOMAIN order = {}
    BY <1>2, <1>5, <2>1
  <2>3. DOMAIN exports = {}
    BY <1>1, <1>5
  <2> QED
    BY <2>2, <2>3 DEF order
<1>6. CASE N # 0
  <2> DEFINE F == Flat(s)
             T == {e \in Nat : e + 1 \in 1..N => Ordered(F[e + 1], e + 1)}
  <2>1. /\ \A e \in 1..N : F[e] = FlatBody(F, s, e)
        /\ order = F[N]
    BY <1>1, <1>3, <1>4, <1>6, FlatUnfolds
  <2>2. 0 \in T
    <3>1. F[1] = FuncsOf(1) /\ 1 \in 1..N
      BY <1>1, <1>2, <1>6, <2>1 DEF FlatBody
    <3> DEFINE q == FuncsOf(1)
    <3>2. q \in Seq(DOMAIN compFuncs) /\ Len(q) \in Nat
      BY <1>1, <3>1, ExportFacts
    <3>3. Count(1) = 0 /\ Count(1 + 1) = Count(1) + Len(q)
      BY <1>1, <3>1, Counted
    <3>4. Len(q) = Count(1 + 1)
      BY <3>2, <3>3
    <3>5. \A d \in 1..1 : d = 1
      OBVIOUS
    <3>6. \A d \in 1..1 : \A k \in 1..Len(FuncsOf(d)) :
            Count(d) + k \in 1..Len(q) /\ q[Count(d) + k] = FuncsOf(d)[k]
      BY <3>2, <3>3, <3>5
    <3>7. \A p \in 1..Len(q) : \E d \in 1..1 : \E k \in 1..Len(FuncsOf(d)) : p = Count(d) + k
      <4>1. 1 \in 1..1 /\ \A p \in 1..Len(q) : p = Count(1) + p
        BY <3>2, <3>3
      <4> QED
        BY <4>1
    <3>8. Ordered(q, 1)
      BY <3>2, <3>4, <3>6, <3>7 DEF Ordered
    <3> HIDE DEF q, F
    <3>9. Ordered(F[0 + 1], 0 + 1)
      BY <3>1, <3>8 DEF q
    <3> QED
      BY <3>9
  <2>3. ASSUME NEW e \in T PROVE e + 1 \in T
    <3> SUFFICES ASSUME (e + 1) + 1 \in 1..N PROVE Ordered(F[(e + 1) + 1], (e + 1) + 1)
      OBVIOUS
    <3> DEFINE d == e + 1
    <3>1. d \in 1..N /\ d + 1 \in 1..N /\ d + 1 # 1 /\ (d + 1) - 1 = d
      BY <1>1
    <3>2. Ordered(F[d], d)
      BY <2>3, <3>1
    <3> HIDE DEF d
    <3>3. F[d + 1] = F[d] \o FuncsOf(d + 1)
      BY <1>2, <2>1, <3>1 DEF FlatBody
    <3>4. Ordered(F[d] \o FuncsOf(d + 1), d + 1)
      BY <3>1, <3>2, OrderedNext
    <3> QED
      BY <3>3, <3>4 DEF d
  <2>4. Ordered(order, N)
    <3>1. T \in SUBSET Nat
      OBVIOUS
    <3>2. N - 1 \in Nat /\ (N - 1) + 1 = N /\ N \in 1..N
      BY <1>1, <1>6
    <3> HIDE DEF T, F
    <3>3. T = Nat
      BY <2>2, <2>3, <3>1, SetInduction
    <3>4. N - 1 \in T
      BY <3>2, <3>3
    <3>5. Ordered(F[(N - 1) + 1], (N - 1) + 1)
      BY <3>2, <3>4 DEF T
    <3> QED
      BY <2>1, <3>2, <3>5
  <2>5. order \in Seq(DOMAIN compFuncs) /\ Len(order) \in Nat /\ DOMAIN order = 1..Len(order)
    BY <2>4, LenProperties DEF Ordered
  <2>6. ASSUME NEW e \in 1..N, NEW k \in DOMAIN FuncsOf(e)
        PROVE  /\ Cardinality(Before(e, k)) \in Nat
               /\ Cardinality(Before(e, k)) + 1 \in DOMAIN order
               /\ order[Cardinality(Before(e, k)) + 1] = FuncsOf(e)[k]
    <3>1. k \in 1..Len(FuncsOf(e)) /\ Len(FuncsOf(e)) \in Nat
      BY <1>1, ExportFacts
    <3>2. Cardinality(Before(e, k)) = Count(e) + k - 1 /\ Count(e) \in Nat
      <4>1. e \in 1..N + 1
        BY <1>1
      <4> QED
        BY <1>1, <3>1, <4>1, Counted
    <3>3. Cardinality(Before(e, k)) + 1 = Count(e) + k
      BY <3>1, <3>2
    <3>4. Count(e) + k \in 1..Len(order) /\ order[Count(e) + k] = FuncsOf(e)[k]
      BY <2>4, <3>1 DEF Ordered
    <3> QED
      BY <2>5, <3>1, <3>2, <3>3, <3>4
  <2>7. ASSUME NEW p \in DOMAIN order
        PROVE  \E e \in 1..N : \E k \in DOMAIN FuncsOf(e) : order[p] = FuncsOf(e)[k]
    <3>1. PICK e \in 1..N : \E k \in 1..Len(FuncsOf(e)) : p = Count(e) + k
      BY <2>4, <2>5 DEF Ordered
    <3>2. PICK k \in 1..Len(FuncsOf(e)) : p = Count(e) + k
      BY <3>1
    <3>3. k \in DOMAIN FuncsOf(e)
      BY <1>1, ExportFacts
    <3> QED
      BY <2>4, <3>2, <3>3 DEF Ordered
  <2> QED
    BY <1>1, <2>5, <2>6, <2>7 DEF FuncsOf, order
<1> QED
  BY <1>5, <1>6

(* Lemma: the function and the option that an export is dispatched to.     *)
LEMMA HandleRight ==
  ASSUME NEW rI, NEW rF, WellFormed(rI, rF), Assumed, NEW f \in DOMAIN compFuncs,
         handle_func(f) # Panic
  PROVE  LET c == resolve_component_func[f]
             h == handle_func(f)
         IN /\ h.func \in Renames /\ h.func.package \in ModuleInsts
            /\ h.option = None \/ h.option \in Renames
            /\ Linked /\ InstantiatedOnce =>
                 /\ Merged[Export(h.func.package, h.func.member)] = Denoted[Func(c.core)]
                 /\ MergedKind(Merged, h.option) = OptionDenoted(Denoted, c.realloc)
<1> DEFINE c == resolve_component_func[f]
           k == Rename(resolve_core_func[c.core])
           o == FuncOption(c.realloc)
<1>1. /\ c.kind = "lifted" /\ resolve_core_func[c.core].kind = "fromModule" /\ o # Panic
      /\ handle_func(f) = [func |-> k, option |-> o]
  BY DEF handle_func
<1>2. c.core \in DOMAIN coreFuncs /\ c.realloc \in {0} \cup DOMAIN coreFuncs
  BY <1>1, ComponentResolved
<1>3. PICK i \in ModuleInsts : \E n \in NamesOf(i) : Leads(rI, rF, c.core, i, n)
  BY <1>1, <1>2, ResolveRight DEF ResolvedRight, Panic
<1>4. PICK n \in NamesOf(i) : Leads(rI, rF, c.core, i, n)
  BY <1>3
<1> HIDE DEF c
<1>5. /\ k \in Renames /\ k.package \in ModuleInsts /\ k.member \in NamesOf(k.package)
      /\ InstantiatedOnce =>
           k.package = i /\ Denoted[Export(i, k.member)] = Denoted[Func(c.core)]
  BY <1>2, <1>4, RenameRight
<1>6. Size \in Int /\ OptionBelow(rF, c.realloc, Size)
  BY <1>2, SizeNat DEF OptionBelow, WellFormed
<1>7. /\ o = None \/ o \in Renames
      /\ InstantiatedOnce => \A M : Agrees(rI, Size, M) =>
           MergedRename(M, o) = OptionDenoted(Denoted, c.realloc)
  BY <1>1, <1>2, <1>6, OptionRight
<1> HIDE DEF k, o
<1>8. ASSUME Linked, InstantiatedOnce
      PROVE  /\ Merged[Export(k.package, k.member)] = Denoted[Func(c.core)]
             /\ MergedKind(Merged, o) = OptionDenoted(Denoted, c.realloc)
  <2>1. \A j \in ModuleInsts : \A x \in NamesOf(j) : Merged[Export(j, x)] = Denoted[Export(j, x)]
    BY <1>8, MergedRight
  <2>2. Agrees(rI, Size, Merged)
    BY <2>1 DEF Agrees
  <2>3. Merged[Export(k.package, k.member)] = Denoted[Func(c.core)]
    BY <1>5, <1>8, <2>1
  <2>4. o.kind \in {"none", "rename"}
    BY <1>7 DEF Renames, None
  <2>5. MergedKind(Merged, o) = MergedRename(Merged, o)
    BY <2>4 DEF MergedKind
  <2> QED
    BY <1>7, <1>8, <2>2, <2>3, <2>5
<1> QED
  BY <1>1, <1>5, <1>7, <1>8 DEF c, k, o

(* Lemma: the functions that GatherComponentExports numbers.               *)
LEMMA ExportFuncFacts ==
  ASSUME NEW rI, NEW rF, WellFormed(rI, rF), Assumed, Gathered,
         NEW p \in DOMAIN InOrder(exports)
  PROVE  /\ p \in Nat /\ p >= 1
         /\ InOrder(exports)[p] \in DOMAIN compFuncs
         /\ handle_func(InOrder(exports)[p]) # Panic
<1>1. PICK e \in DOMAIN exports : \E k \in DOMAIN exports[e].funcs :
        InOrder(exports)[p] = exports[e].funcs[k]
  BY InOrderRight DEF WellFormed
<1>2. PICK k \in DOMAIN exports[e].funcs : InOrder(exports)[p] = exports[e].funcs[k]
  BY <1>1
<1>3. /\ FuncsOf(e) \in Seq(DOMAIN compFuncs)
      /\ Len(FuncsOf(e)) \in Nat /\ DOMAIN FuncsOf(e) = 1..Len(FuncsOf(e))
  BY ExportFacts DEF WellFormed
<1>4. FuncsOf(e)[k] \in DOMAIN compFuncs
  BY <1>2, <1>3, ElementOfSeq DEF FuncsOf
<1>5. p \in Nat /\ p >= 1
  BY InOrderRight DEF WellFormed
<1> QED
  BY <1>2, <1>4, <1>5 DEF FuncsOf, Gathered

(* Lemma: the one entry under the number of an exported function is        *)
(* dispatched to what the function is lifted from.                         *)
LEMMA ExportsRightStatic ==
  ASSUME NEW rI, NEW rF, WellFormed(rI, rF), Assumed, Linked, Gathered, InstantiatedOnce,
         NEW e \in DOMAIN exports, NEW k \in DOMAIN exports[e].funcs
  PROVE  LET c == resolve_component_func[exports[e].funcs[k]]
             numbered == {x \in exportFuncs : x.record_id = Cardinality(Before(e, k))}
         IN {<<Merged[Export(x.inst, x.name)], MergedKind(Merged, x.option)>> : x \in numbered} =
            {<<Denoted[Func(c.core)], OptionDenoted(Denoted, c.realloc)>>}
<1> DEFINE c == resolve_component_func[exports[e].funcs[k]]
           n == Cardinality(Before(e, k))
           numbered == {x \in exportFuncs : x.record_id = n}
           order == InOrder(exports)
           h == handle_func(order[n + 1])
           y == ExportFunc(n + 1)
<1>1. n \in Nat /\ n + 1 \in DOMAIN order /\ order[n + 1] = exports[e].funcs[k]
  BY InOrderRight DEF WellFormed
<1>2. order[n + 1] \in DOMAIN compFuncs /\ h # Panic
  BY <1>1, ExportFuncFacts
<1>3. /\ Merged[Export(h.func.package, h.func.member)] = Denoted[Func(c.core)]
      /\ MergedKind(Merged, h.option) = OptionDenoted(Denoted, c.realloc)
  BY <1>1, <1>2, HandleRight
<1>4. /\ y.record_id = (n + 1) - 1 /\ y.inst = h.func.package /\ y.name = h.func.member
      /\ y.option = h.option
  BY DEF ExportFunc
<1>5. numbered = {y}
  <2>1. y \in numbered
    <3>1. y \in exportFuncs
      BY <1>1 DEF Gathered
    <3> QED
      BY <1>1, <1>4, <3>1
  <2>2. ASSUME NEW x \in numbered PROVE x = y
    <3>1. PICK p \in DOMAIN order : x = ExportFunc(p)
      BY DEF Gathered
    <3>2. x.record_id = p - 1 /\ p \in Nat
      BY <3>1, ExportFuncFacts DEF ExportFunc
    <3>3. p = n + 1
      BY <1>1, <3>2
    <3> QED
      BY <3>1, <3>3
  <2> QED
    BY <2>1, <2>2
<1> HIDE DEF y, numbered, h, c
<1>6. {<<Merged[Export(x.inst, x.name)], MergedKind(Merged, x.option)>> : x \in numbered} =
      {<<Denoted[Func(c.core)], OptionDenoted(Denoted, c.realloc)>>}
  BY <1>3, <1>4, <1>5
<1> QED
  BY <1>6 DEF c, numbered

----------------------------------------------------------------------------
(* What is supported is accepted.                                          *)

(* One step of OfModule.                                                   *)
OfBody(g, f) ==
  LET c == coreFuncs[f]
      i == coreInsts[c.inst]
  IN c.kind = "alias" /\ (i.kind = "module" \/ g[i.exports[c.name]])
ResolvesToModule(f) == resolve_core_func[f].kind = "fromModule"

(* Lemma: an alias comes from a module if and only if it resolves to a     *)
(* function of one, given so for functions of a lower rank.                *)
LEMMA OfBodyRight ==
  ASSUME NEW rI, NEW rF, WellFormed(rI, rF), NEW f \in DOMAIN coreFuncs, NEW g,
         \A e \in DOMAIN coreFuncs : rF[e] < rF[f] => g[e] = ResolvesToModule(e)
  PROVE  OfBody(g, f) = ResolvesToModule(f)
<1> DEFINE c == coreFuncs[f]
           i == coreInsts[c.inst]
           e == i.exports[c.name]
<1>1. resolve_core_func[f] = ResolveBody(resolve_core_func, f)
  BY ResolveUnfolds
<1>2. CASE c.kind # "alias"
  <2>1. resolve_core_func[f].kind # "fromModule"
    BY <1>1, <1>2, FuncFacts DEF ResolveBody, WellFormed
  <2> QED
    BY <1>2, <2>1 DEF OfBody, ResolvesToModule
<1>3. CASE c.kind = "alias"
  <2>1. c.inst \in DOMAIN coreInsts /\ c.name \in NamesOf(c.inst) /\ rI[c.inst] < rF[f]
    BY <1>3, FuncFacts DEF WellFormed, Named, Ranked
  <2>2. CASE i.kind = "module"
    <3>1. resolve_core_func[f].kind = "fromModule"
      BY <1>1, <1>3, <2>2 DEF ResolveBody, follow_alias, FromModule
    <3> QED
      BY <1>3, <2>2, <3>1 DEF OfBody, ResolvesToModule
  <2>3. CASE i.kind = "exports"
    <3>1. e \in DOMAIN coreFuncs /\ rF[e] < rI[c.inst]
      BY <2>1, <2>3, InstanceFacts DEF WellFormed, NamesOf, Ranked
    <3>2. rF[e] < rF[f]
      BY <2>1, <3>1 DEF WellFormed
    <3>3. g[e] = ResolvesToModule(e)
      BY <3>1, <3>2
    <3>4. OfBody(g, f) = ResolvesToModule(e)
      BY <1>3, <2>3, <3>3 DEF OfBody, ResolvesToModule
    <3>5. resolve_core_func[f] =
            IF resolve_core_func[e].kind = "fromModule" THEN resolve_core_func[e] ELSE Panic
      BY <1>1, <1>3, <2>3 DEF ResolveBody, follow_alias, Followed
    <3> QED
      BY <3>4, <3>5 DEF ResolvesToModule, Panic
  <2> QED
    BY <2>1, <2>2, <2>3, InstanceFacts DEF WellFormed
<1> QED
  BY <1>2, <1>3

(* Lemma: a core function comes from a module, through any synthetic       *)
(* instances, if and only if it resolves to a function of a module.        *)
LEMMA OfModuleRight ==
  ASSUME NEW rI, NEW rF, WellFormed(rI, rF)
  PROVE  \A f \in DOMAIN coreFuncs : OfModule[f] = ResolvesToModule(f)
<1> DEFINE D == DOMAIN coreFuncs
           g == [f \in D |-> ResolvesToModule(f)]
           T == {n \in Nat : \A f \in D : rF[f] < n => OfModule[f] = ResolvesToModule(f)}
<1>1. \A f \in D : rF[f] \in Nat /\ rF[f] < Size
  BY SizeNat DEF WellFormed
<1>2. \A f \in D : OfBody(g, f) = ResolvesToModule(f)
  <2>1. \A f \in D : g[f] = ResolvesToModule(f)
    OBVIOUS
  <2> HIDE DEF g
  <2> QED
    BY <2>1, OfBodyRight
<1>3. OfModule = [f \in D |-> OfBody(OfModule, f)]
  <2>1. g = [f \in D |-> OfBody(g, f)]
    BY <1>2
  <2> HIDE DEF g
  <2>2. \E h : h = [f \in D |-> OfBody(h, f)]
    BY <2>1
  <2>3. OfModule = CHOOSE h : h = [f \in D |-> OfBody(h, f)]
    BY DEF OfModule, OfBody
  <2> QED
    BY <2>2, <2>3
<1>4. 0 \in T
  BY <1>1
<1>5. ASSUME NEW n \in T PROVE n + 1 \in T
  <2> SUFFICES ASSUME NEW f \in D, rF[f] < n + 1 PROVE OfModule[f] = ResolvesToModule(f)
    OBVIOUS
  <2>1. \A e \in D : rF[e] < rF[f] => OfModule[e] = ResolvesToModule(e)
    BY <1>1, <1>5
  <2>2. OfBody(OfModule, f) = ResolvesToModule(f)
    BY <2>1, OfBodyRight
  <2>3. OfModule[f] = OfBody(OfModule, f)
    BY <1>3
  <2> QED
    BY <2>2, <2>3
<1>6. Size \in T
  <2>1. T \in SUBSET Nat
    OBVIOUS
  <2> HIDE DEF T
  <2> QED
    BY <1>4, <1>5, <2>1, SetInduction, SizeNat
<1> QED
  BY <1>1, <1>6

(* Lemma: no option or destructor of a supported component panics.         *)
LEMMA OptionSupported ==
  ASSUME NEW rI, NEW rF, WellFormed(rI, rF), NEW f \in {0} \cup DOMAIN coreFuncs,
         f # 0 => OfModule[f]
  PROVE  FuncOption(f) # Panic
<1>1. CASE f = 0
  BY <1>1 DEF FuncOption, None, Panic
<1>2. CASE f # 0
  <2>1. resolve_core_func[f].kind = "fromModule"
    BY <1>2, OfModuleRight DEF ResolvesToModule
  <2>2. FuncOption(f) = Rename(resolve_core_func[f])
    BY <1>2, <2>1 DEF FuncOption
  <2> QED
    BY <2>2 DEF Rename, Panic
<1> QED
  BY <1>1, <1>2

(* Lemma: no link for a core function of a supported component panics.     *)
LEMMA FuncLinkSupported ==
  ASSUME NEW rI, NEW rF, WellFormed(rI, rF), Supported, NEW f \in DOMAIN coreFuncs
  PROVE  resolve_core_func_link(f) # Panic
<1> DEFINE c == coreFuncs[f]
           r == resolve_core_func[f]
<1>1. CASE c.kind = "alias"
  <2>1. OfModule[f]
    BY <1>1 DEF Supported
  <2>2. r.kind = "fromModule"
    BY <2>1, OfModuleRight DEF ResolvesToModule
  <2>3. resolve_core_func_link(f) = Rename(r)
    BY <2>2 DEF resolve_core_func_link
  <2> QED
    BY <2>3 DEF Rename, Panic
<1>2. CASE c.kind # "alias"
  <2>1. r = c
    BY <1>2, ResolveUnfolds DEF ResolveBody
  <2>2. CASE c.kind = "lower"
    <3>1. /\ resolve_component_func[c.func].kind = "imported"
          /\ c.realloc # 0 => OfModule[c.realloc]
      BY <2>2 DEF Supported
    <3>2. FuncOption(c.realloc) # Panic
      BY <2>2, <3>1, FuncFacts, OptionSupported DEF WellFormed
    <3>3. resolve_core_func_link(f) = WithOption("trueImport", TRUE, FuncOption(c.realloc))
      BY <2>1, <2>2, <3>1 DEF resolve_core_func_link
    <3> QED
      BY <3>2, <3>3 DEF WithOption, Panic
  <2>3. CASE c.kind = "drop"
    <3>1. c.dtor # 0 => OfModule[c.dtor]
      BY <2>3 DEF Supported
    <3>2. FuncOption(c.dtor) # Panic
      BY <2>3, <3>1, FuncFacts, OptionSupported DEF WellFormed
    <3>3. resolve_core_func_link(f) = WithOption("builtin", c.host, FuncOption(c.dtor))
      BY <2>1, <2>3 DEF resolve_core_func_link
    <3> QED
      BY <3>2, <3>3 DEF WithOption, Panic
  <2>4. CASE c.kind = "new"
    <3>1. resolve_core_func_link(f) = WithOption("builtin", FALSE, None)
      BY <2>1, <2>4 DEF resolve_core_func_link
    <3> QED
      BY <3>1 DEF WithOption, Panic, None
  <2> QED
    BY <1>2, <2>2, <2>3, <2>4, FuncFacts DEF WellFormed
<1> QED
  BY <1>1, <1>2

(* Lemma: linking_metadata panics for no instance of a supported           *)
(* component.                                                              *)
LEMMA LinkSupported ==
  ASSUME NEW rI, NEW rF, WellFormed(rI, rF), Supported, NEW i \in ModuleInsts
  PROVE  /\ ~Unmatched(coreInsts[i].module, coreInsts[i].args)
         /\ \A j \in DOMAIN LinkedArgs(i) : LinkedArgs(i)[j] # Panic
<1> DEFINE m == coreInsts[i].module
<1>1. i \in DOMAIN coreInsts /\ coreInsts[i].kind = "module"
  BY DEF ModuleInsts
<1>2. ~Unmatched(m, coreInsts[i].args)
  BY <1>1 DEF Unmatched, Supported
<1>3. LinkedArgs(i) = [j \in Imports[m] |-> ImportKind(coreInsts[i].args[j[1]], j[2])]
  BY <1>1 DEF LinkedArgs
<1>4. ASSUME NEW j \in Imports[m] PROVE ImportKind(coreInsts[i].args[j[1]], j[2]) # Panic
  <2> DEFINE a == coreInsts[i].args[j[1]]
  <2>1. a \in DOMAIN coreInsts /\ j[2] \in NamesOf(a)
    BY GivenFacts DEF WellFormed
  <2> HIDE DEF a
  <2>2. CASE coreInsts[a].kind = "exports"
    <3>1. coreInsts[a].exports[j[2]] \in DOMAIN coreFuncs
      BY <2>1, <2>2, InstanceFacts DEF WellFormed, NamesOf
    <3> QED
      BY <2>2, <3>1, FuncLinkSupported DEF ImportKind, a
  <2>3. CASE coreInsts[a].kind = "module"
    BY <2>3 DEF ImportKind, Panic, a
  <2> QED
    BY <2>1, <2>2, <2>3, InstanceFacts DEF WellFormed
<1> QED
  BY <1>2, <1>3, <1>4

(* Lemma: handle_func panics for no export of a supported component.       *)
LEMMA ExportSupported ==
  ASSUME NEW rI, NEW rF, WellFormed(rI, rF), Supported, NEW p \in DOMAIN InOrder(exports)
  PROVE  handle_func(InOrder(exports)[p]) # Panic
<1>1. PICK e \in DOMAIN exports : \E k \in DOMAIN exports[e].funcs :
        InOrder(exports)[p] = exports[e].funcs[k]
  BY InOrderRight DEF WellFormed
<1>2. PICK k \in DOMAIN exports[e].funcs : InOrder(exports)[p] = exports[e].funcs[k]
  BY <1>1
<1> DEFINE f == exports[e].funcs[k]
           c == resolve_component_func[f]
<1>3. c.kind = "lifted" /\ OfModule[c.core] /\ (c.realloc # 0 => OfModule[c.realloc])
  BY DEF Supported
<1>4. f \in DOMAIN compFuncs
  <2>1. FuncsOf(e) \in Seq(DOMAIN compFuncs) /\ DOMAIN FuncsOf(e) = 1..Len(FuncsOf(e))
    BY ExportFacts DEF WellFormed
  <2> QED
    BY <1>2, <2>1, ElementOfSeq DEF FuncsOf
<1>5. c.core \in DOMAIN coreFuncs /\ c.realloc \in {0} \cup DOMAIN coreFuncs
  BY <1>3, <1>4, ComponentResolved
<1>6. resolve_core_func[c.core].kind = "fromModule"
  BY <1>3, <1>5, OfModuleRight DEF ResolvesToModule
<1>7. FuncOption(c.realloc) # Panic
  BY <1>3, <1>5, OptionSupported
<1>8. handle_func(f) =
        [func |-> Rename(resolve_core_func[c.core]), option |-> FuncOption(c.realloc)]
  BY <1>3, <1>6, <1>7 DEF handle_func
<1> QED
  BY <1>2, <1>8 DEF Panic

----------------------------------------------------------------------------
(* The component is well formed in every state.                            *)

(* Lemma: a component without definitions is well formed.                  *)
LEMMA ComponentInit ==
  ASSUME Init
  PROVE  ComponentInv
<1>1. /\ coreInsts = <<>> /\ coreFuncs = <<>> /\ compFuncs = <<>> /\ exports = <<>>
  BY DEF Init
<1>2. ComponentTypeOK
  BY <1>1, EmptySeq DEF ComponentTypeOK
<1>3. DOMAIN coreInsts = {} /\ DOMAIN coreFuncs = {} /\ DOMAIN compFuncs = {}
  BY <1>1
<1>4. ModuleInsts = {}
  BY <1>3 DEF ModuleInsts
<1>5. Named /\ ExportsBack
  BY <1>3, <1>4 DEF Named, ExportsBack
<1>6. /\ [i \in DOMAIN coreInsts |-> 0] \in [DOMAIN coreInsts -> 0..Size - 1]
      /\ [f \in DOMAIN coreFuncs |-> 0] \in [DOMAIN coreFuncs -> 0..Size - 1]
  BY <1>3
<1>7. \A rI, rF : Ranked(rI, rF)
  BY <1>3, <1>4 DEF Ranked
<1> QED
  BY <1>2, <1>5, <1>6, <1>7 DEF ComponentInv

(* Lemma: a definition keeps its type when others are added.               *)
LEMMA TypesGrow ==
  ASSUME ComponentTypeOK, DOMAIN coreInsts \subseteq DOMAIN coreInsts',
         DOMAIN coreFuncs \subseteq DOMAIN coreFuncs',
         Len(coreFuncs') \in Nat, Len(coreFuncs) <= Len(coreFuncs'),
         DOMAIN compFuncs \subseteq DOMAIN compFuncs'
  PROVE  /\ coreInsts \in Seq(CoreInstances') /\ coreFuncs \in Seq(CoreFuncs')
         /\ compFuncs \in Seq(CompFuncs')
         /\ exports \in Seq([kind : {"func", "instance"}, funcs : Seq(DOMAIN compFuncs')])
<1>1. Len(coreFuncs) \in Nat
  BY LenProperties DEF ComponentTypeOK
<1>2. 0..Len(coreFuncs) \subseteq 0..Len(coreFuncs')
  BY <1>1
<1>3. CoreInstances \subseteq CoreInstances'
  <2> SUFFICES ASSUME NEW d \in CoreInstances PROVE d \in CoreInstances'
    OBVIOUS
  <2>1. CASE \E m \in Modules :
               d \in [kind : {"module"}, module : {m}, args : [Packages(m) -> DOMAIN coreInsts]]
    <3>1. PICK m \in Modules :
            d \in [kind : {"module"}, module : {m}, args : [Packages(m) -> DOMAIN coreInsts]]
      BY <2>1
    <3>2. d \in [kind : {"module"}, module : {m}, args : [Packages(m) -> DOMAIN coreInsts']]
      BY <3>1
    <3> QED
      BY <3>2 DEF CoreInstances
  <2>2. CASE \E N \in SUBSET Names : d \in [kind : {"exports"}, exports : [N -> DOMAIN coreFuncs]]
    <3>1. PICK N \in SUBSET Names : d \in [kind : {"exports"}, exports : [N -> DOMAIN coreFuncs]]
      BY <2>2
    <3>2. d \in [kind : {"exports"}, exports : [N -> DOMAIN coreFuncs']]
      BY <3>1
    <3> QED
      BY <3>2 DEF CoreInstances
  <2> QED
    BY <2>1, <2>2 DEF CoreInstances
<1>4. CoreFuncs \subseteq CoreFuncs'
  BY <1>2 DEF CoreFuncs, ResourceNew
<1>5. CompFuncs \subseteq CompFuncs'
  BY <1>2 DEF CompFuncs
<1>6. [kind : {"func", "instance"}, funcs : Seq(DOMAIN compFuncs)]
        \subseteq [kind : {"func", "instance"}, funcs : Seq(DOMAIN compFuncs')]
  <2>1. Seq(DOMAIN compFuncs) \subseteq Seq(DOMAIN compFuncs')
    BY SeqMonotonic
  <2> QED
    BY <2>1
<1> QED
  BY <1>3, <1>4, <1>5, <1>6, SeqMonotonic DEF ComponentTypeOK

(* Lemma: a core instance gets the next rank.                              *)
LEMMA ParseInstanceStep ==
  ASSUME ComponentInv, ParseCoreInstance
  PROVE  ComponentInv'
<1> DEFINE n == Len(coreInsts) + 1
<1>1. PICK rI \in [DOMAIN coreInsts -> 0..Size - 1], rF \in [DOMAIN coreFuncs -> 0..Size - 1] :
        Ranked(rI, rF)
  BY DEF ComponentInv
<1>2. WellFormed(rI, rF)
  BY <1>1 DEF ComponentInv, WellFormed
<1>3. /\ Len(coreInsts) \in Nat /\ DOMAIN coreInsts = 1..Len(coreInsts)
      /\ Len(coreFuncs) \in Nat /\ DOMAIN coreFuncs = 1..Len(coreFuncs)
  BY LenProperties DEF ComponentInv, ComponentTypeOK
<1>4. UNCHANGED <<coreFuncs, compFuncs, exports>>
  BY DEF ParseCoreInstance
<1>5. PICK d :
        /\ coreInsts' = Append(coreInsts, d)
        /\ \/ \E m \in Modules : \E b \in [Packages(m) -> DOMAIN coreInsts] :
                /\ d = Instantiated(m, b)
                /\ \A p \in Packages(m) : Needed(m, p) \subseteq NamesOf(b[p])
           \/ \E N \in SUBSET Names : \E e \in [N -> DOMAIN coreFuncs] : d = FromExports(e)
  <2> DEFINE Given(m) == {b \in [Packages(m) -> DOMAIN coreInsts] :
                            \A p \in Packages(m) : Needed(m, p) \subseteq NamesOf(b[p])}
             All == (UNION {{Instantiated(m, a) : a \in Given(m)} : m \in Modules}) \cup
                    {FromExports(e) : e \in UNION {[N -> DOMAIN coreFuncs] : N \in (SUBSET Names) \ {{}}}}
  <2>1. PICK d \in All : coreInsts' = Append(coreInsts, d)
    BY Zenon DEF ParseCoreInstance
  <2>2. CASE \E m \in Modules : d \in {Instantiated(m, a) : a \in Given(m)}
    <3>1. PICK m \in Modules : d \in {Instantiated(m, a) : a \in Given(m)}
      BY <2>2
    <3>2. PICK b \in Given(m) : d = Instantiated(m, b)
      BY <3>1
    <3> QED
      BY <2>1, <3>2
  <2>3. CASE \E N \in (SUBSET Names) \ {{}} : \E e \in [N -> DOMAIN coreFuncs] : d = FromExports(e)
    BY <2>1, <2>3
  <2> QED
    BY <2>1, <2>2, <2>3
<1>6. /\ DOMAIN coreInsts' = 1..n /\ Len(coreInsts') = n
      /\ coreInsts'[n] = d
      /\ \A i \in DOMAIN coreInsts : coreInsts'[i] = coreInsts[i]
  BY <1>3, <1>5 DEF ComponentInv, ComponentTypeOK
<1>7. DOMAIN coreInsts \subseteq DOMAIN coreInsts'
  BY <1>3, <1>6
<1>8. d \in CoreInstances'
  <2>1. ASSUME NEW m \in Modules, NEW b \in [Packages(m) -> DOMAIN coreInsts],
               d = Instantiated(m, b)
        PROVE  d \in CoreInstances'
    <3>1. d \in [kind : {"module"}, module : {m}, args : [Packages(m) -> DOMAIN coreInsts']]
      BY <1>7, <2>1 DEF Instantiated
    <3> QED
      BY <3>1 DEF CoreInstances
  <2>2. ASSUME NEW N \in SUBSET Names, NEW e \in [N -> DOMAIN coreFuncs], d = FromExports(e)
        PROVE  d \in CoreInstances'
    <3>1. d \in [kind : {"exports"}, exports : [N -> DOMAIN coreFuncs']]
      BY <1>4, <2>2 DEF FromExports
    <3> QED
      BY <3>1 DEF CoreInstances
  <2> QED
    BY <1>5, <2>1, <2>2
<1>9. ComponentTypeOK'
  <2>1. /\ coreInsts \in Seq(CoreInstances') /\ coreFuncs \in Seq(CoreFuncs')
        /\ compFuncs \in Seq(CompFuncs')
        /\ exports \in Seq([kind : {"func", "instance"}, funcs : Seq(DOMAIN compFuncs')])
    BY <1>3, <1>4, <1>7, TypesGrow DEF ComponentInv
  <2>2. coreInsts' \in Seq(CoreInstances')
    BY <1>5, <1>8, <2>1, AppendProperties
  <2> QED
    BY <1>4, <2>1, <2>2 DEF ComponentTypeOK
<1>10. \A i \in DOMAIN coreInsts : NamesOf(i)' = NamesOf(i)
  BY <1>6 DEF NamesOf
<1>11. \A i \in ModuleInsts' : \/ i \in ModuleInsts
                              \/ (i = n /\ d.kind = "module")
  BY <1>3, <1>6 DEF ModuleInsts
<1>12. d.kind = "module" =>
         /\ d.args \in [Packages(d.module) -> DOMAIN coreInsts]
         /\ \A p \in Packages(d.module) : Needed(d.module, p) \subseteq NamesOf(d.args[p])
  BY <1>5 DEF Instantiated, FromExports
<1>13. d.kind = "exports" => \A k \in DOMAIN d.exports : d.exports[k] \in DOMAIN coreFuncs
  BY <1>5 DEF Instantiated, FromExports
<1>14. Named'
  <2>1. ASSUME NEW i \in ModuleInsts', NEW p \in Packages(coreInsts'[i].module)
        PROVE  Needed(coreInsts'[i].module, p) \subseteq NamesOf(coreInsts[i].args[p])'
    <3>1. CASE i \in ModuleInsts
      <4>1. i \in DOMAIN coreInsts /\ coreInsts[i].kind = "module" /\ coreInsts'[i] = coreInsts[i]
        BY <1>6, <3>1 DEF ModuleInsts
      <4>2. coreInsts[i].args[p] \in DOMAIN coreInsts
        BY <2>1, <4>1, InstanceFacts DEF ComponentInv
      <4>3. Needed(coreInsts[i].module, p) \subseteq NamesOf(coreInsts[i].args[p])
        BY <2>1, <3>1, <4>1 DEF ComponentInv, Named
      <4>4. NamesOf(coreInsts[i].args[p])' = NamesOf(coreInsts[i].args[p])
        BY <1>6, <4>1, <4>2 DEF NamesOf
      <4> QED
        BY <4>1, <4>3, <4>4
    <3>2. CASE i = n /\ d.kind = "module"
      <4>1. coreInsts'[i] = d
        BY <1>6, <3>2
      <4>2. d.args[p] \in DOMAIN coreInsts /\ Needed(d.module, p) \subseteq NamesOf(d.args[p])
        BY <1>12, <2>1, <3>2, <4>1
      <4>3. NamesOf(coreInsts[i].args[p])' = NamesOf(d.args[p])
        BY <1>6, <4>1, <4>2 DEF NamesOf
      <4> QED
        BY <4>1, <4>2, <4>3
    <3> QED
      BY <1>11, <3>1, <3>2
  <2>2. ASSUME NEW f \in DOMAIN coreFuncs', coreFuncs'[f].kind = "alias"
        PROVE  coreFuncs'[f].name \in NamesOf(coreFuncs[f].inst)'
    <3>1. f \in DOMAIN coreFuncs /\ coreFuncs[f].kind = "alias"
      BY <1>4, <2>2
    <3>2. coreFuncs[f].inst \in DOMAIN coreInsts /\ coreFuncs[f].name \in NamesOf(coreFuncs[f].inst)
      BY <3>1, FuncFacts DEF ComponentInv, Named
    <3>3. NamesOf(coreFuncs[f].inst)' = NamesOf(coreFuncs[f].inst)
      BY <1>4, <1>6, <3>2 DEF NamesOf
    <3> QED
      BY <1>4, <3>2, <3>3
  <2> QED
    BY <2>1, <2>2 DEF Named
<1>15. ExportsBack'
  BY <1>4 DEF ComponentInv, ExportsBack
<1>16. Size' = Size + 1 /\ Size \in Nat
  BY <1>3, <1>4, <1>6 DEF Size
<1>17. PICK r : r = [i \in DOMAIN coreInsts' |-> IF i = n THEN Size ELSE rI[i]]
  OBVIOUS
<1>18. /\ r[n] = Size /\ \A i \in DOMAIN coreInsts : r[i] = rI[i]
       /\ r \in [DOMAIN coreInsts' -> 0..Size' - 1]
       /\ rF \in [DOMAIN coreFuncs' -> 0..Size' - 1]
  <2>1. \A i \in DOMAIN coreInsts : rI[i] \in 0..Size
    BY <1>1, <1>16
  <2> QED
    BY <1>1, <1>3, <1>4, <1>6, <1>16, <1>17, <2>1
<1>19. Ranked(r, rF)'
  <2>1. ASSUME NEW i \in ModuleInsts', NEW p \in Packages(coreInsts'[i].module)
        PROVE  r[coreInsts'[i].args[p]] < r[i]
    <3>1. CASE i \in ModuleInsts
      <4>1. i \in DOMAIN coreInsts /\ coreInsts[i].kind = "module" /\ coreInsts'[i] = coreInsts[i]
        BY <1>6, <3>1 DEF ModuleInsts
      <4>2. coreInsts[i].args[p] \in DOMAIN coreInsts
        BY <2>1, <4>1, InstanceFacts DEF ComponentInv
      <4>3. rI[coreInsts[i].args[p]] < rI[i]
        BY <1>1, <2>1, <3>1, <4>1 DEF Ranked
      <4> QED
        BY <1>18, <4>1, <4>2, <4>3
    <3>2. CASE i = n /\ d.kind = "module"
      <4>1. coreInsts'[i] = d
        BY <1>6, <3>2
      <4>2. d.args[p] \in DOMAIN coreInsts
        BY <1>12, <2>1, <3>2, <4>1
      <4>3. rI[d.args[p]] < Size
        BY <1>1, <1>16, <4>2
      <4> QED
        BY <1>18, <3>2, <4>1, <4>2, <4>3
    <3> QED
      BY <1>11, <3>1, <3>2
  <2>2. ASSUME NEW i \in DOMAIN coreInsts', coreInsts'[i].kind = "exports",
               NEW k \in DOMAIN coreInsts'[i].exports
        PROVE  rF[coreInsts'[i].exports[k]] < r[i]
    <3>1. CASE i \in DOMAIN coreInsts
      BY <1>1, <1>6, <1>18, <2>2, <3>1 DEF Ranked
    <3>2. CASE i = n
      <4>1. coreInsts'[i] = d
        BY <1>6, <3>2
      <4>2. d.exports[k] \in DOMAIN coreFuncs
        BY <1>13, <2>2, <4>1
      <4>3. rF[d.exports[k]] < Size
        BY <1>1, <1>16, <4>2
      <4> QED
        BY <1>18, <3>2, <4>1, <4>3
    <3> QED
      BY <1>3, <1>6, <3>1, <3>2
  <2>3. ASSUME NEW f \in DOMAIN coreFuncs'
        PROVE  /\ coreFuncs'[f].kind = "alias" => r[coreFuncs'[f].inst] < rF[f]
               /\ coreFuncs'[f].kind = "lower" => OptionBelow(rF, coreFuncs'[f].realloc, rF[f])
               /\ coreFuncs'[f].kind = "drop" => OptionBelow(rF, coreFuncs'[f].dtor, rF[f])
    <3>1. f \in DOMAIN coreFuncs /\ coreFuncs'[f] = coreFuncs[f]
      BY <1>4
    <3>2. coreFuncs[f].kind = "alias" => coreFuncs[f].inst \in DOMAIN coreInsts
      BY <3>1, FuncFacts DEF ComponentInv
    <3> QED
      BY <1>1, <1>18, <3>1, <3>2 DEF Ranked
  <2> QED
    BY <2>1, <2>2, <2>3 DEF Ranked, OptionBelow
<1> QED
  BY <1>9, <1>14, <1>15, <1>18, <1>19 DEF ComponentInv

(* Lemma: what parse makes of resource.drop.                               *)
LEMMA DropFacts ==
  ASSUME NEW d, d \in ResourceDrops, Len(coreFuncs) \in Nat
  PROVE  d \in [kind : {"drop"}, host : BOOLEAN, dtor : 0..Len(coreFuncs)]
<1>1. 0 \in 0..Len(coreFuncs)
  OBVIOUS
<1> DEFINE O == 0..Len(coreFuncs)
<1> HIDE DEF O
<1>2. CASE d \in [kind : {"drop"}, host : {FALSE}, dtor : O]
  BY <1>2 DEF O
<1>3. CASE d \in [kind : {"drop"}, host : {TRUE}, dtor : {0}]
  <2>1. 0 \in O
    BY <1>1 DEF O
  <2>2. d \in [kind : {"drop"}, host : BOOLEAN, dtor : O]
    BY <1>3, <2>1
  <2> QED
    BY <2>2 DEF O
<1> QED
  BY <1>2, <1>3 DEF ResourceDrops, O

(* Lemma: a core function gets the next rank.                              *)
LEMMA ParseCoreFuncStep ==
  ASSUME ComponentInv, ParseCoreFunc
  PROVE  ComponentInv'
<1> DEFINE n == Len(coreFuncs) + 1
<1>1. PICK rI \in [DOMAIN coreInsts -> 0..Size - 1], rF \in [DOMAIN coreFuncs -> 0..Size - 1] :
        Ranked(rI, rF)
  BY DEF ComponentInv
<1>2. /\ Len(coreInsts) \in Nat /\ DOMAIN coreInsts = 1..Len(coreInsts)
      /\ Len(coreFuncs) \in Nat /\ DOMAIN coreFuncs = 1..Len(coreFuncs)
  BY LenProperties DEF ComponentInv, ComponentTypeOK
<1>3. UNCHANGED <<coreInsts, compFuncs, exports>>
  BY DEF ParseCoreFunc
<1>4. PICK d :
        /\ coreFuncs' = Append(coreFuncs, d)
        /\ \/ \E i \in DOMAIN coreInsts : \E k \in NamesOf(i) : d = Aliased(i, k)
           \/ \E f \in DOMAIN compFuncs, r \in 0..Len(coreFuncs) : d = Lowered(f, r)
           \/ d \in [kind : {"drop"}, host : BOOLEAN, dtor : 0..Len(coreFuncs)]
           \/ d = ResourceNew
  <2> DEFINE Aliases == UNION {{Aliased(i, k) : k \in NamesOf(i)} : i \in DOMAIN coreInsts}
             Lowerings == {Lowered(f, r) : f \in DOMAIN compFuncs, r \in 0..Len(coreFuncs)}
             All == Aliases \cup Lowerings \cup ResourceDrops \cup {ResourceNew}
  <2>1. PICK d \in All : coreFuncs' = Append(coreFuncs, d)
    BY DEF ParseCoreFunc
  <2>2. CASE d \in Aliases
    <3>1. PICK i \in DOMAIN coreInsts : d \in {Aliased(i, k) : k \in NamesOf(i)}
      BY <2>2
    <3>2. PICK k \in NamesOf(i) : d = Aliased(i, k)
      BY <3>1
    <3> QED
      BY <2>1, <3>2
  <2>3. CASE d \in Lowerings
    <3>1. \E f \in DOMAIN compFuncs, r \in 0..Len(coreFuncs) : d = Lowered(f, r)
      BY <2>3
    <3> QED
      BY <2>1, <3>1
  <2>4. CASE d \in ResourceDrops
    <3>1. d \in [kind : {"drop"}, host : BOOLEAN, dtor : 0..Len(coreFuncs)]
      BY <1>2, <2>4, DropFacts
    <3> QED
      BY <2>1, <3>1
  <2>5. CASE d = ResourceNew
    BY <2>1, <2>5
  <2> HIDE DEF Aliases, Lowerings
  <2> QED
    BY <2>1, <2>2, <2>3, <2>4, <2>5
<1>5. /\ DOMAIN coreFuncs' = 1..n /\ Len(coreFuncs') = n
      /\ coreFuncs'[n] = d
      /\ \A f \in DOMAIN coreFuncs : coreFuncs'[f] = coreFuncs[f]
  BY <1>2, <1>4 DEF ComponentInv, ComponentTypeOK
<1>6. DOMAIN coreFuncs \subseteq DOMAIN coreFuncs' /\ 0..Len(coreFuncs) \subseteq 0..Len(coreFuncs')
  BY <1>2, <1>5
<1>7. /\ d.kind \in {"alias", "lower", "drop", "new"}
      /\ d.kind = "alias" => d.inst \in DOMAIN coreInsts /\ d.name \in NamesOf(d.inst)
      /\ d.kind = "lower" => d.realloc \in 0..Len(coreFuncs)
      /\ d.kind = "drop" => d.dtor \in 0..Len(coreFuncs)
  BY <1>2, <1>4 DEF Aliased, Lowered, ResourceNew
<1>8. d \in CoreFuncs'
  <2>1. ASSUME NEW i \in DOMAIN coreInsts, NEW k \in NamesOf(i) PROVE k \in Names
    BY InstanceFacts, ExportsAssumption DEF ComponentInv, NamesOf
  <2>2. /\ DOMAIN coreInsts' = DOMAIN coreInsts /\ DOMAIN compFuncs' = DOMAIN compFuncs
        /\ 0 \in 0..Len(coreFuncs')
    BY <1>2, <1>3, <1>5
  <2>3. ASSUME NEW i \in DOMAIN coreInsts, NEW k \in NamesOf(i), d = Aliased(i, k)
        PROVE  d \in CoreFuncs'
    BY <2>1, <2>2, <2>3 DEF CoreFuncs, Aliased
  <2>4. ASSUME NEW f \in DOMAIN compFuncs, NEW r \in 0..Len(coreFuncs), d = Lowered(f, r)
        PROVE  d \in CoreFuncs'
    BY <1>6, <2>2, <2>4 DEF CoreFuncs, Lowered
  <2>5. ASSUME d \in [kind : {"drop"}, host : BOOLEAN, dtor : 0..Len(coreFuncs)]
        PROVE  d \in CoreFuncs'
    BY <1>6, <2>5 DEF CoreFuncs
  <2>6. ResourceNew \in CoreFuncs'
    BY DEF CoreFuncs, ResourceNew
  <2> QED
    BY <1>4, <2>3, <2>4, <2>5, <2>6
<1>9. ComponentTypeOK'
  <2>1. /\ coreInsts \in Seq(CoreInstances') /\ coreFuncs \in Seq(CoreFuncs')
        /\ compFuncs \in Seq(CompFuncs')
        /\ exports \in Seq([kind : {"func", "instance"}, funcs : Seq(DOMAIN compFuncs')])
    BY <1>2, <1>3, <1>5, <1>6, TypesGrow DEF ComponentInv
  <2>2. coreFuncs' \in Seq(CoreFuncs')
    BY <1>4, <1>8, <2>1, AppendProperties
  <2> QED
    BY <1>3, <2>1, <2>2 DEF ComponentTypeOK
<1>10. \A i : NamesOf(i)' = NamesOf(i)
  BY <1>3 DEF NamesOf
<1>11. ModuleInsts' = ModuleInsts
  BY <1>3 DEF ModuleInsts
<1>12. Named'
  <2>1. \A i \in ModuleInsts' : \A p \in Packages(coreInsts'[i].module) :
          Needed(coreInsts'[i].module, p) \subseteq NamesOf(coreInsts[i].args[p])'
    BY <1>3, <1>10, <1>11 DEF ComponentInv, Named
  <2>2. ASSUME NEW f \in DOMAIN coreFuncs', coreFuncs'[f].kind = "alias"
        PROVE  coreFuncs'[f].name \in NamesOf(coreFuncs'[f].inst)
    <3>1. CASE f \in DOMAIN coreFuncs
      BY <1>5, <2>2, <3>1 DEF ComponentInv, Named
    <3>2. CASE f = n
      BY <1>5, <1>7, <2>2, <3>2
    <3> QED
      BY <1>2, <1>5, <3>1, <3>2
  <2>3. \A f \in DOMAIN coreFuncs' : coreFuncs'[f].kind = "alias" =>
          coreFuncs'[f].name \in NamesOf(coreFuncs[f].inst)'
    <3>1. \A f : NamesOf(coreFuncs[f].inst)' = NamesOf(coreFuncs'[f].inst)
      BY <1>3 DEF NamesOf
    <3> QED
      BY <2>2, <3>1
  <2> QED
    BY <2>1, <2>3 DEF Named
<1>13. ExportsBack'
  BY <1>3 DEF ComponentInv, ExportsBack
<1>14. Size' = Size + 1 /\ Size \in Nat
  BY <1>2, <1>3, <1>5 DEF Size
<1>15. PICK r : r = [f \in DOMAIN coreFuncs' |-> IF f = n THEN Size ELSE rF[f]]
  OBVIOUS
<1>16. /\ r[n] = Size
       /\ \A f \in DOMAIN coreFuncs : r[f] = rF[f] /\ r[f] \in Nat /\ r[f] < Size
       /\ r \in [DOMAIN coreFuncs' -> 0..Size' - 1]
       /\ rI \in [DOMAIN coreInsts' -> 0..Size' - 1]
  <2>1. \A f \in DOMAIN coreFuncs : rF[f] \in 0..Size /\ rF[f] < Size
    BY <1>1, <1>14
  <2> QED
    BY <1>1, <1>2, <1>3, <1>5, <1>14, <1>15, <2>1
<1>17. Ranked(rI, r)'
  <2>1. \A i \in ModuleInsts' : \A p \in Packages(coreInsts'[i].module) :
          rI[coreInsts'[i].args[p]] < rI[i]
    BY <1>1, <1>3, <1>11 DEF Ranked
  <2>2. ASSUME NEW i \in DOMAIN coreInsts', coreInsts'[i].kind = "exports",
               NEW k \in DOMAIN coreInsts'[i].exports
        PROVE  r[coreInsts'[i].exports[k]] < rI[i]
    <3>1. coreInsts[i].exports[k] \in DOMAIN coreFuncs
      BY <1>3, <2>2, InstanceFacts DEF ComponentInv
    <3> QED
      BY <1>1, <1>3, <1>16, <2>2, <3>1 DEF Ranked
  <2>3. ASSUME NEW f \in DOMAIN coreFuncs'
        PROVE  /\ coreFuncs'[f].kind = "alias" => rI[coreFuncs'[f].inst] < r[f]
               /\ coreFuncs'[f].kind = "lower" => OptionBelow(r, coreFuncs'[f].realloc, r[f])
               /\ coreFuncs'[f].kind = "drop" => OptionBelow(r, coreFuncs'[f].dtor, r[f])
    <3>1. CASE f \in DOMAIN coreFuncs
      BY <1>1, <1>5, <1>16, <3>1, FuncFacts DEF Ranked, OptionBelow, ComponentInv
    <3>2. CASE f = n
      <4>1. coreFuncs'[f] = d /\ r[f] = Size
        BY <1>5, <1>16, <3>2
      <4>2. \A i \in DOMAIN coreInsts : rI[i] < Size
        BY <1>1, <1>14
      <4>3. \A o \in 0..Len(coreFuncs) : OptionBelow(r, o, Size)
        BY <1>2, <1>16 DEF OptionBelow
      <4> QED
        BY <1>7, <4>1, <4>2, <4>3
    <3> QED
      BY <1>2, <1>5, <3>1, <3>2
  <2> QED
    BY <2>1, <2>2, <2>3 DEF Ranked, OptionBelow
<1> QED
  BY <1>9, <1>12, <1>13, <1>16, <1>17 DEF ComponentInv

(* Lemma: component functions and exports leave the core definitions.      *)
LEMMA CoreStays ==
  ASSUME ComponentInv, UNCHANGED <<coreInsts, coreFuncs>>, ComponentTypeOK', ExportsBack'
  PROVE  ComponentInv'
<1>1. ModuleInsts' = ModuleInsts /\ Size' = Size
  BY DEF ModuleInsts, Size
<1>2. Named'
  BY <1>1 DEF ComponentInv, Named, NamesOf
<1>3. PICK rI \in [DOMAIN coreInsts -> 0..Size - 1], rF \in [DOMAIN coreFuncs -> 0..Size - 1] :
        Ranked(rI, rF)
  BY DEF ComponentInv
<1>4. Ranked(rI, rF)'
  BY <1>1, <1>3 DEF Ranked, OptionBelow
<1>5. rI \in [DOMAIN coreInsts' -> 0..Size' - 1] /\ rF \in [DOMAIN coreFuncs' -> 0..Size' - 1]
  BY <1>1, <1>3
<1> QED
  BY <1>2, <1>4, <1>5 DEF ComponentInv

(* Lemma: a component function only refers to core functions that are      *)
(* there.                                                                  *)
LEMMA ParseCompFuncStep ==
  ASSUME ComponentInv, ParseCompFunc
  PROVE  ComponentInv'
<1> DEFINE n == Len(compFuncs) + 1
<1>1. /\ Len(coreFuncs) \in Nat
      /\ Len(compFuncs) \in Nat /\ DOMAIN compFuncs = 1..Len(compFuncs)
  BY LenProperties DEF ComponentInv, ComponentTypeOK
<1>2. UNCHANGED <<coreInsts, coreFuncs, exports>>
  BY DEF ParseCompFunc
<1>3. PICK d :
        /\ compFuncs' = Append(compFuncs, d)
        /\ \/ d = Imported(n)
           \/ \E c \in DOMAIN coreFuncs, r \in 0..Len(coreFuncs) : d = Lifted(c, r)
  BY DEF ParseCompFunc
<1>4. /\ DOMAIN compFuncs' = 1..n /\ compFuncs'[n] = d
      /\ \A f \in DOMAIN compFuncs : compFuncs'[f] = compFuncs[f]
  BY <1>1, <1>3 DEF ComponentInv, ComponentTypeOK
<1>5. DOMAIN compFuncs \subseteq DOMAIN compFuncs'
  BY <1>1, <1>4
<1>6. d \in CompFuncs' /\ d.kind # "exported"
  BY <1>1, <1>2, <1>3 DEF CompFuncs, Imported, Lifted
<1>7. ComponentTypeOK'
  <2>1. /\ coreInsts \in Seq(CoreInstances') /\ coreFuncs \in Seq(CoreFuncs')
        /\ compFuncs \in Seq(CompFuncs')
        /\ exports \in Seq([kind : {"func", "instance"}, funcs : Seq(DOMAIN compFuncs')])
    BY <1>1, <1>2, <1>5, TypesGrow DEF ComponentInv
  <2>2. compFuncs' \in Seq(CompFuncs')
    BY <1>3, <1>6, <2>1, AppendProperties
  <2> QED
    BY <1>2, <2>1, <2>2 DEF ComponentTypeOK
<1>8. ExportsBack'
  BY <1>1, <1>4, <1>6 DEF ComponentInv, ExportsBack
<1> QED
  BY <1>2, <1>7, <1>8, CoreStays

(* Lemma: an export refers back.                                           *)
LEMMA ParseExportStep ==
  ASSUME ComponentInv, ParseExport
  PROVE  ComponentInv'
<1> DEFINE E == [kind : {"func", "instance"}, funcs : Seq(DOMAIN compFuncs')]
<1>1. /\ Len(coreFuncs) \in Nat
      /\ Len(compFuncs) \in Nat /\ DOMAIN compFuncs = 1..Len(compFuncs)
  BY LenProperties DEF ComponentInv, ComponentTypeOK
<1>2. UNCHANGED <<coreInsts, coreFuncs>>
  BY DEF ParseExport
<1>3. ASSUME NEW f \in DOMAIN compFuncs, compFuncs' = Append(compFuncs, Exported(f)),
             exports' = Append(exports, [kind |-> "func", funcs |-> <<f>>])
      PROVE  ComponentTypeOK' /\ ExportsBack'
  <2> DEFINE n == Len(compFuncs) + 1
  <2>1. /\ DOMAIN compFuncs' = 1..n /\ compFuncs'[n] = Exported(f)
        /\ \A g \in DOMAIN compFuncs : compFuncs'[g] = compFuncs[g]
    BY <1>1, <1>3 DEF ComponentInv, ComponentTypeOK
  <2>2. DOMAIN compFuncs \subseteq DOMAIN compFuncs'
    BY <1>1, <2>1
  <2>3. /\ coreInsts \in Seq(CoreInstances') /\ coreFuncs \in Seq(CoreFuncs')
        /\ compFuncs \in Seq(CompFuncs') /\ exports \in Seq(E)
    BY <1>1, <1>2, <2>2, TypesGrow DEF ComponentInv
  <2>4. Exported(f) \in CompFuncs' /\ [kind |-> "func", funcs |-> <<f>>] \in E
    BY <2>2 DEF CompFuncs, Exported
  <2> HIDE DEF E
  <2>5. compFuncs' \in Seq(CompFuncs') /\ exports' \in Seq(E)
    BY <1>3, <2>3, <2>4, AppendProperties
  <2>6. ExportsBack'
    BY <1>1, <2>1 DEF ComponentInv, ExportsBack, Exported
  <2> QED
    BY <1>2, <2>3, <2>5, <2>6 DEF ComponentTypeOK, E
<1>4. ASSUME NEW f \in DOMAIN compFuncs, NEW g \in DOMAIN compFuncs, UNCHANGED compFuncs,
             exports' = Append(exports, [kind |-> "instance", funcs |-> <<f, g>>])
      PROVE  ComponentTypeOK' /\ ExportsBack'
  <2>1. /\ coreInsts \in Seq(CoreInstances') /\ coreFuncs \in Seq(CoreFuncs')
        /\ compFuncs \in Seq(CompFuncs') /\ exports \in Seq(E)
    BY <1>1, <1>2, <1>4, TypesGrow DEF ComponentInv
  <2>2. [kind |-> "instance", funcs |-> <<f, g>>] \in E
    BY <1>4
  <2> HIDE DEF E
  <2>3. exports' \in Seq(E)
    BY <1>4, <2>1, <2>2, AppendProperties
  <2>4. ExportsBack'
    BY <1>4 DEF ComponentInv, ExportsBack
  <2> QED
    BY <1>2, <1>4, <2>1, <2>3, <2>4 DEF ComponentTypeOK, E
<1>5. ComponentTypeOK' /\ ExportsBack'
  BY <1>3, <1>4 DEF ParseExport
<1> QED
  BY <1>2, <1>5, CoreStays

----------------------------------------------------------------------------
(* The stages of linking.                                                  *)

(* Lemma: parsing over, the definitions and what they resolve to stay.     *)
LEMMA ComponentSame ==
  ASSUME ComponentInv, UNCHANGED component
  PROVE  ComponentInv'
<1>1. UNCHANGED <<coreInsts, coreFuncs, compFuncs, exports>>
  BY DEF component
<1>2. ComponentTypeOK'
  BY <1>1 DEF ComponentInv, ComponentTypeOK, CoreInstances, CoreFuncs, CompFuncs
<1>3. ExportsBack'
  BY <1>1 DEF ComponentInv, ExportsBack
<1> QED
  BY <1>1, <1>2, <1>3, CoreStays

(* Lemma: what the definitions resolve to stays as they do.                *)
LEMMA ResolvesSame ==
  ASSUME UNCHANGED component
  PROVE  /\ resolve_core_func' = resolve_core_func
         /\ resolve_component_func' = resolve_component_func
         /\ OfModule' = OfModule
<1>1. UNCHANGED <<coreInsts, coreFuncs, compFuncs, exports>>
  BY DEF component
<1>2. resolve_core_func' = resolve_core_func
  BY <1>1, SMT DEF resolve_core_func, follow_alias, Followed
<1>3. resolve_component_func' = resolve_component_func
  BY <1>1, SMT DEF resolve_component_func
<1>4. OfModule' = OfModule
  BY <1>1, SMT DEF OfModule
<1> QED
  BY <1>2, <1>3, <1>4

(* Lemma: a component is supported, or is not, from then on.               *)
LEMMA SupportedSame ==
  ASSUME UNCHANGED component
  PROVE  Supported' <=> Supported
<1>1. UNCHANGED <<coreInsts, coreFuncs, compFuncs, exports>>
  BY DEF component
<1> DEFINE Given ==
             \A i \in DOMAIN coreInsts : coreInsts[i].kind = "module" =>
               \A p \in Packages(coreInsts[i].module) :
                 NamesOf(coreInsts[i].args[p]) = Needed(coreInsts[i].module, p)
           Takes(f) ==
             CASE coreFuncs[f].kind = "alias" -> OfModule[f]
               [] coreFuncs[f].kind = "lower" ->
                    /\ resolve_component_func[coreFuncs[f].func].kind = "imported"
                    /\ coreFuncs[f].realloc # 0 => OfModule[coreFuncs[f].realloc]
               [] coreFuncs[f].kind = "drop" ->
                    coreFuncs[f].dtor # 0 => OfModule[coreFuncs[f].dtor]
               [] OTHER -> TRUE
           Lifts(c) ==
             c.kind = "lifted" /\ OfModule[c.core] /\ (c.realloc # 0 => OfModule[c.realloc])
<1>2. Given' <=> Given
  BY <1>1 DEF NamesOf
<1>3. ASSUME NEW f PROVE Takes(f)' <=> Takes(f)
  BY <1>1, ResolvesSame
<1>4. ASSUME NEW c PROVE Lifts(c)' <=> Lifts(c)
  BY ResolvesSame
<1> QED
  BY <1>1, <1>2, <1>3, <1>4, ResolvesSame DEF Supported

(* Lemma: so does what is linked and found, once instances are assumed.    *)
LEMMA LinkedSame ==
  ASSUME UNCHANGED <<component, assumed>>
  PROVE  /\ \A i : LinkedArgs(i)' = LinkedArgs(i)
         /\ \A f : handle_func(f)' = handle_func(f)
<1>1. UNCHANGED <<coreInsts, coreFuncs, compFuncs, exports, assumed>>
  BY DEF component
<1>2. UNCHANGED component
  OBVIOUS
<1>3. \A f : FuncOption(f)' = FuncOption(f)
  BY <1>1, <1>2, ResolvesSame DEF FuncOption, Rename
<1>4. \A f : resolve_core_func_link(f)' = resolve_core_func_link(f)
  BY <1>1, <1>2, <1>3, ResolvesSame DEF resolve_core_func_link, Rename, WithOption
<1>5. \A i, n : ImportKind(i, n)' = ImportKind(i, n)
  BY <1>1, <1>4 DEF ImportKind
<1>6. \A i : LinkedArgs(i)' = LinkedArgs(i)
  BY <1>1, <1>5 DEF LinkedArgs
<1>7. \A f : handle_func(f)' = handle_func(f)
  BY <1>1, <1>2, <1>3, ResolvesSame DEF handle_func, Rename
<1> QED
  BY <1>6, <1>7

(* Lemma: assumed instances stay what they are.                            *)
LEMMA AssumedSame ==
  ASSUME UNCHANGED <<component, assumed>>, Assumed
  PROVE  Assumed'
BY DEF component, Assumed, InstancesOf

(* Lemma: what is linked stays linked.                                     *)
LEMMA LinkedStays ==
  ASSUME UNCHANGED <<component, assumed, links, mm>>, Linked
  PROVE  Linked'
<1>1. UNCHANGED <<coreInsts, coreFuncs, compFuncs, exports, assumed>>
  BY DEF component
<1>2. \A i : LinkedArgs(i)' = LinkedArgs(i)
  BY LinkedSame
<1>3. ModuleInsts' = ModuleInsts
  BY <1>1 DEF ModuleInsts
<1>4. \A m, args : Unmatched(m, args)' <=> Unmatched(m, args)
  BY <1>1 DEF Unmatched, NamesOf
<1> QED
  BY <1>1, <1>2, <1>3, <1>4 DEF Linked

(* Lemma: what is gathered stays gathered.                                 *)
LEMMA GatheredStays ==
  ASSUME UNCHANGED <<component, assumed, exportFuncs>>, Gathered
  PROVE  Gathered'
<1>1. UNCHANGED exports
  BY DEF component
<1>2. \A f : handle_func(f)' = handle_func(f)
  BY LinkedSame
<1>3. InOrder(exports)' = InOrder(exports)
  BY <1>1
<1>4. \A k : ExportFunc(k)' = ExportFunc(k)
  BY <1>2, <1>3 DEF ExportFunc
<1> QED
  BY <1>2, <1>3, <1>4 DEF Gathered

(* Lemma: while the component is parsed, nothing is linked.                *)
LEMMA ParsingStays ==
  ASSUME StagesInv, phase = "parsing", UNCHANGED <<phase, linking>>
  PROVE  StagesInv'
<1>1. UNCHANGED <<assumed, mm, links, exportFuncs>>
  BY DEF linking
<1>2. assumed = <<>> /\ links = <<>> /\ mm = {} /\ exportFuncs = {}
  BY DEF StagesInv
<1> QED
  BY <1>1, <1>2 DEF StagesInv

(* Lemma: gather_instance_map assumes an instance for each module.         *)
LEMMA GatherInstanceMapStep ==
  ASSUME StagesInv, GatherInstanceMap
  PROVE  StagesInv'
<1>1. /\ phase = "parsing" /\ phase' = "linking"
      /\ UNCHANGED <<coreInsts, mm, links, exportFuncs>>
  BY DEF GatherInstanceMap, component
<1>2. links = <<>> /\ mm = {} /\ exportFuncs = {}
  BY <1>1 DEF StagesInv
<1>3. \A m : InstancesOf(m)' = InstancesOf(m)
  BY <1>1 DEF InstancesOf
<1>4. Assumed'
  BY <1>1, <1>3 DEF GatherInstanceMap, Assumed
<1> QED
  BY <1>1, <1>2, <1>4 DEF StagesInv

(* Lemma: linking_metadata links all instances, or the component is not    *)
(* supported.                                                              *)
LEMMA LinkCoreInstancesStep ==
  ASSUME ComponentInv, StagesInv, LinkCoreInstances
  PROVE  StagesInv'
<1>1. /\ phase = "linking" /\ UNCHANGED <<component, assumed, exportFuncs>>
      /\ UNCHANGED <<coreInsts, coreFuncs, compFuncs, exports>>
  BY DEF LinkCoreInstances, component
<1>2. Assumed /\ links = <<>> /\ mm = {} /\ exportFuncs = {}
  BY <1>1 DEF StagesInv
<1>3. Assumed'
  BY <1>1, <1>2, AssumedSame
<1> DEFINE kinds == [i \in DOMAIN coreInsts |-> LinkedArgs(i)]
           Rejected(i) == \/ Unmatched(coreInsts[i].module, coreInsts[i].args)
                          \/ \E j \in DOMAIN kinds[i] : kinds[i][j] = Panic
<1>4. CASE \E i \in ModuleInsts : Rejected(i)
  <2>1. phase' = "panicked" /\ UNCHANGED <<mm, links>>
    BY <1>4 DEF LinkCoreInstances, ModuleInsts
  <2>2. ~Supported
    <3>1. PICK i \in ModuleInsts : Rejected(i)
      BY <1>4
    <3>2. kinds[i] = LinkedArgs(i)
      BY DEF ModuleInsts
    <3>3. PICK rI, rF : WellFormed(rI, rF)
      BY DEF ComponentInv, WellFormed
    <3> QED
      BY <3>1, <3>2, <3>3, LinkSupported
  <2>3. ~Supported'
    BY <1>1, <2>2, SupportedSame
  <2> QED
    BY <1>1, <1>2, <1>3, <2>1, <2>3 DEF StagesInv
<1>5. CASE ~ \E i \in ModuleInsts : Rejected(i)
  <2>1. phase' = "linked" /\ mm' = {coreInsts[i].module : i \in ModuleInsts} /\ links' = kinds
    BY <1>5 DEF LinkCoreInstances, ModuleInsts
  <2>2. /\ ModuleInsts' = ModuleInsts
        /\ \A i : LinkedArgs(i)' = LinkedArgs(i)
        /\ \A m, args : Unmatched(m, args)' <=> Unmatched(m, args)
    BY <1>1, LinkedSame DEF ModuleInsts, Unmatched, NamesOf
  <2>3. Linked'
    BY <1>1, <1>5, <2>1, <2>2 DEF Linked
  <2> QED
    BY <1>1, <1>2, <1>3, <2>1, <2>3 DEF StagesInv
<1> QED
  BY <1>4, <1>5

(* Lemma: export_funcs finds all functions, or the component is not        *)
(* supported.                                                              *)
LEMMA GatherComponentExportsStep ==
  ASSUME ComponentInv, StagesInv, GatherComponentExports
  PROVE  StagesInv'
<1>1. /\ phase = "linked" /\ UNCHANGED <<component, assumed, mm, links>>
      /\ UNCHANGED <<coreInsts, coreFuncs, compFuncs, exports>>
  BY DEF GatherComponentExports, component
<1>2. Assumed /\ Linked /\ exportFuncs = {}
  BY <1>1 DEF StagesInv
<1>3. Assumed' /\ Linked'
  BY <1>1, <1>2, AssumedSame, LinkedStays
<1> DEFINE order == InOrder(exports)
           found == [k \in DOMAIN order |-> handle_func(order[k])]
<1>4. CASE \E k \in DOMAIN order : found[k] = Panic
  <2>1. phase' = "panicked" /\ UNCHANGED exportFuncs
    BY <1>4 DEF GatherComponentExports
  <2>2. ~Supported
    <3>1. PICK k \in DOMAIN order : handle_func(order[k]) = Panic
      BY <1>4
    <3>2. PICK rI, rF : WellFormed(rI, rF)
      BY DEF ComponentInv, WellFormed
    <3> QED
      BY <3>1, <3>2, ExportSupported
  <2>3. ~Supported'
    BY <1>1, <2>2, SupportedSame
  <2> QED
    BY <1>2, <1>3, <2>1, <2>3 DEF StagesInv
<1>5. CASE ~ \E k \in DOMAIN order : found[k] = Panic
  <2>1. /\ phase' = "gathered"
        /\ exportFuncs' = {[record_id |-> k - 1, inst |-> found[k].func.package,
                            name |-> found[k].func.member,
                            option |-> found[k].option] : k \in DOMAIN order}
    BY <1>5 DEF GatherComponentExports
  <2>2. exportFuncs' = {ExportFunc(k) : k \in DOMAIN order}
    BY <2>1 DEF ExportFunc
  <2>3. /\ InOrder(exports)' = order /\ \A f : handle_func(f)' = handle_func(f)
        /\ \A k : ExportFunc(k)' = ExportFunc(k)
    BY <1>1, LinkedSame DEF ExportFunc
  <2>4. Gathered'
    BY <1>5, <2>2, <2>3 DEF Gathered
  <2> QED
    BY <1>3, <2>1, <2>4 DEF StagesInv
<1> QED
  BY <1>4, <1>5

(* Lemma: the checks of from_linking_metadata never fail: every module     *)
(* with metadata has an instance, and what is exported is a function of an *)
(* instance of a module.                                                   *)
LEMMA CheckLinkingStep ==
  ASSUME ComponentInv, StagesInv, CheckLinking
  PROVE  StagesInv' /\ phase' = "accepted"
<1>1. /\ phase = "gathered" /\ UNCHANGED <<component, linking>>
      /\ UNCHANGED <<assumed, mm, links, exportFuncs>>
  BY DEF CheckLinking, linking
<1>2. Assumed /\ Linked /\ Gathered
  BY <1>1 DEF StagesInv
<1>3. Assumed' /\ Linked' /\ Gathered'
  BY <1>1, <1>2, AssumedSame, LinkedStays, GatheredStays
<1> DEFINE instances == {i \in DOMAIN links : coreInsts[i].kind = "module"}
<1>4. instances = ModuleInsts
  BY <1>2 DEF Linked, ModuleInsts
<1>5. mm = {coreInsts[i].module : i \in instances}
  BY <1>2, <1>4 DEF Linked
<1>6. ASSUME NEW x \in exportFuncs PROVE x.inst \in instances
  <2>1. PICK k \in DOMAIN InOrder(exports) : x = ExportFunc(k)
    BY <1>2 DEF Gathered
  <2>2. PICK rI, rF : WellFormed(rI, rF)
    BY DEF ComponentInv, WellFormed
  <2>3. handle_func(InOrder(exports)[k]).func.package \in ModuleInsts
    BY <1>2, <2>2, ExportFuncFacts, HandleRight
  <2> QED
    BY <1>4, <2>1, <2>3 DEF ExportFunc
<1>7. phase' = "accepted"
  BY <1>5, <1>6 DEF CheckLinking
<1> QED
  BY <1>1, <1>3, <1>7 DEF StagesInv

----------------------------------------------------------------------------
(* The invariant.                                                          *)

(* Lemma: the state at the start.                                          *)
LEMMA LinkInvInit ==
  ASSUME Init
  PROVE  LinkInv
<1>1. StagesInv
  BY DEF Init, StagesInv
<1> QED
  BY <1>1, ComponentInit DEF LinkInv

(* Lemma: each step keeps it.                                              *)
LEMMA LinkInvNext ==
  ASSUME LinkInv, [Next]_vars
  PROVE  LinkInv'
<1> USE DEF LinkInv
<1>1. CASE ParseCoreInstance
  <2>1. phase = "parsing" /\ UNCHANGED <<phase, linking>>
    BY <1>1 DEF ParseCoreInstance
  <2> QED
    BY <1>1, <2>1, ParseInstanceStep, ParsingStays
<1>2. CASE ParseCoreFunc
  <2>1. phase = "parsing" /\ UNCHANGED <<phase, linking>>
    BY <1>2 DEF ParseCoreFunc
  <2> QED
    BY <1>2, <2>1, ParseCoreFuncStep, ParsingStays
<1>3. CASE ParseCompFunc
  <2>1. phase = "parsing" /\ UNCHANGED <<phase, linking>>
    BY <1>3 DEF ParseCompFunc
  <2> QED
    BY <1>3, <2>1, ParseCompFuncStep, ParsingStays
<1>4. CASE ParseExport
  <2>1. phase = "parsing" /\ UNCHANGED <<phase, linking>>
    BY <1>4 DEF ParseExport
  <2> QED
    BY <1>4, <2>1, ParseExportStep, ParsingStays
<1>5. CASE GatherInstanceMap
  <2>1. UNCHANGED component
    BY <1>5 DEF GatherInstanceMap
  <2> QED
    BY <1>5, <2>1, ComponentSame, GatherInstanceMapStep
<1>6. CASE LinkCoreInstances
  <2>1. UNCHANGED component
    BY <1>6 DEF LinkCoreInstances
  <2> QED
    BY <1>6, <2>1, ComponentSame, LinkCoreInstancesStep
<1>7. CASE GatherComponentExports
  <2>1. UNCHANGED component
    BY <1>7 DEF GatherComponentExports
  <2> QED
    BY <1>7, <2>1, ComponentSame, GatherComponentExportsStep
<1>8. CASE CheckLinking
  <2>1. UNCHANGED component
    BY <1>8 DEF CheckLinking
  <2> QED
    BY <1>8, <2>1, ComponentSame, CheckLinkingStep
<1>9. CASE UNCHANGED vars
  <2>1. UNCHANGED <<phase, component, assumed, mm, links, exportFuncs>>
    BY <1>9 DEF vars, linking
  <2>2. Assumed => Assumed'
    BY <2>1, AssumedSame
  <2>3. Linked => Linked'
    BY <2>1, LinkedStays
  <2>4. Gathered => Gathered'
    BY <2>1, GatheredStays
  <2>5. Supported' <=> Supported
    BY <2>1, SupportedSame
  <2>6. StagesInv'
    BY <2>1, <2>2, <2>3, <2>4, <2>5 DEF StagesInv
  <2> QED
    BY <2>1, <2>6, ComponentSame
<1> QED
  BY <1>1, <1>2, <1>3, <1>4, <1>5, <1>6, <1>7, <1>8, <1>9 DEF Next

(* Lemma: so it always holds.                                              *)
LEMMA LinkInvAlways == Spec => []LinkInv
<1>1. Init => LinkInv
  BY LinkInvInit
<1>2. LinkInv /\ [Next]_vars => LinkInv'
  BY LinkInvNext
<1> QED
  BY <1>1, <1>2, PTL DEF Spec

(* Lemma: what is linked is of its type.                                   *)
LEMMA LinkedTypes ==
  ASSUME ComponentInv, Assumed, Linked
  PROVE  /\ mm \subseteq Modules
         /\ Len(links) = Len(coreInsts)
         /\ \A i \in DOMAIN links : \A j \in DOMAIN links[i] : links[i][j] \in Kinds
<1>1. PICK rI, rF : WellFormed(rI, rF)
  BY DEF ComponentInv, WellFormed
<1>2. Len(coreInsts) \in Nat /\ DOMAIN coreInsts = 1..Len(coreInsts)
  BY LenProperties DEF ComponentInv, ComponentTypeOK
<1>3. \A i \in ModuleInsts : coreInsts[i].module \in Modules
  BY InstanceFacts DEF ComponentInv, ModuleInsts
<1>4. Len(links) = Len(coreInsts)
  BY <1>2 DEF Linked
<1>5. ASSUME NEW i \in DOMAIN links, NEW j \in DOMAIN links[i] PROVE links[i][j] \in Kinds
  <2>1. i \in DOMAIN coreInsts /\ links[i] = LinkedArgs(i)
    BY DEF Linked
  <2>2. CASE coreInsts[i].kind = "exports"
    BY <1>5, <2>1, <2>2 DEF LinkedArgs
  <2>3. CASE coreInsts[i].kind = "module"
    <3>1. i \in ModuleInsts /\ j \in Imports[coreInsts[i].module]
      BY <1>5, <2>1, <2>3 DEF LinkedArgs, ModuleInsts
    <3> QED
      BY <1>1, <3>1, LinkRight
  <2> QED
    BY <2>1, <2>2, <2>3, InstanceFacts DEF ComponentInv
<1> QED
  BY <1>3, <1>4, <1>5 DEF Linked

(* Lemma: and so is what is gathered of the exports.                       *)
LEMMA GatheredTypes ==
  ASSUME ComponentInv, Assumed, Gathered
  PROVE  exportFuncs \subseteq [record_id : Nat, inst : DOMAIN coreInsts, name : Names,
                                option : {None} \cup Renames]
<1>1. PICK rI, rF : WellFormed(rI, rF)
  BY DEF ComponentInv, WellFormed
<1>2. ASSUME NEW k \in DOMAIN InOrder(exports)
      PROVE  ExportFunc(k) \in [record_id : Nat, inst : DOMAIN coreInsts, name : Names,
                                option : {None} \cup Renames]
  <2> DEFINE h == handle_func(InOrder(exports)[k])
  <2>1. k \in Nat /\ k >= 1
    BY <1>1, ExportFuncFacts
  <2>2. h.func \in Renames /\ (h.option = None \/ h.option \in Renames)
    BY <1>1, ExportFuncFacts, HandleRight
  <2>3. h.func.package \in DOMAIN coreInsts /\ h.func.member \in Names
    BY <2>2 DEF Renames
  <2>4. k - 1 \in Nat
    BY <2>1
  <2> HIDE DEF h
  <2>5. [record_id |-> k - 1, inst |-> h.func.package, name |-> h.func.member,
         option |-> h.option]
        \in [record_id : Nat, inst : DOMAIN coreInsts, name : Names, option : {None} \cup Renames]
    BY <2>2, <2>3, <2>4
  <2> QED
    BY <2>5 DEF ExportFunc, h
<1> QED
  BY <1>2 DEF Gathered

(* The types of the definitions, links and exports (from                   *)
(* LinkInvAlways).                                                         *)
THEOREM LinkingTypeCorrect == Spec => []TypeOK
<1>1. LinkInv => TypeOK
  <2> SUFFICES ASSUME LinkInv PROVE TypeOK
    OBVIOUS
  <2>1. ComponentInv /\ StagesInv /\ ComponentTypeOK
    BY DEF LinkInv, ComponentInv
  <2>2. \A m \in DOMAIN assumed : assumed[m] \in InstancesOf(m)
    <3>1. CASE assumed = <<>>
      BY <3>1
    <3> QED
      BY <2>1, <3>1 DEF StagesInv, Assumed
  <2>3. /\ mm \subseteq Modules
        /\ Len(links) <= Len(coreInsts)
        /\ \A i \in DOMAIN links : \A j \in DOMAIN links[i] : links[i][j] \in Kinds
    <3>1. Len(coreInsts) \in Nat
      BY <2>1, LenProperties DEF ComponentTypeOK
    <3>2. CASE links = <<>> /\ mm = {}
      BY <3>1, <3>2
    <3>3. CASE Linked /\ phase \notin {"parsing", "linking"}
      <4>1. Assumed
        BY <2>1, <3>3 DEF StagesInv
      <4> QED
        BY <2>1, <3>1, <3>3, <4>1, LinkedTypes
    <3> QED
      BY <2>1, <3>2, <3>3 DEF StagesInv
  <2>4. exportFuncs \subseteq [record_id : Nat, inst : DOMAIN coreInsts, name : Names,
                               option : {None} \cup Renames]
    <3>1. CASE exportFuncs = {}
      BY <3>1
    <3>2. CASE Gathered /\ phase \in {"gathered", "accepted"}
      <4>1. Assumed
        BY <2>1, <3>2 DEF StagesInv
      <4> QED
        BY <2>1, <3>2, <4>1, GatheredTypes
    <3> QED
      BY <2>1, <3>1, <3>2 DEF StagesInv
  <2> QED
    BY <2>1, <2>2, <2>3, <2>4 DEF TypeOK, StagesInv
<1> QED
  BY <1>1, LinkInvAlways, PTL

(* In every component that decompose accepts, and whose modules are        *)
(* instantiated once, each import becomes what it was: the same function   *)
(* of the same instance, the same host function with the same realloc, or  *)
(* the same builtin with the same destructor - through any depth of        *)
(* synthetic instances, aliases and modules that export their imports.     *)
THEOREM LinksAlwaysRight == Spec => []LinksRight
<1>1. LinkInv => LinksRight
  <2> SUFFICES ASSUME LinkInv, phase = "accepted", InstantiatedOnce,
                      NEW i \in DOMAIN links, NEW j \in DOMAIN links[i]
               PROVE  MergedKind(Merged, links[i][j]) =
                      Denoted[Export(coreInsts[i].args[j[1]], j[2])]
    BY DEF LinksRight
  <2>1. ComponentInv /\ Assumed /\ Linked
    BY DEF LinkInv, StagesInv
  <2>2. PICK rI, rF : WellFormed(rI, rF)
    BY <2>1 DEF ComponentInv, WellFormed
  <2>3. i \in ModuleInsts /\ j \in Imports[coreInsts[i].module]
    <3>1. i \in DOMAIN coreInsts /\ links[i] = LinkedArgs(i)
      BY <2>1 DEF Linked
    <3>2. coreInsts[i].kind # "exports"
      BY <3>1 DEF LinkedArgs
    <3> QED
      BY <2>1, <3>1, <3>2, InstanceFacts DEF ComponentInv, LinkedArgs, ModuleInsts
  <2>4. Agrees(rI, rI[i], Merged)
    BY <2>1, <2>2, MergedRight DEF Agrees
  <2> QED
    BY <2>1, <2>2, <2>3, <2>4, LinkRight
<1> QED
  BY <1>1, LinkInvAlways, PTL

(* And each function that it exports is recorded and dispatched under its  *)
(* place among all exported functions, to the core function that it is     *)
(* lifted from, with its realloc.                                          *)
THEOREM ExportsAlwaysRight == Spec => []ExportsRight
<1>1. LinkInv => ExportsRight
  <2> SUFFICES ASSUME LinkInv, phase = "accepted", InstantiatedOnce,
                      NEW e \in DOMAIN exports, NEW k \in DOMAIN exports[e].funcs
               PROVE
        LET c == resolve_component_func[exports[e].funcs[k]]
            numbered == {x \in exportFuncs : x.record_id = Cardinality(Before(e, k))}
        IN {<<Merged[Export(x.inst, x.name)], MergedKind(Merged, x.option)>> : x \in numbered} =
           {<<Denoted[Func(c.core)], OptionDenoted(Denoted, c.realloc)>>}
    BY DEF ExportsRight
  <2>1. ComponentInv /\ Assumed /\ Linked /\ Gathered
    BY DEF LinkInv, StagesInv
  <2>2. PICK rI, rF : WellFormed(rI, rF)
    BY <2>1 DEF ComponentInv, WellFormed
  <2> QED
    BY <2>1, <2>2, ExportsRightStatic
<1> QED
  BY <1>1, LinkInvAlways, PTL

(* Decompose turns down no supported component: neither linking_metadata,  *)
(* nor export_funcs, nor the checks of from_linking_metadata panic.        *)
THEOREM SupportedAlwaysAccepted == Spec => []SupportedAccepted
<1>1. LinkInv => SupportedAccepted
  BY DEF LinkInv, StagesInv, SupportedAccepted
<1> QED
  BY <1>1, LinkInvAlways, PTL

(* The sanity checks of from_linking_metadata pass whatever was linked:    *)
(* that modules with metadata are instantiated, and that exports are       *)
(* functions of instances, follows from how the metadata is made.          *)
THEOREM ChecksAlwaysPass == Spec => [][CheckLinking => phase' = "accepted"]_vars
<1>1. LinkInv /\ [Next]_vars => [CheckLinking => phase' = "accepted"]_vars
  BY CheckLinkingStep DEF LinkInv
<1> QED
  BY <1>1, LinkInvAlways, PTL DEF Spec
=============================================================================
