------------------------------ MODULE Linking ------------------------------
(***************************************************************************)
(* The linking of decompose: from the core definitions of a component to   *)
(* what each import of each module instance becomes in the decomposed      *)
(* modules - an import of another instance (Rename), a replay stub for the *)
(* host (TrueImport) or for a canonical builtin (Builtin) - and to the     *)
(* numbers under which the recorder calls the exports.                     *)
(*                                                                         *)
(* The parser takes any valid component, definition by definition; indices *)
(* go to earlier definitions.  Core items are functions here: memories and *)
(* tables resolve in the same way, but only to modules; a realloc stands   *)
(* for the canonical options.  Nested components only import functions and *)
(* export them again, as the tool assumes.                                 *)
(***************************************************************************)
EXTENDS Integers, Sequences, FiniteSets, SequencesExt

CONSTANTS
  Modules,   (* the core modules                                           *)
  Imports,   (* of each module: set of pairs of package and name           *)
  Exports,   (* of each module: its function (an own one, or an import)    *)
             (* for each exported name                                     *)
  Names,     (* names of exports                                           *)
  MaxDefinitions  (* bound on the definitions of the component             *)

ASSUME ExportsAssumption == \A m \in Modules : DOMAIN Exports[m] \subseteq Names

VARIABLES
  phase,      (* parsing, linking, linked, gathered, accepted, panicked    *)
  coreInsts, coreFuncs, compFuncs, (* index spaces of the component        *)
  exports,    (* the exports of the component                              *)
  assumed,    (* what assumed_instance_id finds for a module in the hash   *)
              (* map of instances                                          *)
  mm,         (* modules with metadata                                     *)
  links,      (* instantiations: the kind of each import, for the core     *)
              (* instances                                                 *)
  exportFuncs (* export_funcs: instance, function and record id            *)

component == <<coreInsts, coreFuncs, compFuncs, exports>>
linking == <<assumed, mm, links, exportFuncs>>
vars == <<phase, component, linking>>

----------------------------------------------------------------------------
(* Definitions of a component.  0 stands for no function.                  *)

Instantiated(m, args) == [kind |-> "module", module |-> m, args |-> args]
FromExports(e) == [kind |-> "exports", exports |-> e]
Aliased(i, n) == [kind |-> "alias", inst |-> i, name |-> n]
Lowered(f, r) == [kind |-> "lower", func |-> f, realloc |-> r]
(* resource.drop, of a host resource or one with or without destructor.    *)
ResourceDrops ==
  [kind : {"drop"}, host : {FALSE}, dtor : 0..Len(coreFuncs)]
  \cup [kind : {"drop"}, host : {TRUE}, dtor : {0}]
(* resource.new and resource.rep.                                          *)
ResourceNew == [kind |-> "new"]
Imported(k) == [kind |-> "imported", import |-> k]
Lifted(c, r) == [kind |-> "lifted", core |-> c, realloc |-> r]
(* An export enters the index space of what it exports again.              *)
Exported(f) == [kind |-> "exported", func |-> f]

Packages(m) == {i[1] : i \in Imports[m]}
Needed(m, p) == {i[2] : i \in {j \in Imports[m] : j[1] = p}}
NamesOf(i) == IF coreInsts[i].kind = "module" THEN DOMAIN Exports[coreInsts[i].module]
              ELSE DOMAIN coreInsts[i].exports
InstancesOf(m) ==
  {i \in DOMAIN coreInsts : coreInsts[i].kind = "module" /\ coreInsts[i].module = m}

Init ==
  /\ phase = "parsing"
  /\ coreInsts = <<>> /\ coreFuncs = <<>> /\ compFuncs = <<>> /\ exports = <<>>
  /\ assumed = <<>> /\ mm = {} /\ links = <<>> /\ exportFuncs = {}

MoreDefinitions ==
  Len(coreInsts) + Len(coreFuncs) + Len(compFuncs) + Len(exports) < MaxDefinitions

ParseCoreInstance ==
  /\ phase = "parsing" /\ MoreDefinitions
  /\ \E d \in
       (UNION {{Instantiated(m, a) : a \in
                 {b \in [Packages(m) -> DOMAIN coreInsts] :
                    \A p \in Packages(m) : Needed(m, p) \subseteq NamesOf(b[p])}}
               : m \in Modules}) \cup
       {FromExports(e) : e \in UNION {[N -> DOMAIN coreFuncs] : N \in (SUBSET Names) \ {{}}}} :
         coreInsts' = Append(coreInsts, d)
  /\ UNCHANGED <<phase, coreFuncs, compFuncs, exports, linking>>

(* Aliases of core exports, and the canonical functions but for lift.      *)
ParseCoreFunc ==
  /\ phase = "parsing" /\ MoreDefinitions
  /\ \E d \in
       (UNION {{Aliased(i, n) : n \in NamesOf(i)} : i \in DOMAIN coreInsts}) \cup
       {Lowered(f, r) : f \in DOMAIN compFuncs, r \in 0..Len(coreFuncs)} \cup
       ResourceDrops \cup {ResourceNew} :
         coreFuncs' = Append(coreFuncs, d)
  /\ UNCHANGED <<phase, coreInsts, compFuncs, exports, linking>>

ParseCompFunc ==
  /\ phase = "parsing" /\ MoreDefinitions
  /\ \E d \in {Imported(Len(compFuncs) + 1)} \cup 
         {Lifted(c, r) : c \in DOMAIN coreFuncs, r \in 0..Len(coreFuncs)} :
       compFuncs' = Append(compFuncs, d)
  /\ UNCHANGED <<phase, coreInsts, coreFuncs, exports, linking>>

(* An export of a function; or of an instance of a nested component: the   *)
(* functions that the parent has bound to its imports, as it exports them. *)
ParseExport ==
  /\ phase = "parsing" /\ MoreDefinitions
  /\ \/ \E f \in DOMAIN compFuncs :
          /\ exports' = Append(exports, [kind |-> "func", funcs |-> <<f>>])
          /\ compFuncs' = Append(compFuncs, Exported(f))
     \/ \E f, g \in DOMAIN compFuncs :
          /\ exports' = Append(exports, [kind |-> "instance", funcs |-> <<f, g>>])
          /\ UNCHANGED compFuncs
  /\ UNCHANGED <<phase, coreInsts, coreFuncs, linking>>

(* gather_instance_map; the order of its hash map is not ours to know.     *)
GatherInstanceMap ==
  /\ phase = "parsing" /\ coreInsts # <<>>
  /\ phase' = "linking"
  /\ assumed' \in {a \in [{m \in Modules : InstancesOf(m) # {}} -> DOMAIN coreInsts] :
                     \A m \in DOMAIN a : a[m] \in InstancesOf(m)}
  /\ UNCHANGED <<component, mm, links, exportFuncs>>

----------------------------------------------------------------------------
(* Resolution.                                                             *)

Panic == [kind |-> "panic"]
FromModule(m, f) == [kind |-> "fromModule", module |-> m, func |-> f]
None == [kind |-> "none"]

(* Through core instances to the module; which of its instances it was is  *)
(* not in the result.  Fault: an alias of a synthetic instance's export is *)
(* not followed.                                                           *)
NotFollowed(resolve, f) == Panic
Followed(resolve, f) == resolve[f]
follow_alias(resolve, c) ==
  LET i == coreInsts[c.inst]
      r == Followed(resolve, i.exports[c.name])
  IN IF i.kind = "module" THEN FromModule(i.module, Exports[i.module][c.name])
     ELSE IF r.kind = "fromModule" THEN r ELSE Panic
resolve_core_func[f \in DOMAIN coreFuncs] ==
  IF coreFuncs[f].kind # "alias" THEN coreFuncs[f]
  ELSE follow_alias(resolve_core_func, coreFuncs[f])

resolve_component_func[f \in DOMAIN compFuncs] ==
  IF compFuncs[f].kind = "exported" THEN resolve_component_func[compFuncs[f].func]
  ELSE compFuncs[f]

(* An exported name of the function.  Fault: the index is not compared.    *)
FirstExport(m, f) == CHOOSE n \in DOMAIN Exports[m] : TRUE
get_export_name(m, f) == CHOOSE n \in DOMAIN Exports[m] : Exports[m][n] = f

Rename(r) ==
  [kind |-> "rename", package |-> assumed[r.module],
   member |-> get_export_name(r.module, r.func)]

(* The function of a canonical option, or a destructor; both have to come  *)
(* from a module.  Fault: nobody looks whether they do.                    *)
FuncOption(f) ==
  IF f = 0 THEN None
  ELSE LET r == resolve_core_func[f]
       IN IF r.kind = "fromModule" THEN Rename(r) ELSE Panic
OptionUnchecked(kind, host, option) == [kind |-> kind, host |-> host, option |-> option]
WithOption(kind, host, option) ==
  IF option = Panic THEN Panic ELSE [kind |-> kind, host |-> host, option |-> option]

resolve_core_func_link(f) ==
  LET r == resolve_core_func[f]
  IN CASE r.kind = "fromModule" -> Rename(r)
       [] r.kind = "lower" ->
            IF resolve_component_func[r.func].kind = "imported"
            THEN WithOption("trueImport", TRUE, FuncOption(r.realloc)) ELSE Panic
       [] r.kind = "drop" -> WithOption("builtin", r.host, FuncOption(r.dtor))
       [] r.kind = "new" -> WithOption("builtin", FALSE, None)
       [] OTHER -> Panic

----------------------------------------------------------------------------
(* linking_metadata and from_linking_metadata.                             *)

(* gather_instance_link, of the export n of the instance given as package. *)
ImportKind(i, n) ==
  IF coreInsts[i].kind = "exports" THEN resolve_core_func_link(coreInsts[i].exports[n])
  ELSE [kind |-> "rename", package |-> assumed[coreInsts[i].module], member |-> n]

(* An instance given as a package must not have more than is imported.     *)
Unmatched(m, args) == \E p \in Packages(m) : NamesOf(args[p]) # Needed(m, p)

LinkedArgs(i) ==
  IF coreInsts[i].kind = "exports" THEN <<>>
  ELSE [j \in Imports[coreInsts[i].module] |-> ImportKind(coreInsts[i].args[j[1]], j[2])]

LinkCoreInstances ==
  /\ phase = "linking"
  /\ LET kinds == [i \in DOMAIN coreInsts |-> LinkedArgs(i)]
         instances == {i \in DOMAIN coreInsts : coreInsts[i].kind = "module"}
     IN IF \E i \in instances : \/ Unmatched(coreInsts[i].module, coreInsts[i].args)
                                \/ \E j \in DOMAIN kinds[i] : kinds[i][j] = Panic
        THEN /\ phase' = "panicked"
             /\ UNCHANGED <<mm, links>>
        ELSE /\ phase' = "linked"
             /\ mm' = {coreInsts[i].module : i \in instances}
             /\ links' = kinds
  /\ UNCHANGED <<component, assumed, exportFuncs>>

(* handle_func: the module function that an exported function is lifted    *)
(* from, with its option.                                                  *)
handle_func(f) ==
  LET c == resolve_component_func[f]
      r == resolve_core_func[c.core]
      option == FuncOption(c.realloc)
  IN IF c.kind = "lifted" /\ r.kind = "fromModule" /\ option # Panic
     THEN [func |-> Rename(r), option |-> option] ELSE Panic

(* The functions in the order of the exports, the functions of an exported *)
(* instance in its place.  Fault: an exported instance gets one number.    *)
FirstOfEach(es) == [e \in DOMAIN es |-> Head(es[e].funcs)]
InOrder(es) == FlattenSeq([e \in DOMAIN es |-> es[e].funcs])

GatherComponentExports ==
  /\ phase = "linked"
  /\ LET order == InOrder(exports)
         found == [k \in DOMAIN order |-> handle_func(order[k])]
     IN IF \E k \in DOMAIN order : found[k] = Panic
        THEN phase' = "panicked" /\ UNCHANGED exportFuncs
        ELSE /\ phase' = "gathered"
             /\ exportFuncs' = {[record_id |-> k - 1, inst |-> found[k].func.package,
                                 name |-> found[k].func.member,
                                 option |-> found[k].option] : k \in DOMAIN order}
  /\ UNCHANGED <<component, assumed, mm, links>>

(* The sanity checks of from_linking_metadata.                             *)
CheckLinking ==
  /\ phase = "gathered"
  /\ LET instances == {i \in DOMAIN links : coreInsts[i].kind = "module"}
     IN phase' = IF /\ mm = {coreInsts[i].module : i \in instances}
                    /\ {e.inst : e \in exportFuncs} \subseteq instances
                 THEN "accepted" ELSE "panicked"
  /\ UNCHANGED <<component, linking>>

Next ==
  \/ ParseCoreInstance \/ ParseCoreFunc \/ ParseCompFunc \/ ParseExport
  \/ GatherInstanceMap \/ LinkCoreInstances \/ GatherComponentExports \/ CheckLinking

Spec == Init /\ [][Next]_vars

----------------------------------------------------------------------------
(* Properties.                                                             *)

Renames == [kind : {"rename"}, package : DOMAIN coreInsts, member : Names]
Kinds ==
  Renames \cup [kind : {"trueImport", "builtin"}, host : BOOLEAN, option : {None} \cup Renames]

CoreInstances ==
  (UNION {[kind : {"module"}, module : {m}, args : [Packages(m) -> DOMAIN coreInsts]]
            : m \in Modules})
  \cup (UNION {[kind : {"exports"}, exports : [N -> DOMAIN coreFuncs]] : N \in SUBSET Names})
CoreFuncs ==
  [kind : {"alias"}, inst : DOMAIN coreInsts, name : Names]
  \cup [kind : {"lower"}, func : DOMAIN compFuncs, realloc : 0..Len(coreFuncs)]
  \cup [kind : {"drop"}, host : BOOLEAN, dtor : 0..Len(coreFuncs)] \cup {ResourceNew}
CompFuncs ==
  [kind : {"imported"}, import : Nat]
  \cup [kind : {"lifted"}, core : DOMAIN coreFuncs, realloc : 0..Len(coreFuncs)]
  \cup [kind : {"exported"}, func : DOMAIN compFuncs]

ComponentTypeOK ==
  /\ coreInsts \in Seq(CoreInstances) /\ coreFuncs \in Seq(CoreFuncs)
  /\ compFuncs \in Seq(CompFuncs)
  /\ exports \in Seq([kind : {"func", "instance"}, funcs : Seq(DOMAIN compFuncs)])

TypeOK ==
  /\ phase \in {"parsing", "linking", "linked", "gathered", "accepted", "panicked"}
  /\ ComponentTypeOK
  /\ \A m \in DOMAIN assumed : assumed[m] \in InstancesOf(m)
  /\ mm \subseteq Modules
  /\ Len(links) <= Len(coreInsts)
  /\ \A i \in DOMAIN links : \A j \in DOMAIN links[i] : links[i][j] \in Kinds
  /\ exportFuncs \subseteq [record_id : Nat, inst : DOMAIN coreInsts, name : Names,
                             option : {None} \cup Renames]

InstantiatedOnce == \A m \in Modules : Cardinality(InstancesOf(m)) <= 1

(* What the component model says a core function is: an own function of a  *)
(* module instance, or a host or builtin function, with what its option    *)
(* is.  An import that a module exports again is what was given for it.    *)
Guest(i, f) == [kind |-> "guest", inst |-> i, func |-> f]
Outside(kind, host, option) == [kind |-> kind, host |-> host, option |-> option]
Func(f) == [kind |-> "func", func |-> f]
Export(i, n) == [kind |-> "export", inst |-> i, name |-> n]
Items == {Func(f) : f \in DOMAIN coreFuncs} \cup
         (UNION {{Export(i, n) : n \in NamesOf(i)} : i \in DOMAIN coreInsts})

OptionDenoted(denoted, f) == IF f = 0 THEN None ELSE denoted[Func(f)]
FuncDenoted(denoted, c) ==
  CASE c.kind = "alias" -> denoted[Export(c.inst, c.name)]
    [] c.kind = "lower" -> Outside("trueImport", TRUE, OptionDenoted(denoted, c.realloc))
    [] c.kind = "drop" -> Outside("builtin", c.host, OptionDenoted(denoted, c.dtor))
    [] c.kind = "new" -> Outside("builtin", FALSE, None)
ExportDenoted(denoted, i, n) ==
  LET d == coreInsts[i]
      f == Exports[d.module][n]
  IN IF d.kind = "exports" THEN denoted[Func(d.exports[n])]
     ELSE IF f \in Imports[d.module] THEN denoted[Export(d.args[f[1]], f[2])]
     ELSE Guest(i, f)
Denoted[x \in Items] ==
  IF x.kind = "func" THEN FuncDenoted(Denoted, coreFuncs[x.func])
  ELSE ExportDenoted(Denoted, x.inst, x.name)

(* What a name stands for after the decomposed modules are merged.         *)
ModuleExports == {x \in Items : x.kind = "export" /\ coreInsts[x.inst].kind = "module"}
MergedRename(merged, k) ==
  IF k = None THEN None ELSE merged[Export(k.package, k.member)]
MergedKind(merged, k) ==
  IF k.kind \in {"none", "rename"} THEN MergedRename(merged, k)
  ELSE Outside(k.kind, k.host, MergedRename(merged, k.option))
Merged[x \in ModuleExports] ==
  LET m == coreInsts[x.inst].module
      f == Exports[m][x.name]
  IN IF f \in Imports[m] THEN MergedKind(Merged, links[x.inst][f]) ELSE Guest(x.inst, f)

(* Whatever synthetic instances, aliases and modules that export their     *)
(* imports lie between, each import of an accepted component is, after     *)
(* merging, the function that it was in the component: replayed if and     *)
(* only if it was the host's, with the same realloc, or destructor.        *)
LinksRight ==
  phase = "accepted" /\ InstantiatedOnce =>
    \A i \in DOMAIN links : \A j \in DOMAIN links[i] :
      MergedKind(Merged, links[i][j]) = Denoted[Export(coreInsts[i].args[j[1]], j[2])]

Before(e, k) == (UNION {{<<d, j>> : j \in DOMAIN exports[d].funcs} : d \in 1..e - 1})
                \cup {<<e, j>> : j \in 1..k - 1}

(* The number by which the recorder calls an exported function is its      *)
(* place among all of them, those of exported instances included, and      *)
(* dispatch on it runs the core function that the export is lifted from,   *)
(* with its realloc.                                                       *)
ExportsRight ==
  phase = "accepted" /\ InstantiatedOnce =>
    \A e \in DOMAIN exports : \A k \in DOMAIN exports[e].funcs :
      LET c == resolve_component_func[exports[e].funcs[k]]
          numbered == {x \in exportFuncs : x.record_id = Cardinality(Before(e, k))}
      IN {<<Merged[Export(x.inst, x.name)], MergedKind(Merged, x.option)>> : x \in numbered} =
         {<<Denoted[Func(c.core)], OptionDenoted(Denoted, c.realloc)>>}

(* A function that comes from a module, through any synthetic instances.   *)
OfModule[f \in DOMAIN coreFuncs] ==
  LET c == coreFuncs[f]
      i == coreInsts[c.inst]
  IN c.kind = "alias" /\ (i.kind = "module" \/ OfModule[i.exports[c.name]])

Supported ==
  /\ \A i \in DOMAIN coreInsts : coreInsts[i].kind = "module" =>
       \A p \in Packages(coreInsts[i].module) :
         NamesOf(coreInsts[i].args[p]) = Needed(coreInsts[i].module, p)
  /\ \A f \in DOMAIN coreFuncs :
       LET c == coreFuncs[f] IN
         CASE c.kind = "alias" -> OfModule[f]
           [] c.kind = "lower" -> /\ resolve_component_func[c.func].kind = "imported"
                                  /\ c.realloc # 0 => OfModule[c.realloc]
           [] c.kind = "drop" -> c.dtor # 0 => OfModule[c.dtor]
           [] OTHER -> TRUE
  /\ \A e \in DOMAIN exports : \A k \in DOMAIN exports[e].funcs :
       LET c == resolve_component_func[exports[e].funcs[k]]
       IN c.kind = "lifted" /\ OfModule[c.core] /\ (c.realloc # 0 => OfModule[c.realloc])

(* Decompose accepts every component whose instances are given exactly     *)
(* what they import, which aliases, lifts and passes as options only       *)
(* functions of modules, however deep in synthetic instances, and lowers   *)
(* only imports.                                                           *)
SupportedAccepted == Supported => phase # "panicked"

(* "Each module should be instantiated exactly once for now" (main.rs,     *)
(* from_linking_metadata).                                                 *)
OnceChecked == phase = "accepted" => InstantiatedOnce
=============================================================================
