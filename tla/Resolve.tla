------------------------------- MODULE Resolve -------------------------------
(***************************************************************************)
(* linker.c: linker_resolve.  It walks every symbol of every object once   *)
(* and keeps the undefined names in the order they are first met, then     *)
(* walks that list and turns each name that no object defines into an      *)
(* import, numbering modules and libraries as it meets them, or into an    *)
(* entry of the unresolved list.                                           *)
(***************************************************************************)
EXTENDS ObjectFiles, SequencesExt

CONSTANTS
    Soname, Library,
    ps5link_catalog,        \* the generated table and the hand-written one:
    ps5link_catalog_extra,  \* sequences of [soname, library, exports]
    Program                 \* the command lines: sequences of symbol tables

Entry == [soname : Soname, library : Library, exports : SUBSET Name]

ASSUME CatalogAssumption ==
    /\ ps5link_catalog \in Seq(Entry)
    /\ ps5link_catalog_extra \in Seq(Entry)
\* No name is listed twice, neither in one table nor across the two.
ASSUME OneExporterAssumption ==
    \A i, j \in DOMAIN (ps5link_catalog \o ps5link_catalog_extra) :
        LET both == ps5link_catalog \o ps5link_catalog_extra IN
        i # j => both[i].exports \intersect both[j].exports = {}
ASSUME ProgramAssumption == Program \subseteq Seq(Seq(Symbol))

VARIABLES
    objects,        \* the symbol tables linked: never changes
    pc,             \* "collect", "resolve" or "done"
    oi, sj,         \* the symbol the first loop looks at
    undef_names,    \* undefined names, once each
    next,           \* the name the second loop looks at
    mods, libs,     \* sonames and (soname, library) pairs in id order
    imports, unresolved

vars == <<objects, pc, oi, sj, undef_names, next, mods, libs, imports, unresolved>>

------------------------------------------------------------------------------
NoEntry == [soname |-> NoName]

FirstOf(table, hit) == IF hit = 0 THEN NoEntry ELSE table[hit]

find_in(table, plain_name) ==
    FirstOf(table, SelectInSeq(table, LAMBDA e : plain_name \in e.exports))

\* Slip: the hand-written table is not searched.
GeneratedTableOnly(plain_name) == find_in(ps5link_catalog, plain_name)

catalog_find(plain_name) ==
    LET e == find_in(ps5link_catalog, plain_name) IN
    IF e # NoEntry THEN e ELSE find_in(ps5link_catalog_extra, plain_name)

\* module_index and library_index answer the position of a key in the table
\* built so far, and append the key when it is not there.
IndexOf(table, key) ==
    IF Contains(table, key) THEN SelectInSeq(table, LAMBDA k : k = key)
    ELSE Len(table) + 1

module_index(table, soname) == IndexOf(table, soname)

\* Slip: comparing the soname alone.
LibraryBySoname(table, key) ==
    IF \E i \in DOMAIN table : table[i][1] = key[1]
    THEN SelectInSeq(table, LAMBDA k : k[1] = key[1])
    ELSE Len(table) + 1

library_index(table, key) == IndexOf(table, key)

\* The entry an index past the end of the table asks for.
Enter(table, key, index) == IF index > Len(table) THEN Append(table, key) ELSE table

------------------------------------------------------------------------------
Init ==
    /\ objects \in Program
    /\ pc = "collect"
    /\ oi = 1 /\ sj = 1
    /\ undef_names = <<>>
    /\ next = 1
    /\ mods = <<>> /\ libs = <<>>
    /\ imports = <<>> /\ unresolved = <<>>

InObject == pc = "collect" /\ oi <= Len(objects) /\ sj <= Len(objects[oi])

already(name) == Contains(undef_names, name)

CollectSymbol ==
    /\ InObject
    /\ LET sym == objects[oi][sj] IN
       undef_names' = IF is_undefined(sym) /\ ~already(sym.name)
                      THEN Append(undef_names, sym.name)
                      ELSE undef_names
    /\ sj' = sj + 1
    /\ UNCHANGED <<objects, pc, oi, next, mods, libs, imports, unresolved>>

\* Slip: the inner index is not put back to the first symbol.
NextObjectKeepsIndex ==
    /\ pc = "collect" /\ oi <= Len(objects) /\ sj > Len(objects[oi])
    /\ oi' = oi + 1
    /\ UNCHANGED <<objects, pc, sj, undef_names, next, mods, libs, imports, unresolved>>

NextObject ==
    /\ pc = "collect" /\ oi <= Len(objects) /\ sj > Len(objects[oi])
    /\ oi' = oi + 1
    /\ sj' = 1
    /\ UNCHANGED <<objects, pc, undef_names, next, mods, libs, imports, unresolved>>

EndCollect ==
    /\ pc = "collect" /\ oi > Len(objects)
    /\ pc' = "resolve"
    /\ UNCHANGED <<objects, oi, sj, undef_names, next, mods, libs, imports, unresolved>>

AtName == pc = "resolve" /\ next <= Len(undef_names)

ResolveDefined ==
    /\ AtName
    /\ is_defined_anywhere(objects, undef_names[next])
    /\ next' = next + 1
    /\ UNCHANGED <<objects, pc, oi, sj, undef_names, mods, libs, imports, unresolved>>

ResolveUnknown ==
    /\ AtName
    /\ ~is_defined_anywhere(objects, undef_names[next])
    /\ catalog_find(undef_names[next]) = NoEntry
    /\ unresolved' = Append(unresolved, undef_names[next])
    /\ next' = next + 1
    /\ UNCHANGED <<objects, pc, oi, sj, undef_names, mods, libs, imports>>

ResolveImport ==
    /\ AtName
    /\ ~is_defined_anywhere(objects, undef_names[next])
    /\ LET entry == catalog_find(undef_names[next])
           key == <<entry.soname, entry.library>> IN
       /\ entry # NoEntry
       /\ mods' = Enter(mods, entry.soname, module_index(mods, entry.soname))
       /\ libs' = Enter(libs, key, library_index(libs, key))
       /\ imports' = Append(imports,
              [plain_name |-> undef_names[next],
               soname |-> entry.soname, library |-> entry.library,
               module_id |-> module_index(mods, entry.soname),   \* from 1
               library_id |-> library_index(libs, key) - 1])     \* from 0
    /\ next' = next + 1
    /\ UNCHANGED <<objects, pc, oi, sj, undef_names, unresolved>>

Finish ==
    /\ pc = "resolve" /\ next > Len(undef_names)
    /\ pc' = "done"
    /\ UNCHANGED <<objects, oi, sj, undef_names, next, mods, libs, imports, unresolved>>

Next ==
    \/ CollectSymbol \/ NextObject \/ EndCollect
    \/ ResolveDefined \/ ResolveUnknown \/ ResolveImport
    \/ Finish

Spec == Init /\ [][Next]_vars

------------------------------------------------------------------------------
\* The type invariant: the walks stay inside their lists, and what they build
\* holds names, modules and libraries of the catalog only.
TypeOK ==
    /\ objects \in Seq(Seq(Symbol))
    /\ pc \in {"collect", "resolve", "done"}
    /\ oi \in 1..(Len(objects) + 1)
    /\ sj \in Nat \ {0}
    /\ undef_names \in Seq(Name)
    /\ next \in 1..(Len(undef_names) + 1)
    /\ mods \in Seq(Soname)
    /\ libs \in Seq(Soname \X Library)
    /\ imports \in Seq([plain_name : Name, soname : Soname, library : Library,
                        module_id : Nat \ {0}, library_id : Nat])
    /\ unresolved \in Seq(Name)

\* The tables the writer derives from the imports are keyed by id alone
\* (dynwriter.c keeps the names of the first import it meets with an id), so
\* two imports must share an id exactly when they share the module, or the
\* module and the library.
IdsNameOneModuleAndLibrary ==
    \A i, j \in DOMAIN imports :
        LET a == imports[i]
            b == imports[j] IN
        /\ a.module_id = b.module_id <=> a.soname = b.soname
        /\ a.library_id = b.library_id
               <=> a.soname = b.soname /\ a.library = b.library

\* ------------------------------------------------- against Resolution
Referenced ==
    {name \in Name : \E i \in DOMAIN objects : \E j \in DOMAIN objects[i] :
        is_undefined(objects[i][j]) /\ objects[i][j].name = name}

Wanted == {name \in Referenced : ~is_defined_anywhere(objects, name)}

ImportedNames == {imports[i].plain_name : i \in DOMAIN imports}

ImportOf(name) ==
    LET i == CHOOSE k \in DOMAIN imports : imports[k].plain_name = name
    IN  <<imports[i].soname, imports[i].library>>

ExportersOf(name) ==
    {e \in ToSet(ps5link_catalog) \union ToSet(ps5link_catalog_extra) :
        name \in e.exports}

\* What answers for a name no entry exports: no pair.
Unexported == <<>>

ProviderOf(name) ==
    IF ExportersOf(name) = {} THEN Unexported
    ELSE LET e == CHOOSE e \in ExportersOf(name) : TRUE IN <<e.soname, e.library>>

Abstract == INSTANCE Resolution WITH
    Provider <- ProviderOf,
    NoProvider <- Unexported,
    wanted <- Wanted,
    bound <- [name \in ImportedNames |-> ImportOf(name)],
    missing <- ToSet(unresolved)

\* linker_resolve settles each wanted name once, from the entry that exports
\* it, whatever the objects and the order of their symbols.
RefinesResolution == Abstract!Spec

\* Returning with a name neither imported nor reported would let link_real
\* write a program with a reference to nothing; settling one twice would give
\* it two dynamic symbols.
EachNameSettledOnce ==
    /\ pc = "done" => Abstract!Open = {}
    /\ \A i, j \in DOMAIN imports :
          imports[i].plain_name = imports[j].plain_name => i = j
    /\ IsInjective(unresolved)

\* README.md says the linker imports system functions by NID from the module
\* that exports them.  A name the catalog exports and no object exports (a
\* LOCAL symbol is private to its object) is to be imported.
ExportedBySomeObject(name) ==
    \E i \in DOMAIN objects : \E j \in DOMAIN objects[i] :
        FindsDefined(objects[i][j], name) /\ objects[i][j].bind # "LOCAL"

SystemFunctionsAreImported ==
    pc = "done" =>
        \A name \in Referenced :
            ExportersOf(name) # {} /\ ~ExportedBySomeObject(name)
                => name \in ImportedNames

==============================================================================
