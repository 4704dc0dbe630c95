------------------------------- MODULE Relocate -------------------------------
(***************************************************************************)
(* dynwriter.c, the three walks over the relocations: which imports are    *)
(* called and which are loaded from the GOT; which references to the       *)
(* binary's own symbols cannot be relaxed and need a GOT slot; and the     *)
(* patching itself.  Then the loader applies the tables of records.        *)
(*                                                                         *)
(* An address is named, not counted: <<"at", o, j>> is where symbol j of   *)
(* object o ends up, <<"plt", k>> and <<"got", k>> the k-th stub and slot, *)
(* <<"import", n>> what the loader finds for n.  Slots are numbered, so    *)
(* that two uses of one slot are seen.                                     *)
(***************************************************************************)
EXTENDS ObjectFiles, SequencesExt

CONSTANT Program           \* the links tried: sequences of object files

Call == {"PC32", "PLT32"}
GotLoad == {"GOTPCREL", "GOTPCRELX", "REX_GOTPCRELX"}
Patched == Call \union GotLoad \union {"64"}

\* The objects of a link, read; a relocation names a symbol and a section its
\* object has, which nothing looks at.
Read(files) == [o \in DOMAIN files |-> elf_object_read(files[o])]

WellFormed(object) ==
    \A k \in DOMAIN object.relocs :
        /\ object.relocs[k].sym \in DOMAIN object.symbols
        /\ object.relocs[k].target_section \in DOMAIN object.regions

ASSUME ProgramAssumption ==
    /\ Program \subseteq Seq(File)
    /\ \A files \in Program : \A o \in DOMAIN files : WellFormed(elf_object_read(files[o]))

\* Of the statics only ReferencesReach needs something: a section has a local
\* symbol, and no static is loaded through the GOT (a compiler reaches it directly,
\* and dynwriter.c:291 relies on it for a slot to serve all of a name).
StaticsReachedDirectly(objects) ==
    \A o \in DOMAIN objects :
        /\ \A j \in DOMAIN objects[o].symbols :
               objects[o].symbols[j].type = "SECTION" => objects[o].symbols[j].bind = "LOCAL"
        /\ \A k \in DOMAIN objects[o].relocs :
               objects[o].relocs[k].r_type \in GotLoad
                   => objects[o].symbols[objects[o].relocs[k].sym].bind # "LOCAL"

ASSUME StaticsAssumption == \A files \in Program : StaticsReachedDirectly(Read(files))

VARIABLES
    program,                        \* the objects linked: never changes
    phase,                          \* "scan", "prescan", "patch", "load", "done"
    at,                             \* the relocation, or the record, looked at
    import_called, import_gotdata,  \* names marked by the first walk
    local_got_names,                \* own symbols that get a slot, once each
    local_got_emitted,              \* those whose slot has its fixup
    field,                          \* what each reference was patched with
    relaxed,                        \* references whose instruction was rewritten
    relrel,                         \* base-relative records of the patching
    skipped, unrelaxable, not_writable,   \* references counted and reported
    relaplt, reladyn, relative_count,     \* the tables the loader reads
    memory                          \* what it has written where

vars == <<program, phase, at, import_called, import_gotdata, local_got_names,
          local_got_emitted, field, relaxed, relrel, skipped, unrelaxable,
          not_writable, relaplt, reladyn, relative_count, memory>>

\* What the first walk, the second, the warnings and the tables are kept in.
marks == <<import_called, import_gotdata>>
slots == <<local_got_names, local_got_emitted>>
warnings == <<skipped, unrelaxable, not_writable>>
records == <<relaplt, reladyn, relative_count>>

-------------------------------------------------------------------------------
\* Two nested loops: over the objects, and over what each has.
InLoops(counts) ==
    FlattenSeq([o \in DOMAIN counts |-> [k \in 1..counts[o] |-> <<o, k>>]])

References == InLoops([o \in DOMAIN program |-> Len(program[o].relocs)])
Symbols == InLoops([o \in DOMAIN program |-> Len(program[o].symbols)])

\* The elements of a sequence that are in a set, in their order.
Kept(s, set) ==
    LET kept[n \in 0..Len(s)] ==
        IF n = 0 THEN <<>>
        ELSE IF s[n] \in set THEN Append(kept[n - 1], s[n]) ELSE kept[n - 1]
    IN kept[Len(s)]

RelocOf(ref) == program[ref[1]].relocs[ref[2]]
SymbolOf(ref) == program[ref[1]].symbols[RelocOf(ref).sym]

HasSection(o, sym) == sym.shndx \in DOMAIN program[o].regions
RegionOf(ref) == program[ref[1]].regions[RelocOf(ref).target_section]
Live(ref) == RegionOf(ref) # "NONE"

Tables == [o \in DOMAIN program |-> program[o].symbols]

SymbolAt(s) == program[s[1]].symbols[s[2]]
Earlier(s, t) == s[1] < t[1] \/ (s[1] = t[1] /\ s[2] < t[2])

\* The imports linker_resolve answers, in the order of their first symbols.
imports ==
    LET wanted == {s \in ToSet(Symbols) : is_undefined(SymbolAt(s))
                      /\ ~is_defined_anywhere(Tables, SymbolAt(s).name)}
        first == {s \in wanted : \A t \in wanted :
                      SymbolAt(t).name = SymbolAt(s).name => ~Earlier(t, s)}
        importing == Kept(Symbols, first) IN
    [k \in DOMAIN importing |-> SymbolAt(importing[k]).name]

Nowhere == <<"nowhere">>

Init ==
    /\ \E files \in Program : program = Read(files)
    /\ phase = "scan" /\ at = 1
    /\ import_called = {} /\ import_gotdata = {}
    /\ local_got_names = <<>> /\ local_got_emitted = {}
    /\ field = [ref \in ToSet(References) |-> Nowhere]
    /\ relaxed = {}
    /\ relrel = <<>>
    /\ skipped = {} /\ unrelaxable = {} /\ not_writable = {}
    /\ relaplt = <<>> /\ reladyn = <<>> /\ relative_count = 0
    /\ memory = <<>>

AtReference(p) == phase = p /\ at <= Len(References)

NextPhase(from, to) == phase = from /\ at > Len(References) /\ phase' = to /\ at' = 1

-------------------------------------------------------------------------------
\* Walk 1.  The name is the symbol's; the section the reference is in is not
\* asked for, so a dropped one marks imports too.
UsesImport(ref) ==
    LET sym == SymbolOf(ref) IN
    /\ sym.type # "SECTION" /\ is_undefined(sym)
    /\ ~is_defined_anywhere(Tables, sym.name)
    /\ Contains(imports, sym.name)

MarkImport ==
    /\ AtReference("scan")
    /\ LET ref == References[at]
           MarkedBy(kinds) == IF UsesImport(ref) /\ RelocOf(ref).r_type \in kinds
                              THEN {SymbolOf(ref).name} ELSE {} IN
       /\ import_called' = import_called \union MarkedBy(Call)
       /\ import_gotdata' = import_gotdata \union MarkedBy(GotLoad)
    /\ at' = at + 1
    /\ UNCHANGED <<program, phase, slots, field, relaxed, relrel, warnings, records,
                   memory>>

\* The marked imports are numbered in the order of the imports.
bound == Kept(imports, import_called)
gotdata == Kept(imports, import_gotdata)

PositionIn(names, n) == SelectInSeq(names, LAMBDA x : x = n)

BoundSlot(n) == <<"got", PositionIn(bound, n)>>
GotdataSlot(n) == <<"got", Len(bound) + PositionIn(gotdata, n)>>

\* Slip: the slots of own symbols start where those of the imports do.
LocalOverGotdata(n) == <<"got", Len(bound) + PositionIn(local_got_names, n)>>

LocalSlot(n) == <<"got", Len(bound) + Len(gotdata) + PositionIn(local_got_names, n)>>

EndScan ==
    /\ NextPhase("scan", "prescan")
    /\ UNCHANGED <<program, marks, slots, field, relaxed, relrel, warnings, records,
                   memory>>

-------------------------------------------------------------------------------
\* Walk 2.  The two tests of the opcode also ask whether it is there at all, and
\* not alike (dynwriter.c:309 and 648): a word of data in code could tell them apart
\* and as a rule is reported as unrelaxable.  ObjectFiles leaves it out.
\* Slip: a plain GOTPCREL is taken for relaxable by its opcode.
RelaxableByOpcode(reloc) == reloc.op \in {"mov", "call", "jmp"}

Relaxable(reloc) == reloc.r_type # "GOTPCREL" /\ reloc.op \in {"mov", "call", "jmp"}

Named(sym) == sym.type # "SECTION" /\ sym.name # NoName

NeedsLocalSlot(ref) ==
    LET sym == SymbolOf(ref) IN
    /\ RelocOf(ref).r_type \in GotLoad
    /\ RegionOf(ref) = "CODE"
    /\ Named(sym)
    /\ ~is_undefined(sym) \/ is_defined_anywhere(Tables, sym.name)
    /\ ~Relaxable(RelocOf(ref))

CountLocalSlot ==
    /\ AtReference("prescan")
    /\ LET ref == References[at]
           name == SymbolOf(ref).name IN
       local_got_names' = IF NeedsLocalSlot(ref) /\ ~Contains(local_got_names, name)
                          THEN Append(local_got_names, name) ELSE local_got_names
    /\ at' = at + 1
    /\ UNCHANGED <<program, phase, marks, local_got_emitted, field, relaxed, relrel,
                   warnings, records, memory>>

EndPrescan ==
    /\ NextPhase("prescan", "patch")
    /\ UNCHANGED <<program, marks, slots, field, relaxed, relrel, warnings, records,
                   memory>>

-------------------------------------------------------------------------------
\* Walk 3.  name_addrs: the symbols with a name and a place, whoever may see
\* them; the first of a name is found.
name_addrs ==
    Kept(Symbols, {s \in ToSet(Symbols) :
        LET sym == SymbolAt(s) IN
        /\ ~is_undefined(sym) /\ Named(sym)
        /\ HasSection(s[1], sym) /\ program[s[1]].regions[sym.shndx] # "NONE"})

Place(o, j) == <<"at", o, j>>

AddressByName(name) ==
    LET k == SelectInSeq(name_addrs, LAMBDA s : SymbolAt(s).name = name) IN
    IF k = 0 THEN Nowhere ELSE Place(name_addrs[k][1], name_addrs[k][2])

\* What an import answers: its stub to a call, its slot to a load.
AddressOfImport(name, r_type) ==
    CASE r_type \in Call /\ Contains(bound, name) -> <<"plt", PositionIn(bound, name)>>
      [] r_type \in GotLoad /\ Contains(gotdata, name) -> GotdataSlot(name)
      [] OTHER -> Nowhere

\* S: a symbol in a section of its object, else the first of its name, else an
\* import.  One in a dropped section is not looked up by name.
AddressOf(ref) ==
    LET sym == SymbolOf(ref)
        byName == AddressByName(sym.name) IN
    IF HasSection(ref[1], sym)
    THEN IF program[ref[1]].regions[sym.shndx] = "NONE" THEN Nowhere
         ELSE Place(ref[1], RelocOf(ref).sym)
    ELSE IF byName # Nowhere THEN byName
         ELSE AddressOfImport(sym.name, RelocOf(ref).r_type)

IsGotSlot(address) == address[1] = "got"

\* The reference the patching walk is at.
Current == IF AtReference("patch") THEN {References[at]} ELSE {}

\* There is an address to patch it with and bytes in the file to patch.
Patchable(ref) == Live(ref) /\ AddressOf(ref) # Nowhere /\ RegionOf(ref) # "BSS"

\* The test of the opcode is made a second time, where it is rewritten.
Rewritable(reloc) == reloc.r_type # "GOTPCREL" /\ reloc.op \in {"mov", "call", "jmp"}

Patch(ref, address) == field' = [field EXCEPT ![ref] = address] /\ at' = at + 1

\* A dropped section, or one with no bytes in the file.
PassUnstored ==
    /\ \E ref \in Current :
           \/ ~Live(ref)
           \/ AddressOf(ref) # Nowhere /\ RegionOf(ref) = "BSS"
    /\ at' = at + 1
    /\ UNCHANGED <<program, phase, marks, slots, field, relaxed, relrel, warnings,
                   records, memory>>

LeaveUnpatched ==
    \E ref \in Current :
        /\ Live(ref)
        /\ AddressOf(ref) = Nowhere
        /\ skipped' = skipped \union {ref}
        /\ at' = at + 1
        /\ UNCHANGED <<program, phase, marks, slots, field, relaxed, relrel,
                       unrelaxable, not_writable, records, memory>>

PatchCall ==
    \E ref \in Current :
        /\ Patchable(ref)
        /\ RelocOf(ref).r_type \in Call
        /\ Patch(ref, AddressOf(ref))
        /\ UNCHANGED <<program, phase, marks, slots, relaxed, relrel, warnings, records,
                       memory>>

PatchImportLoad ==
    \E ref \in Current :
        /\ Patchable(ref)
        /\ RelocOf(ref).r_type \in GotLoad /\ IsGotSlot(AddressOf(ref))
        /\ Patch(ref, AddressOf(ref))
        /\ UNCHANGED <<program, phase, marks, slots, relaxed, relrel, warnings, records,
                       memory>>

LoadOfOwnSymbol(ref) ==
    /\ Patchable(ref)
    /\ RelocOf(ref).r_type \in GotLoad /\ ~IsGotSlot(AddressOf(ref))

Relax ==
    \E ref \in Current :
        /\ LoadOfOwnSymbol(ref) /\ Rewritable(RelocOf(ref))
        /\ relaxed' = relaxed \union {ref}
        /\ Patch(ref, AddressOf(ref))
        /\ UNCHANGED <<program, phase, marks, slots, relrel, warnings, records, memory>>

Relative(target, value) == [type |-> "RELATIVE", target |-> target, value |-> value]

\* Slip: a fixup for each use of the slot.
FixupPerUse(name) == TRUE

\* One fixup per slot, not per use.
NeedsFixup(name) == name \notin local_got_emitted

UseLocalSlot ==
    \E ref \in Current :
        LET name == SymbolOf(ref).name IN
        /\ LoadOfOwnSymbol(ref) /\ ~Rewritable(RelocOf(ref))
        /\ Contains(local_got_names, name)
        /\ relrel' = IF NeedsFixup(name)
                     THEN Append(relrel, Relative(LocalSlot(name), AddressOf(ref)))
                     ELSE relrel
        /\ local_got_emitted' = local_got_emitted \union {name}
        /\ Patch(ref, LocalSlot(name))
        /\ UNCHANGED <<program, phase, marks, local_got_names, relaxed, warnings,
                       records, memory>>

\* Counted for the warning, and patched as if it were relaxed.
PatchUnrelaxable ==
    \E ref \in Current :
        /\ LoadOfOwnSymbol(ref) /\ ~Rewritable(RelocOf(ref))
        /\ ~Contains(local_got_names, SymbolOf(ref).name)
        /\ unrelaxable' = unrelaxable \union {ref}
        /\ Patch(ref, AddressOf(ref))
        /\ UNCHANGED <<program, phase, marks, slots, relaxed, relrel, skipped,
                       not_writable, records, memory>>

Pointer(ref) == <<"field", ref[1], ref[2]>>

PatchAbsolute ==
    \E ref \in Current :
        /\ Patchable(ref)
        /\ RelocOf(ref).r_type = "64"
        /\ relrel' = Append(relrel, Relative(Pointer(ref), AddressOf(ref)))
        /\ not_writable' = IF RegionOf(ref) # "DATA" THEN not_writable \union {ref}
                           ELSE not_writable
        /\ Patch(ref, AddressOf(ref))
        /\ UNCHANGED <<program, phase, marks, slots, relaxed, skipped, unrelaxable,
                       records, memory>>

\* Every other type falls through the two tests.
IgnoreType ==
    \E ref \in Current :
        /\ Patchable(ref)
        /\ RelocOf(ref).r_type \notin Patched
        /\ at' = at + 1
        /\ UNCHANGED <<program, phase, marks, slots, field, relaxed, relrel, warnings,
                       records, memory>>

-------------------------------------------------------------------------------
\* .rela.plt and .rela.dyn.  Slip: the place among the called imports.
SymbolRecordByBinding(type, target, n) ==
    [type |-> type, target |-> target, sym |-> PositionIn(bound, n)]

\* A symbol record carries the import's place in the
\* symbol table, which is its place among the imports.
SymbolRecord(type, target, n) ==
    [type |-> type, target |-> target, sym |-> PositionIn(imports, n)]

JumpSlots == [k \in DOMAIN bound |-> SymbolRecord("JUMP_SLOT", BoundSlot(bound[k]), bound[k])]
GlobDats ==
    [k \in DOMAIN gotdata |-> SymbolRecord("GLOB_DAT", GotdataSlot(gotdata[k]), gotdata[k])]

\* The eight pointers of the process parameters.
ParamRelatives == [k \in 1..8 |-> Relative(<<"param", k>>, <<"block", k>>)]

\* Slip: the pointers of the program come last.
PointersLast(params, pointers, symbols) == params \o symbols \o pointers

PointersFirst(params, pointers, symbols) == params \o pointers \o symbols

BuildRecords ==
    /\ NextPhase("patch", "load")
    /\ relaplt' = JumpSlots
    /\ reladyn' = PointersFirst(ParamRelatives, relrel, GlobDats)
    /\ relative_count' = 8 + Len(relrel)
    /\ UNCHANGED <<program, marks, slots, field, relaxed, relrel, warnings, memory>>

\* The loader: the first relative_count records of .rela.dyn take the fast
\* path, base plus addend, whatever they are; a symbol record has none.
Records == reladyn \o relaplt

Loaded(k) ==
    LET record == Records[k] IN
    IF k <= relative_count
    THEN IF record.type = "RELATIVE" THEN record.value ELSE <<"base">>
    ELSE IF record.type = "RELATIVE" THEN record.value ELSE <<"import", imports[record.sym]>>

LoadRecord ==
    /\ phase = "load" /\ at <= Len(Records)
    /\ memory' = [place \in DOMAIN memory \union {Records[at].target} |->
                    IF place = Records[at].target THEN Loaded(at) ELSE memory[place]]
    /\ at' = at + 1
    /\ UNCHANGED <<program, phase, marks, slots, field, relaxed, relrel, warnings,
                   records>>

EndLoad ==
    /\ phase = "load" /\ at > Len(Records)
    /\ phase' = "done"
    /\ UNCHANGED <<program, at, marks, slots, field, relaxed, relrel, warnings, records,
                   memory>>

Next ==
    \/ MarkImport \/ EndScan
    \/ CountLocalSlot \/ EndPrescan
    \/ PassUnstored \/ LeaveUnpatched \/ PatchCall \/ PatchImportLoad \/ Relax
    \/ UseLocalSlot \/ PatchUnrelaxable \/ PatchAbsolute \/ IgnoreType
    \/ BuildRecords \/ LoadRecord \/ EndLoad

Spec == Init /\ [][Next]_vars

-------------------------------------------------------------------------------
\* Marks, slots and records stay what the tables need: named symbols, slots
\* with a number, records that name no null symbol of the symbol table.
TypeOK ==
    /\ program \in Seq(Object)
    /\ phase \in {"scan", "prescan", "patch", "load", "done"}
    /\ at \in Nat \ {0}
    /\ import_called \union import_gotdata \subseteq Name
    /\ local_got_names \in Seq(Name) /\ local_got_emitted \subseteq Name
    /\ DOMAIN field = ToSet(References)
    /\ relaxed \union skipped \union unrelaxable \union not_writable
           \subseteq DOMAIN field
    /\ \A i \in DOMAIN Records :
           Records[i].type # "RELATIVE" => Records[i].sym \in DOMAIN imports
    /\ relative_count \in Nat

\* The symbols of a name that the link keeps, and the places of those that other
\* objects may see.
Bearers(name) ==
    {s \in ToSet(Symbols) :
        LET sym == SymbolAt(s) IN
        /\ sym.name = name /\ sym.type # "SECTION"
        /\ HasSection(s[1], sym) /\ program[s[1]].regions[sym.shndx] # "NONE"}

PlacesOf(symbols) == {Place(s[1], s[2]) : s \in symbols}

Visible(name) == PlacesOf({s \in Bearers(name) : SymbolAt(s).bind # "LOCAL"})

\* What a reference means: its own symbol, a definition of that name that other
\* objects may see, or, with none, the import.
Meaning(ref) ==
    LET sym == SymbolOf(ref) IN
    IF HasSection(ref[1], sym) /\ sym.bind = "LOCAL" THEN {Place(ref[1], RelocOf(ref).sym)}
    ELSE IF Visible(sym.name) # {} THEN Visible(sym.name)
    ELSE {<<"import", sym.name>>}

\* A static that is linked before every other symbol of its name.
Shadow(name) ==
    PlacesOf({s \in Bearers(name) : /\ name # NoName /\ SymbolAt(s).bind = "LOCAL"
                                    /\ \A t \in Bearers(name) : ~Earlier(t, s)})

ByName(ref) == ~HasSection(ref[1], SymbolOf(ref))
ThroughSlot(ref) == RelocOf(ref).r_type \in GotLoad /\ ref \notin relaxed

\* What the code gives it: the shadow takes the references by name, and a slot,
\* which goes by name too, may hold what another reference of the name was given.
Expected(ref) ==
    LET shadow == Shadow(SymbolOf(ref).name) IN
    IF shadow = {} \/ (~ByName(ref) /\ ~ThroughSlot(ref)) THEN Meaning(ref)
    ELSE IF ThroughSlot(ref) THEN Meaning(ref) \union shadow
    ELSE shadow

ValueAt(address) == IF address \in DOMAIN memory THEN memory[address] ELSE Nowhere

\* What the program finds there when it runs: a pointer as loaded, a stub's
\* target, the value in a slot, or the place the displacement names.
Found(ref) ==
    CASE RelocOf(ref).r_type = "64" -> ValueAt(Pointer(ref))
      [] RelocOf(ref).r_type \in Call ->
             IF field[ref][1] = "plt" THEN ValueAt(<<"got", field[ref][2]>>) ELSE field[ref]
      [] ref \in relaxed -> field[ref]
      [] OTHER -> ValueAt(field[ref])

Reported == skipped \union unrelaxable \union not_writable

\* Once loaded, every reference of a type the linker patches, in a section that
\* has bytes in the image, finds what it means, unless the link counted it in a
\* warning or a static linked before all else of its name takes its place
\* (dynwriter.c, pass 3, with the walks that number the slots and the records the
\* loader applies; dynwriter.c:533 and 590 do not ask who may see a symbol).
ReferencesReach ==
    phase = "done" =>
        \A ref \in DOMAIN field \ Reported :
            RelocOf(ref).r_type \in Patched /\ RegionOf(ref) \notin {"NONE", "BSS"}
                => Found(ref) \in Expected(ref)

\* No two records of the loader's tables write the same slot or field: the
\* stubs' slots, the imports' and the binary's own are three separate runs.
NoSlotFilledTwice ==
    \A i, j \in DOMAIN Records : Records[i].target = Records[j].target => i = j

\* DT_RELACOUNT: the records the loader applies without looking at a symbol
\* are the base-relative ones, all of them and no other.
RelativeRecordsLead ==
    \A i \in DOMAIN reladyn : i <= relative_count <=> reladyn[i].type = "RELATIVE"

\* The walk that counts slots and the walk that patches judge an instruction
\* alike: a named symbol used by one that cannot be rewritten has its slot.
EveryUseHasASlot ==
    \A ref \in unrelaxable : RegionOf(ref) = "CODE" => ~Named(SymbolOf(ref))

\* README.md:146: "`link_real` lists every symbol it cannot resolve and stops."
\* A link that goes through would leave no reference unresolved.
SuccessMeansResolved == phase = "done" => skipped = {}
===============================================================================
