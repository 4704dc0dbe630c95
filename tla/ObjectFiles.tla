----------------------------- MODULE ObjectFiles -----------------------------
(***************************************************************************)
(* elf_object.c: a relocatable object as the compiler wrote it, and what   *)
(* reading it leaves in memory, cut down to what the linker looks at: the  *)
(* symbol table with its reserved section indices, the section table and   *)
(* the relocations of all sections one behind the other.  A section index  *)
(* is the position of the section in the table; index 0 is the null        *)
(* section, so a sequence numbered from 1 gives every other section its    *)
(* own index.  Symbols are numbered from 1 and not from 0.                 *)
(***************************************************************************)
EXTENDS Naturals, SequencesExt

CONSTANTS
    Name,          \* symbol names that occur, all of them nonempty
    NoName         \* the empty string

ASSUME NoNameAssumption == NoName \notin Name

\* Section indices the ELF format reserves: neither is in a section table.
SHN_UNDEF == 0
SHN_ABS == 65521
SHN_COMMON == 65522

Bind == {"LOCAL", "GLOBAL", "WEAK"}
SymbolType == {"SECTION", "OTHER"}

Symbol == [name : Name \union {NoName}, bind : Bind, type : SymbolType,
           shndx : Nat]

\* Slip: the null symbol every table begins with counts as undefined.
UndefinedByIndexAlone(sym) == sym.shndx = SHN_UNDEF

\* Set once, while the object is read (elf_object.c): a name and no section.
is_undefined(sym) == sym.shndx = SHN_UNDEF /\ sym.name # NoName

\* elf_object_find_defined asks neither for the binding nor for a section
\* the link keeps: a static, an absolute and a COMMON symbol all answer.
FindsDefined(sym, name) ==
    /\ ~is_undefined(sym)
    /\ sym.shndx # SHN_UNDEF
    /\ sym.name = name

elf_object_find_defined(symbols, name) ==
    \E j \in DOMAIN symbols : FindsDefined(symbols[j], name)

\* objects is the sequence of the symbol tables, in command-line order.
is_defined_anywhere(objects, name) ==
    \E i \in DOMAIN objects : elf_object_find_defined(objects[i], name)

-------------------------------------------------------------------------------
\* region is what dynwriter.c makes of a section (SectionMerge), "NONE" for one
\* that is not in the image; op the instruction a relocated field belongs to,
\* as its opcode shows it.  A field with no room for an opcode in front of it, or
\* that overruns its section, is left out: no instruction has one.
Region == {"CODE", "RODATA", "DATA", "BSS", "NONE"}
RelocType == {"64", "PC32", "PLT32", "GOTPCREL", "GOTPCRELX", "REX_GOTPCRELX", "32S"}
Opcode == {"mov", "call", "jmp", "other"}

Reloc == [sym : Nat \ {0}, r_type : RelocType, target_section : Nat \ {0}, op : Opcode]

Object == [symbols : Seq(Symbol), regions : Seq(Region), relocs : Seq(Reloc)]

\* A file: what a section holds depends on its type.
RawSymbol == [st_name : Name \union {NoName}, st_bind : 0..15, st_type : 0..15,
              st_shndx : Nat]
RawRela == [r_sym : Nat, r_type : RelocType, op : Opcode]

RawSection(type, entries) ==
    [sh_type : {type}, region : Region, sh_info : Nat, entries : entries]

File == Seq(RawSection("SYMTAB", Seq(RawSymbol)) \union RawSection("RELA", Seq(RawRela))
            \union RawSection("OTHER", {<<>>}))

BindOf(st_bind) ==
    CASE st_bind = 0 -> "LOCAL" [] st_bind = 2 -> "WEAK" [] OTHER -> "GLOBAL"

ReadSymbol(raw) ==
    [name |-> raw.st_name, bind |-> BindOf(raw.st_bind),
     type |-> IF raw.st_type = 3 THEN "SECTION" ELSE "OTHER", shndx |-> raw.st_shndx]

\* The last symbol table, if there are several; none, and there are no symbols.
ReadSymbols(file) ==
    LET symtab == SelectLastInSeq(file, LAMBDA s : s.sh_type = "SYMTAB") IN
    IF symtab = 0 THEN <<>>
    ELSE [j \in DOMAIN file[symtab].entries |-> ReadSymbol(file[symtab].entries[j])]

ReadReloc(raw, section) ==
    [sym |-> raw.r_sym + 1, r_type |-> raw.r_type, target_section |-> section.sh_info,
     op |-> raw.op]

\* A section of type REL is reported and left out.
ReadRelocs(file) ==
    FlattenSeq([i \in DOMAIN file |->
        IF file[i].sh_type # "RELA" THEN <<>>
        ELSE [j \in DOMAIN file[i].entries |-> ReadReloc(file[i].entries[j], file[i])]])

elf_object_read(file) ==
    [symbols |-> ReadSymbols(file), regions |-> [i \in DOMAIN file |-> file[i].region],
     relocs |-> ReadRelocs(file)]

==============================================================================
