------------------------------ MODULE MCRelocate ------------------------------
(***************************************************************************)
(* Two objects.  The first is linked with every sequence of up to two of   *)
(* the references a compiler writes; the second refers back to it.  And    *)
(* two or three that have one name: a static, its owner and a user of it.  *)
(***************************************************************************)
EXTENDS Relocate

MCName == {"main", "table", "static", "helper", "usleep", "open", "buffer", "shade"}

Raw(n, b, t, s) == [st_name |-> n, st_bind |-> b, st_type |-> t, st_shndx |-> s]
Bound == [LOCAL |-> 0, GLOBAL |-> 1, WEAK |-> 2]
Sym(n, b, t, s) == Raw(n, Bound[b], IF t = "SECTION" THEN 3 ELSE 2, s)
Undef(n) == Raw(n, 1, 0, SHN_UNDEF)
NullSymbol == Raw(NoName, 0, 0, SHN_UNDEF)

\* Sections of both objects: .text, .rodata, .data, .eh_frame, which is dropped,
\* the relocations of each, and the symbol table.
MCRegions == <<"CODE", "RODATA", "DATA", "NONE">>

Section(type, region, info, entries) ==
    [sh_type |-> type, region |-> region, sh_info |-> info, entries |-> entries]

MCFile(symbols, relocs) ==
    [k \in 1..4 |-> Section("OTHER", MCRegions[k], 0, <<>>)]
    \o [k \in 1..4 |-> LET here == SelectSeq(relocs, LAMBDA r : r.section = k) IN
            Section("RELA", "NONE", k,
                [j \in DOMAIN here |-> [r_sym |-> here[j].sym - 1,
                                        r_type |-> here[j].r_type, op |-> here[j].op]])]
    \o <<Section("SYMTAB", "NONE", 0, symbols)>>

First == << NullSymbol, Sym("static", "LOCAL", "OTHER", 1), Sym(NoName, "LOCAL", "SECTION", 2),
            Sym("main", "GLOBAL", "OTHER", 1), Sym("table", "GLOBAL", "OTHER", 3),
            Undef("helper"), Undef("usleep"), Undef("open"), Undef("buffer") >>

\* The second defines helper; buffer is a common symbol of it.
Second == << NullSymbol, Sym("static", "LOCAL", "OTHER", 3),
             Sym("helper", "WEAK", "OTHER", 1), Undef("table"), Undef("usleep"),
             Sym("buffer", "GLOBAL", "OTHER", SHN_COMMON) >>

R(j, t, s, o) == [sym |-> j, r_type |-> t, section |-> s, op |-> o]

\* A static and a section symbol are reached directly, never through the GOT.
Calls == {R(j, "PLT32", 1, "other") : j \in {2, 6, 7, 8, 9}} \union {R(3, "PC32", 1, "other")}
Loads == {R(j, "REX_GOTPCRELX", 1, o) : j \in {5, 6, 7}, o \in {"mov", "other"}}
             \union {R(6, "GOTPCRELX", 1, "call"), R(8, "GOTPCRELX", 1, "jmp")}
             \union {R(j, "GOTPCREL", 1, "mov") : j \in {5, 6, 8}}
\* A 32-bit absolute address, as code built without -fPIC writes it.
Absolute32 == {R(5, "32S", 1, "mov")}
\* Words of data, one of them relative to a GOT slot; unwind data.
Words == {R(j, "64", 3, "other") : j \in {2, 3, 4, 6, 7}} \union {R(4, "64", 2, "other")}
             \union {R(5, "GOTPCREL", 2, "other"), R(2, "PC32", 4, "other")}

MCRelocs == Calls \union Loads \union Words \union Absolute32

SecondRelocs ==
    { <<>>,
      <<R(5, "REX_GOTPCRELX", 1, "other"), R(4, "REX_GOTPCRELX", 1, "other"), R(2, "64", 3, "other")>>,
      <<R(3, "GOTPCREL", 1, "mov"), R(5, "PLT32", 1, "other"), R(6, "PC32", 1, "other")>> }

TwoObjects ==
    { <<MCFile(First, a), MCFile(Second, b)>> :
      a \in UNION {[1..n -> MCRelocs] : n \in 0..2}, b \in SecondRelocs }

\* Each refers to the name it has, the static's object directly; a static may be
\* in a dropped section.
Shade(bind, section) == <<NullSymbol, Sym("shade", bind, "OTHER", section)>>
UserOfShade == <<NullSymbol, Undef("shade")>>

Direct == {<<>>, <<R(2, "PLT32", 1, "other")>>}
Wanted == {<<>>} \union {<<r>> : r \in {R(2, "PLT32", 1, "other"), R(2, "64", 3, "other"),
                                     R(2, "REX_GOTPCRELX", 1, "mov"), R(2, "GOTPCREL", 1, "mov")}}

Statics == {MCFile(Shade("LOCAL", s), r) : s \in {1, 4}, r \in Direct}
Owners == {MCFile(Shade("GLOBAL", 1), r) : r \in Wanted}
Users == {MCFile(UserOfShade, r) : r \in Wanted \ {<<>>}}

OneName ==
    (Statics \X Users) \union (Users \X Statics)
    \union (Statics \X Users \X Owners) \union (Statics \X Owners \X Users)
    \union (Users \X Statics \X Owners) \union (Owners \X Statics \X Users)

MCProgram == TwoObjects \union OneName
===============================================================================
