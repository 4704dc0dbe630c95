------------------------------ MODULE ImageLayout ------------------------------
(***************************************************************************)
(* dynwriter.c, from the PLT to the last fwrite: five loadable segments    *)
(* are given file offsets and addresses, the tables of the loader and the  *)
(* records of the file's tail are placed, and everything is written, in an *)
(* order that is not the order of the file.                                *)
(***************************************************************************)
EXTENDS Align, Sequences

CONSTANTS
    SCE_SEG_ALIGN,         \* the page the loader maps by
    Inputs                 \* what the earlier passes hand over

\* Sizes are in bytes, counts in entries.
Input == [code : Nat, rodata : Nat,        \* merged bytes, before the PLT
          data : Nat \ {0}, memsz : Nat,   \* writable bytes, and with .bss
          imports : Nat,                   \* imported symbols,
          bound : Nat, gotdata : Nat,      \* ... called, ... loaded from the GOT
          local : Nat,                     \* own symbols read through the GOT
          pointers : Nat,                  \* base-relative records of pass 3
          mods : Nat, libs : Nat,
          dynstr : Nat \ {0},
          comment : Nat, version : Nat]    \* the blobs of the tail

ASSUME PageAssumption == SCE_SEG_ALIGN \in Nat \ {0}
ASSUME InputAssumption == \A i \in Inputs : i \in Input /\ i.data <= i.memsz

VARIABLES
    input,         \* never changes
    phase,         \* "plt", "regions", "tables", "tail", "write"
    code_len, plt_stubs_offset, rodata_len, got_size,
    seg,           \* file offset and address of each segment
    table,         \* file offset of each table of the dynlink segment
    tail,          \* file offset of each record of the tail
    written        \* how many pieces the file holds

vars == <<input, phase, code_len, plt_stubs_offset, rodata_len, got_size,
          seg, table, tail, written>>

Place == [offset : Nat, vaddr : Nat]
Segment == {"code", "rodata", "got", "rw", "dynlink"}

-------------------------------------------------------------------------------
\* sizeof: the ELF header, fourteen program headers, ten section headers, and
\* the names of the sections; a symbol, a rela record.
EHDR == 64
PHDRS == 14 * 56
SHDRS == 10 * 64
SHSTRTAB == 81
NOTE_GNU == 36
TAIL_NOTE == 24
EH_FRAME_HDR == 4
GOT_HEADER == 24

PageUp(v) == align_up(v, SCE_SEG_ALIGN)

Nowhere == [offset |-> 0, vaddr |-> 0]

Init ==
    /\ input \in Inputs
    /\ phase = "plt"
    /\ code_len = input.code /\ plt_stubs_offset = 0
    /\ rodata_len = input.rodata /\ got_size = 0
    /\ seg = [code |-> Nowhere, rodata |-> Nowhere, got |-> Nowhere, rw |-> Nowhere,
              dynlink |-> Nowhere]
    /\ table = [dynstr |-> 0, dynsym |-> 0, relaplt |-> 0, reladyn |-> 0, hash |-> 0,
                note_gnu |-> 0, dynamic |-> 0]
    /\ tail = [comment |-> 0, version |-> 0, tail_note |-> 0, eh_frame_hdr |-> 0,
               shstrtab |-> 0, shdrs |-> 0]
    /\ written = 0

\* Slip: the slots of the binary's own symbols are not counted.
GotOfImports(i) == GOT_HEADER + i.bound * 8 + i.gotdata * 8

GotSize(i) == GOT_HEADER + i.bound * 8 + i.gotdata * 8 + i.local * 8

\* A reserved PLT header and a stub per called import behind the code.
AppendPlt ==
    /\ phase = "plt"
    /\ plt_stubs_offset' = align_up(code_len, 16) + 16
    /\ code_len' = plt_stubs_offset' + input.bound * 16
    /\ got_size' = GotSize(input)
    /\ phase' = "regions"
    /\ UNCHANGED <<input, rodata_len, seg, table, tail, written>>

\* Slip: an empty region stays empty.
KeepEmpty(n) == n

\* A segment that maps nothing is refused, so it gets eight bytes.
AtLeastEight(n) == IF n = 0 THEN 8 ELSE n

\* Slip: the tables follow the bytes written, not the memory mapped.
DynlinkAfterBytes(rw) == PageUp(rw + input.data)

\* Slip: the tables' segment is packed, as the reference linker does.
DynlinkPacked(rw) == align_up(rw + input.memsz, 16)

DynlinkAddress(rw) == PageUp(rw + input.memsz)

\* Slip: room for the header and the called imports only.
Seg2AfterBound(got_off) == PageUp(got_off + GOT_HEADER + input.bound * 8)

Seg2Offset(got_off) == PageUp(got_off + got_size)

\* File offsets and addresses are two spaces; in the file the tables come
\* before the writable bytes, in memory behind them.
LayOutRegions ==
    /\ phase = "regions"
    /\ rodata_len' = AtLeastEight(rodata_len)
    /\ LET seg1_off == PageUp(EHDR + PHDRS)
           rodata_off == PageUp(seg1_off + code_len)
           rodata_vaddr == PageUp(code_len)
           got_off == PageUp(rodata_off + rodata_len')
           got_vaddr == PageUp(rodata_vaddr + rodata_len')
           seg2_off == Seg2Offset(got_off)
           rw_vaddr == PageUp(got_vaddr + got_size)
           dynlink_vaddr == DynlinkAddress(rw_vaddr) IN
       seg' = [code    |-> [offset |-> seg1_off,   vaddr |-> 0],
               rodata  |-> [offset |-> rodata_off, vaddr |-> rodata_vaddr],
               got     |-> [offset |-> got_off,    vaddr |-> got_vaddr],
               rw      |-> [offset |-> 0,          vaddr |-> rw_vaddr],
               dynlink |-> [offset |-> seg2_off,   vaddr |-> dynlink_vaddr]]
    /\ phase' = "tables"
    /\ UNCHANGED <<input, code_len, plt_stubs_offset, got_size, table, tail, written>>

-------------------------------------------------------------------------------
\* The tables the loader reads, with the sizes the code gives them.
TableSize ==
    [dynstr |-> input.dynstr,
     dynsym |-> 24 * (1 + input.imports),
     relaplt |-> 24 * input.bound,
     reladyn |-> 24 * (8 + input.pointers + input.gotdata),
     hash |-> 4 * (2 + 2 * (1 + input.imports)),
     note_gnu |-> NOTE_GNU,
     dynamic |-> 16 * (2 * input.mods + 2 * input.libs + 24
                       + IF input.bound > 0 THEN 4 ELSE 0)]

\* Slip: the note is forgotten between the hash and the dynamic table.
DynamicAfterHash(hash, note) == align_up(hash + TableSize.hash, 8)

DynamicAfterNote(hash, note) == align_up(note + NOTE_GNU, 8)

\* The order is the one the loader expects: it checks the tables by it.
LayOutTables ==
    /\ phase = "tables"
    /\ LET dynstr == seg.dynlink.offset
           dynsym == align_up(dynstr + TableSize.dynstr, 8)
           relaplt == align_up(dynsym + TableSize.dynsym, 8)
           reladyn == align_up(relaplt + TableSize.relaplt, 8)
           hash == align_up(reladyn + TableSize.reladyn, 8)
           note_gnu == align_up(hash + TableSize.hash, 4)
           dynamic == DynamicAfterNote(hash, note_gnu) IN
       /\ table' = [dynstr |-> dynstr, dynsym |-> dynsym, relaplt |-> relaplt,
                    reladyn |-> reladyn, hash |-> hash, note_gnu |-> note_gnu,
                    dynamic |-> dynamic]
       /\ seg' = [seg EXCEPT !.rw.offset = PageUp(dynamic + TableSize.dynamic)]
    /\ phase' = "tail"
    /\ UNCHANGED <<input, code_len, plt_stubs_offset, rodata_len, got_size, tail, written>>

TailSize ==
    [comment |-> input.comment, version |-> input.version, tail_note |-> TAIL_NOTE,
     eh_frame_hdr |-> EH_FRAME_HDR, shstrtab |-> SHSTRTAB, shdrs |-> SHDRS]

\* The tail is laid out behind the GOT, in what its last page leaves.
LayOutTail ==
    /\ phase = "tail"
    /\ LET comment == align_up(seg.got.offset + got_size, 16)
           version == align_up(comment + TailSize.comment, 8)
           tail_note == align_up(version + TailSize.version, 8)
           eh_frame_hdr == align_up(tail_note + TAIL_NOTE, 4)
           shstrtab == align_up(eh_frame_hdr + EH_FRAME_HDR, 8)
           shdrs == align_up(shstrtab + SHSTRTAB, 8) IN
       tail' = [comment |-> comment, version |-> version, tail_note |-> tail_note,
                eh_frame_hdr |-> eh_frame_hdr, shstrtab |-> shstrtab, shdrs |-> shdrs]
    /\ phase' = "write"
    /\ UNCHANGED <<input, code_len, plt_stubs_offset, rodata_len, got_size, seg, table, written>>

-------------------------------------------------------------------------------
FileSize ==
    [code |-> code_len, rodata |-> rodata_len, got |-> got_size, rw |-> input.data,
     dynlink |-> table.dynamic + TableSize.dynamic - seg.dynlink.offset]

MemSize(s) == IF s = "rw" THEN input.memsz ELSE FileSize[s]

Piece(name, offset, size) == [name |-> name, offset |-> offset, size |-> size]

SegmentPiece(s) == Piece(s, seg[s].offset, FileSize[s])
TablePiece(t) == Piece(t, table[t], TableSize[t])
TailPiece(t) == Piece(t, tail[t], TailSize[t])

\* The writes, in program order; the zero byte put last lands on the last byte
\* of the section headers, which is zero already.
Writes ==
    <<Piece("ehdr", 0, EHDR), Piece("phdrs", EHDR, PHDRS),
      SegmentPiece("code"), SegmentPiece("rodata"),
      TablePiece("dynsym"), TablePiece("dynstr"), TablePiece("relaplt"),
      TablePiece("reladyn"), TablePiece("hash"), TablePiece("dynamic"),
      SegmentPiece("rw"), SegmentPiece("got"),
      TailPiece("comment"), TailPiece("version"), TablePiece("note_gnu"),
      TailPiece("tail_note"), TailPiece("eh_frame_hdr"),
      TailPiece("shstrtab"), TailPiece("shdrs")>>

WritePiece ==
    /\ phase = "write"
    /\ written < Len(Writes)
    /\ written' = written + 1
    /\ UNCHANGED <<input, phase, code_len, plt_stubs_offset, rodata_len, got_size,
                   seg, table, tail>>

Next == AppendPlt \/ LayOutRegions \/ LayOutTables \/ LayOutTail \/ WritePiece

Spec == Init /\ [][Next]_vars

-------------------------------------------------------------------------------
\* The type invariant: every region, table and record has a place.
TypeOK ==
    /\ input \in Inputs
    /\ phase \in {"plt", "regions", "tables", "tail", "write"}
    /\ code_len \in Nat /\ plt_stubs_offset \in Nat /\ rodata_len \in Nat /\ got_size \in Nat
    /\ seg \in [code : Place, rodata : Place, got : Place, rw : Place, dynlink : Place]
    /\ table \in [dynstr : Nat, dynsym : Nat, relaplt : Nat, reladyn : Nat, hash : Nat,
                  note_gnu : Nat, dynamic : Nat]
    /\ tail \in [comment : Nat, version : Nat, tail_note : Nat, eh_frame_hdr : Nat,
                 shstrtab : Nat, shdrs : Nat]
    /\ written \in 0..19

Placed == phase \in {"tail", "write"}

\* Each segment has its own protection (the code may not even be read), and
\* the loader protects whole pages: no page of memory may serve two segments.
SegmentsShareNoPage ==
    Placed => \A a, b \in Segment :
        a # b => \/ PageUp(seg[a].vaddr + MemSize(a)) <= seg[b].vaddr
                 \/ PageUp(seg[b].vaddr + MemSize(b)) <= seg[a].vaddr

\* ELF asks that p_vaddr equal p_offset modulo p_align (a comment in
\* dynwriter.c tells why the tables are not packed like the reference's).
OffsetsMatchAddresses ==
    Placed => \A s \in Segment :
        seg[s].offset % SCE_SEG_ALIGN = seg[s].vaddr % SCE_SEG_ALIGN

\* A segment "mapped but storing nothing" is refused when the module is
\* signed, and one that stores more than it maps is malformed.
SegmentsStoreSomething ==
    Placed => \A s \in Segment : 0 < FileSize[s] /\ FileSize[s] <= MemSize(s)

\* The slots the stubs jump through, those the loader fills for loads, and
\* those of the binary's own symbols: the addresses handed out for them.
got_addr == seg.got.vaddr + GOT_HEADER
gotdata_addr == got_addr + input.bound * 8
local_got_addr == gotdata_addr + input.gotdata * 8

\* Every slot handed out lies in the writable GOT, behind its header; a slot
\* past its end would be a fixup into the page of the data.
GotHoldsEverySlot ==
    Placed => local_got_addr + input.local * 8 <= seg.got.vaddr + FileSize.got

\* The loader computes bounds from the tables' order: each starts behind the
\* one before it, the note included, and all lie inside the dynlink segment,
\* in front of the writable bytes.
TablesFollowOneAnother ==
    Placed =>
        LET order == <<"dynstr", "dynsym", "relaplt", "reladyn", "hash",
                       "note_gnu", "dynamic">>
            End(i) == table[order[i]] + TableSize[order[i]] IN
        /\ table.dynstr = seg.dynlink.offset
        /\ \A i \in 1..6 : End(i) <= table[order[i + 1]]
        /\ End(7) <= seg.rw.offset

Overlap(p, q) == /\ p.offset < q.offset + q.size
                 /\ q.offset < p.offset + p.size

TailPieces == {"comment", "version", "tail_note", "eh_frame_hdr", "shstrtab", "shdrs"}

\* What the last page of the GOT leaves is enough for the tail.
TailFits == tail.shdrs + SHDRS <= seg.dynlink.offset

\* No write destroys what another one wrote, except that a tail which does not
\* fit runs into what follows it.
WritesKeepWhatIsWritten ==
    phase = "write" =>
        \A i, j \in 1..written :
            i < j /\ Overlap(Writes[i], Writes[j])
                => ~TailFits /\ {Writes[i].name, Writes[j].name} \intersect TailPieces # {}

\* A comment on the tail: "outside every segment the container stores".
TailOutsideSegments ==
    phase = "write" =>
        \A i \in 1..written : Writes[i].name \in TailPieces =>
            \A s \in Segment : ~Overlap(Writes[i], SegmentPiece(s))

\* ------------------------------------------------- the inductive invariant
PltAppended ==
    phase # "plt" => got_size = GotSize(input) /\ code_len > 0

\* Each region starts on the page behind the one before it, in the file and in
\* memory, where the writable bytes and the tables change places.
RegionsPlaced ==
    phase \in {"tables", "tail", "write"} =>
        /\ rodata_len > 0
        /\ seg.code.offset = PageUp(EHDR + PHDRS)
        /\ seg.rodata.offset = PageUp(seg.code.offset + code_len)
        /\ seg.got.offset = PageUp(seg.rodata.offset + rodata_len)
        /\ seg.dynlink.offset = PageUp(seg.got.offset + got_size)
        /\ seg.code.vaddr = 0
        /\ seg.rodata.vaddr = PageUp(code_len)
        /\ seg.got.vaddr = PageUp(seg.rodata.vaddr + rodata_len)
        /\ seg.rw.vaddr = PageUp(seg.got.vaddr + got_size)
        /\ seg.dynlink.vaddr = PageUp(seg.rw.vaddr + input.memsz)

TablesPlaced ==
    Placed =>
        /\ table.dynstr = seg.dynlink.offset
        /\ table.dynstr + TableSize.dynstr <= table.dynsym
        /\ table.dynsym + TableSize.dynsym <= table.relaplt
        /\ table.relaplt + TableSize.relaplt <= table.reladyn
        /\ table.reladyn + TableSize.reladyn <= table.hash
        /\ table.hash + TableSize.hash <= table.note_gnu
        /\ table.note_gnu + TableSize.note_gnu <= table.dynamic
        /\ seg.rw.offset = PageUp(table.dynamic + TableSize.dynamic)

TailPlaced ==
    phase = "write" =>
        /\ seg.got.offset + got_size <= tail.comment
        /\ tail.comment + TailSize.comment <= tail.version
        /\ tail.version + TailSize.version <= tail.tail_note
        /\ tail.tail_note + TAIL_NOTE <= tail.eh_frame_hdr
        /\ tail.eh_frame_hdr + EH_FRAME_HDR <= tail.shstrtab
        /\ tail.shstrtab + SHSTRTAB <= tail.shdrs

ImageInv == TypeOK /\ PltAppended /\ RegionsPlaced /\ TablesPlaced /\ TailPlaced

===============================================================================
