--------------------------- MODULE ImageLayoutProofs ---------------------------
(***************************************************************************)
(* The image layout is correct for every input the earlier passes may hand *)
(* over and every page size that is a multiple of sixteen.                 *)
(***************************************************************************)
EXTENDS ImageLayout, TLAPS

\* What the inputs are, field by field.
LEMMA InputFields ==
    ASSUME input \in Inputs
    PROVE  /\ input.code \in Nat /\ input.rodata \in Nat
           /\ input.data \in Nat \ {0} /\ input.memsz \in Nat /\ input.data <= input.memsz
           /\ input.imports \in Nat /\ input.bound \in Nat /\ input.gotdata \in Nat
           /\ input.local \in Nat /\ input.pointers \in Nat
           /\ input.mods \in Nat /\ input.libs \in Nat /\ input.dynstr \in Nat \ {0}
           /\ input.comment \in Nat /\ input.version \in Nat
<1>1. input \in Input /\ input.data <= input.memsz
  BY InputAssumption
<1> QED
  BY <1>1 DEF Input

\* align_up rounds up to a multiple (common_buf.h, align_up).
LEMMA AlignUpIs ==
    ASSUME NEW v \in Nat, NEW a \in Nat \ {0}
    PROVE  /\ align_up(v, a) \in Nat /\ align_up(v, a) >= v
           /\ align_up(v, a) % a = 0
<1>1. CASE a = 1
  BY <1>1 DEF align_up
<1>2. CASE a > 1
  <2> DEFINE x == v + a - 1
             q == x \div a
  <2>1. x \in Nat
    BY <1>2
  <2>2. q \in Nat /\ x % a \in 0..(a - 1) /\ x = q * a + (x % a)
    BY <1>2, <2>1
  <2>3. align_up(v, a) = q * a
    BY <1>2 DEF align_up
  <2>4. q * a \in Nat /\ (q * a) % a = 0
    BY <2>2
  <2> QED
    BY <1>2, <2>2, <2>3, <2>4
<1> QED
  BY <1>1, <1>2

\* Rounding up to the page: not below, a multiple, and no less than a page for
\* what is not empty.
LEMMA PageUpFacts ==
    ASSUME NEW v \in Nat
    PROVE  /\ PageUp(v) \in Nat
           /\ PageUp(v) >= v
           /\ PageUp(v) % SCE_SEG_ALIGN = 0
<1>1. SCE_SEG_ALIGN \in Nat \ {0}
  BY PageAssumption
<1> QED
  BY <1>1, AlignUpIs DEF PageUp

LEMMA AlignUpNat ==
    ASSUME NEW v \in Nat, NEW a \in {4, 8, 16}
    PROVE  align_up(v, a) \in Nat /\ align_up(v, a) >= v
<1>1. a \in Nat \ {0}
  OBVIOUS
<1> QED
  BY <1>1, AlignUpIs

LEMMA TableSizes ==
    ASSUME input \in Inputs
    PROVE  /\ TableSize.dynstr \in Nat /\ TableSize.dynsym \in Nat
           /\ TableSize.relaplt \in Nat /\ TableSize.reladyn \in Nat
           /\ TableSize.hash \in Nat /\ TableSize.note_gnu = NOTE_GNU
           /\ TableSize.dynamic \in Nat \ {0}
<1> USE InputFields
<1>1. TableSize.dynstr \in Nat
  BY DEF TableSize
<1>2. TableSize.dynsym \in Nat
  BY DEF TableSize
<1>3. TableSize.relaplt \in Nat
  BY DEF TableSize
<1>4. TableSize.reladyn \in Nat
  BY DEF TableSize
<1>5. TableSize.hash \in Nat
  BY DEF TableSize
<1>6. TableSize.note_gnu = NOTE_GNU
  BY DEF TableSize
<1>7. TableSize.dynamic \in Nat \ {0}
  BY DEF TableSize
<1> QED
  BY <1>1, <1>2, <1>3, <1>4, <1>5, <1>6, <1>7

-------------------------------------------------------------------------------
LEMMA InitImage == Init => ImageInv
<1> SUFFICES ASSUME Init PROVE ImageInv
  OBVIOUS
<1>1. TypeOK
  BY InputFields DEF Init, TypeOK, Nowhere, Place
<1>2. phase = "plt"
  BY DEF Init
<1> QED
  BY <1>1, <1>2 DEF ImageInv, PltAppended, RegionsPlaced, TablesPlaced, TailPlaced, Placed

LEMMA PltKeepsImage ==
    ASSUME ImageInv, AppendPlt PROVE ImageInv'
<1>1. input \in Inputs /\ code_len \in Nat /\ TypeOK
  BY DEF ImageInv, TypeOK
<1>2. input.bound \in Nat /\ input.gotdata \in Nat /\ input.local \in Nat
  BY <1>1, InputFields
<1>3. align_up(code_len, 16) \in Nat
  BY <1>1, AlignUpNat
<1>4. /\ plt_stubs_offset' \in Nat /\ plt_stubs_offset' > 0
      /\ code_len' \in Nat /\ code_len' > 0
  BY <1>2, <1>3 DEF AppendPlt
<1>5. got_size' = GotSize(input) /\ got_size' \in Nat
  BY <1>2 DEF AppendPlt, GotSize, GOT_HEADER
<1>6. TypeOK'
  BY <1>1, <1>4, <1>5 DEF AppendPlt, TypeOK
<1>7. input' = input /\ phase' = "regions"
  BY DEF AppendPlt
<1>8. PltAppended'
  BY <1>4, <1>5, <1>7 DEF PltAppended, GotSize
<1> QED
  BY <1>6, <1>7, <1>8 DEF ImageInv, RegionsPlaced, TablesPlaced, TailPlaced, Placed

LEMMA RegionsKeepImage ==
    ASSUME ImageInv, LayOutRegions PROVE ImageInv'
<1>1. /\ TypeOK /\ input \in Inputs /\ code_len \in Nat /\ rodata_len \in Nat
      /\ got_size \in Nat /\ phase = "regions" /\ phase' = "tables"
      /\ UNCHANGED <<input, code_len, plt_stubs_offset, got_size, table, tail, written>>
  BY DEF ImageInv, TypeOK, LayOutRegions
<1>2. input.memsz \in Nat
  BY <1>1, InputFields
<1>3. rodata_len' \in Nat /\ rodata_len' > 0
  BY <1>1 DEF LayOutRegions, AtLeastEight
<1> DEFINE seg1_off == PageUp(EHDR + PHDRS)
           rodata_off == PageUp(seg1_off + code_len)
           rodata_vaddr == PageUp(code_len)
           got_off == PageUp(rodata_off + rodata_len')
           got_vaddr == PageUp(rodata_vaddr + rodata_len')
           seg2_off == PageUp(got_off + got_size)
           rw_vaddr == PageUp(got_vaddr + got_size)
           dynlink_vaddr == PageUp(rw_vaddr + input.memsz)
<1>4. seg' = [code    |-> [offset |-> seg1_off,   vaddr |-> 0],
              rodata  |-> [offset |-> rodata_off, vaddr |-> rodata_vaddr],
              got     |-> [offset |-> got_off,    vaddr |-> got_vaddr],
              rw      |-> [offset |-> 0,          vaddr |-> rw_vaddr],
              dynlink |-> [offset |-> seg2_off,   vaddr |-> dynlink_vaddr]]
  BY DEF LayOutRegions, Seg2Offset, DynlinkAddress
<1>5. seg1_off \in Nat
  BY PageUpFacts DEF EHDR, PHDRS
<1>6. rodata_off \in Nat
  BY <1>1, <1>5, PageUpFacts
<1>7. rodata_vaddr \in Nat
  BY <1>1, PageUpFacts
<1>8. got_off \in Nat
  BY <1>3, <1>6, PageUpFacts
<1>9. got_vaddr \in Nat
  BY <1>3, <1>7, PageUpFacts
<1>10. seg2_off \in Nat
  BY <1>1, <1>8, PageUpFacts
<1>11. rw_vaddr \in Nat
  BY <1>1, <1>9, PageUpFacts
<1>12. dynlink_vaddr \in Nat
  BY <1>2, <1>11, PageUpFacts
<1>13. RegionsPlaced'
  <2>1. /\ seg'.code.offset = seg1_off /\ seg'.rodata.offset = rodata_off
        /\ seg'.got.offset = got_off /\ seg'.dynlink.offset = seg2_off
        /\ seg'.code.vaddr = 0 /\ seg'.rodata.vaddr = rodata_vaddr
        /\ seg'.got.vaddr = got_vaddr /\ seg'.rw.vaddr = rw_vaddr
        /\ seg'.dynlink.vaddr = dynlink_vaddr
    BY <1>4
  <2> QED
    BY <1>1, <1>3, <2>1 DEF RegionsPlaced, PageUp
<1>14. TypeOK'
  <2> HIDE DEF seg1_off, rodata_off, rodata_vaddr, got_off, got_vaddr, seg2_off,
               rw_vaddr, dynlink_vaddr
  <2>1. seg' \in [code : Place, rodata : Place, got : Place, rw : Place, dynlink : Place]
    BY <1>4, <1>5, <1>6, <1>7, <1>8, <1>9, <1>10, <1>11, <1>12 DEF Place
  <2> QED
    BY <1>1, <1>3, <2>1 DEF TypeOK
<1>15. PltAppended'
  BY <1>1 DEF ImageInv, PltAppended, GotSize
<1>16. TablesPlaced' /\ TailPlaced'
  BY <1>1 DEF TablesPlaced, TailPlaced, Placed
<1> QED
  BY <1>13, <1>14, <1>15, <1>16 DEF ImageInv

LEMMA TablesKeepImage ==
    ASSUME ImageInv, LayOutTables PROVE ImageInv'
<1>1. /\ TypeOK /\ input \in Inputs /\ phase = "tables" /\ phase' = "tail"
      /\ UNCHANGED <<input, code_len, plt_stubs_offset, rodata_len, got_size, tail, written>>
  BY DEF ImageInv, TypeOK, LayOutTables
<1>2. TableSize' = TableSize
  BY <1>1 DEF TableSize
<1> DEFINE dynstr == seg.dynlink.offset
           dynsym == align_up(dynstr + TableSize.dynstr, 8)
           relaplt == align_up(dynsym + TableSize.dynsym, 8)
           reladyn == align_up(relaplt + TableSize.relaplt, 8)
           hash == align_up(reladyn + TableSize.reladyn, 8)
           note_gnu == align_up(hash + TableSize.hash, 4)
           dynamic == align_up(note_gnu + NOTE_GNU, 8)
           rw_off == PageUp(dynamic + TableSize.dynamic)
<1>3. /\ table' = [dynstr |-> dynstr, dynsym |-> dynsym, relaplt |-> relaplt,
                   reladyn |-> reladyn, hash |-> hash, note_gnu |-> note_gnu,
                   dynamic |-> dynamic]
      /\ seg' = [seg EXCEPT !.rw.offset = rw_off]
  BY DEF LayOutTables, DynamicAfterNote
<1>4. dynstr \in Nat
  BY <1>1 DEF TypeOK, Place
<1>5. dynsym \in Nat /\ dynsym >= dynstr + TableSize.dynstr
  BY <1>1, <1>4, TableSizes, AlignUpNat
<1>6. relaplt \in Nat /\ relaplt >= dynsym + TableSize.dynsym
  BY <1>1, <1>5, TableSizes, AlignUpNat
<1>7. reladyn \in Nat /\ reladyn >= relaplt + TableSize.relaplt
  BY <1>1, <1>6, TableSizes, AlignUpNat
<1>8. hash \in Nat /\ hash >= reladyn + TableSize.reladyn
  BY <1>1, <1>7, TableSizes, AlignUpNat
<1>9. note_gnu \in Nat /\ note_gnu >= hash + TableSize.hash
  BY <1>1, <1>8, TableSizes, AlignUpNat
<1>10. dynamic \in Nat /\ dynamic >= note_gnu + NOTE_GNU
  <2>1. note_gnu + NOTE_GNU \in Nat
    BY <1>9 DEF NOTE_GNU
  <2> HIDE DEF note_gnu
  <2> QED
    BY <2>1, AlignUpNat
<1>11. rw_off \in Nat
  BY <1>1, <1>10, TableSizes, PageUpFacts
<1> HIDE DEF dynsym, relaplt, reladyn, hash, note_gnu, dynamic, rw_off
<1>12. /\ seg'.rw.offset = rw_off /\ seg'.rw.vaddr = seg.rw.vaddr
       /\ seg'.code = seg.code /\ seg'.rodata = seg.rodata /\ seg'.got = seg.got
       /\ seg'.dynlink = seg.dynlink
       /\ seg' \in [code : Place, rodata : Place, got : Place, rw : Place, dynlink : Place]
  BY <1>1, <1>3, <1>11 DEF TypeOK, Place
<1>13. TypeOK'
  <2>1. table' \in [dynstr : Nat, dynsym : Nat, relaplt : Nat, reladyn : Nat, hash : Nat,
                    note_gnu : Nat, dynamic : Nat]
    BY <1>3, <1>4, <1>5, <1>6, <1>7, <1>8, <1>9, <1>10
  <2> QED
    BY <1>1, <1>12, <2>1 DEF TypeOK
<1>14. TablesPlaced'
  <2>1. /\ table'.dynstr = dynstr /\ table'.dynsym = dynsym /\ table'.relaplt = relaplt
        /\ table'.reladyn = reladyn /\ table'.hash = hash /\ table'.note_gnu = note_gnu
        /\ table'.dynamic = dynamic
    BY <1>3
  <2>2. TableSize.note_gnu = NOTE_GNU
    BY DEF TableSize
  <2> SUFFICES /\ table'.dynstr = seg'.dynlink.offset
               /\ table'.dynstr + TableSize.dynstr <= table'.dynsym
               /\ table'.dynsym + TableSize.dynsym <= table'.relaplt
               /\ table'.relaplt + TableSize.relaplt <= table'.reladyn
               /\ table'.reladyn + TableSize.reladyn <= table'.hash
               /\ table'.hash + TableSize.hash <= table'.note_gnu
               /\ table'.note_gnu + TableSize.note_gnu <= table'.dynamic
               /\ seg'.rw.offset = PageUp(table'.dynamic + TableSize.dynamic)
    BY <1>2 DEF TablesPlaced, PageUp
  <2>3. seg'.rw.offset = PageUp(table'.dynamic + TableSize.dynamic)
    BY <1>12, <2>1 DEF rw_off
  <2>4. table'.dynstr = seg'.dynlink.offset
    BY <1>12, <2>1
  <2> QED
    BY <1>1, <1>4, <1>5, <1>6, <1>7, <1>8, <1>9, <1>10, <2>1, <2>2, <2>3, <2>4, TableSizes
       DEF NOTE_GNU
<1>15. RegionsPlaced'
  BY <1>1, <1>12 DEF ImageInv, RegionsPlaced, PageUp
<1>16. PltAppended' /\ TailPlaced'
  BY <1>1 DEF ImageInv, PltAppended, TailPlaced, GotSize
<1> QED
  BY <1>13, <1>14, <1>15, <1>16 DEF ImageInv

LEMMA TailKeepsImage ==
    ASSUME ImageInv, LayOutTail PROVE ImageInv'
<1>1. /\ TypeOK /\ input \in Inputs /\ got_size \in Nat /\ phase = "tail" /\ phase' = "write"
      /\ UNCHANGED <<input, code_len, plt_stubs_offset, rodata_len, got_size, seg, table,
                     written>>
  BY DEF ImageInv, TypeOK, LayOutTail
<1>2. TableSize' = TableSize /\ TailSize' = TailSize
  BY <1>1 DEF TableSize, TailSize
<1>3. TailSize.comment \in Nat /\ TailSize.version \in Nat
  BY <1>1, InputFields DEF TailSize
<1> DEFINE comment == align_up(seg.got.offset + got_size, 16)
           version == align_up(comment + TailSize.comment, 8)
           tail_note == align_up(version + TailSize.version, 8)
           eh_frame_hdr == align_up(tail_note + TAIL_NOTE, 4)
           shstrtab == align_up(eh_frame_hdr + EH_FRAME_HDR, 8)
           shdrs == align_up(shstrtab + SHSTRTAB, 8)
<1>4. tail' = [comment |-> comment, version |-> version, tail_note |-> tail_note,
               eh_frame_hdr |-> eh_frame_hdr, shstrtab |-> shstrtab, shdrs |-> shdrs]
  BY DEF LayOutTail
<1>5. seg.got.offset \in Nat
  BY <1>1 DEF TypeOK, Place
<1>6. comment \in Nat /\ comment >= seg.got.offset + got_size
  BY <1>1, <1>5, AlignUpNat
<1>7. version \in Nat /\ version >= comment + TailSize.comment
  BY <1>3, <1>6, AlignUpNat
<1>8. tail_note \in Nat /\ tail_note >= version + TailSize.version
  BY <1>3, <1>7, AlignUpNat
<1>9. eh_frame_hdr \in Nat /\ eh_frame_hdr >= tail_note + TAIL_NOTE
  <2>1. tail_note + TAIL_NOTE \in Nat
    BY <1>8 DEF TAIL_NOTE
  <2> HIDE DEF tail_note
  <2> QED
    BY <2>1, AlignUpNat
<1>10. shstrtab \in Nat /\ shstrtab >= eh_frame_hdr + EH_FRAME_HDR
  <2>1. eh_frame_hdr + EH_FRAME_HDR \in Nat
    BY <1>9 DEF EH_FRAME_HDR
  <2> HIDE DEF eh_frame_hdr
  <2> QED
    BY <2>1, AlignUpNat
<1>11. shdrs \in Nat /\ shdrs >= shstrtab + SHSTRTAB
  <2>1. shstrtab + SHSTRTAB \in Nat
    BY <1>10 DEF SHSTRTAB
  <2> HIDE DEF shstrtab
  <2> QED
    BY <2>1, AlignUpNat
<1> HIDE DEF comment, version, tail_note, eh_frame_hdr, shstrtab, shdrs
<1>12. TypeOK'
  <2>1. tail' \in [comment : Nat, version : Nat, tail_note : Nat, eh_frame_hdr : Nat,
                   shstrtab : Nat, shdrs : Nat]
    BY <1>4, <1>6, <1>7, <1>8, <1>9, <1>10, <1>11
  <2> QED
    BY <1>1, <2>1 DEF TypeOK
<1>13. TailPlaced'
  <2>1. /\ tail'.comment = comment /\ tail'.version = version
        /\ tail'.tail_note = tail_note /\ tail'.eh_frame_hdr = eh_frame_hdr
        /\ tail'.shstrtab = shstrtab /\ tail'.shdrs = shdrs
    BY <1>4
  <2> QED
    BY <1>1, <1>2, <1>6, <1>7, <1>8, <1>9, <1>10, <1>11, <2>1
       DEF TailPlaced, TAIL_NOTE, EH_FRAME_HDR, SHSTRTAB
<1>14. PltAppended' /\ RegionsPlaced'
  BY <1>1 DEF ImageInv, PltAppended, RegionsPlaced, GotSize, PageUp
<1>15. TablesPlaced'
  BY <1>1, <1>2 DEF ImageInv, TablesPlaced, Placed, PageUp
<1> QED
  BY <1>12, <1>13, <1>14, <1>15 DEF ImageInv

LEMMA WriteKeepsImage ==
    ASSUME ImageInv, WritePiece PROVE ImageInv'
<1>1. /\ TypeOK /\ phase = "write" /\ written' = written + 1 /\ written < 19
      /\ UNCHANGED <<input, phase, code_len, plt_stubs_offset, rodata_len, got_size, seg,
                     table, tail>>
  <2>1. Len(Writes) = 19
    BY DEF Writes
  <2> QED
    BY <2>1 DEF ImageInv, WritePiece
<1>2. TypeOK'
  BY <1>1 DEF TypeOK
<1>3. TableSize' = TableSize /\ TailSize' = TailSize
  BY <1>1 DEF TableSize, TailSize
<1>4. PltAppended' /\ RegionsPlaced'
  BY <1>1 DEF ImageInv, PltAppended, RegionsPlaced, GotSize, PageUp
<1>5. TablesPlaced' /\ TailPlaced'
  BY <1>1, <1>3 DEF ImageInv, TablesPlaced, TailPlaced, Placed, PageUp
<1> QED
  BY <1>2, <1>4, <1>5 DEF ImageInv

\* The layout invariant: every region, table and record of the tail starts
\* where the one before it in its space ends, rounded up.
THEOREM ImageCorrect == Spec => []ImageInv
<1>1. Init => ImageInv
  BY InitImage
<1>2. ImageInv /\ [Next]_vars => ImageInv'
  <2> SUFFICES ASSUME ImageInv, [Next]_vars PROVE ImageInv'
    OBVIOUS
  <2>1. CASE UNCHANGED vars
    <3>1. TableSize' = TableSize /\ TailSize' = TailSize
      BY <2>1 DEF vars, TableSize, TailSize
    <3> QED
      BY <2>1, <3>1 DEF vars, ImageInv, TypeOK, PltAppended, RegionsPlaced, TablesPlaced,
                        TailPlaced, Placed, GotSize, PageUp
  <2> QED
    BY <2>1, PltKeepsImage, RegionsKeepImage, TablesKeepImage, TailKeepsImage,
       WriteKeepsImage DEF Next
<1> QED
  BY <1>1, <1>2, PTL DEF Spec

-------------------------------------------------------------------------------
\* What is known of the regions once they are placed.
LEMMA PlacedFacts ==
    ASSUME ImageInv, Placed
    PROVE  /\ seg.code.vaddr = 0
           /\ \A s \in Segment : seg[s].vaddr \in Nat /\ seg[s].offset \in Nat
           /\ MemSize("code") = code_len /\ MemSize("rodata") = rodata_len
           /\ MemSize("got") = got_size /\ MemSize("rw") = input.memsz
           /\ code_len \in Nat /\ rodata_len \in Nat /\ got_size \in Nat
           /\ input.memsz \in Nat /\ input.data \in Nat
           /\ code_len > 0 /\ rodata_len > 0 /\ got_size > 0
           /\ input.data > 0 /\ input.data <= input.memsz
           /\ MemSize("dynlink") \in Nat /\ MemSize("dynlink") > 0
           /\ table.dynamic + TableSize.dynamic
                 = seg.dynlink.offset + MemSize("dynlink")
<1>1. /\ TypeOK /\ input \in Inputs /\ phase \in {"tables", "tail", "write"} /\ phase # "plt"
      /\ code_len \in Nat /\ rodata_len \in Nat /\ got_size \in Nat
  BY DEF ImageInv, TypeOK, Placed
<1>2. \A s \in Segment : seg[s].vaddr \in Nat /\ seg[s].offset \in Nat
  BY <1>1 DEF TypeOK, Place, Segment
<1>3. MemSize("code") = code_len /\ MemSize("rodata") = rodata_len
      /\ MemSize("got") = got_size /\ MemSize("rw") = input.memsz
      /\ MemSize("dynlink") = table.dynamic + TableSize.dynamic - seg.dynlink.offset
  BY DEF MemSize, FileSize
<1>4. code_len > 0 /\ rodata_len > 0 /\ seg.code.vaddr = 0 /\ got_size = GotSize(input)
  BY <1>1 DEF ImageInv, PltAppended, RegionsPlaced
<1>5. got_size > 0
  BY <1>1, <1>4, InputFields DEF GotSize, GOT_HEADER
<1>6. MemSize("dynlink") \in Nat /\ MemSize("dynlink") > 0
  <2>1. seg.dynlink.offset \in Nat
    BY <1>2 DEF Segment
  <2>2. /\ table.dynstr \in Nat /\ table.dynsym \in Nat /\ table.relaplt \in Nat
        /\ table.reladyn \in Nat /\ table.hash \in Nat /\ table.note_gnu \in Nat
        /\ table.dynamic \in Nat
    BY <1>1 DEF TypeOK
  <2>3. seg.dynlink.offset <= table.dynamic
    BY <1>1, <2>1, <2>2, TableSizes DEF ImageInv, TablesPlaced, NOTE_GNU
  <2> QED
    BY <1>1, <1>3, <2>1, <2>2, <2>3, TableSizes
<1>7. table.dynamic + TableSize.dynamic = seg.dynlink.offset + MemSize("dynlink")
  <2>1. table.dynamic \in Nat /\ TableSize.dynamic \in Nat /\ seg.dynlink.offset \in Nat
    BY <1>1, <1>2, TableSizes DEF TypeOK, Segment
  <2> QED
    BY <1>3, <2>1
<1> QED
  BY <1>1, <1>2, <1>3, <1>4, <1>5, <1>6, <1>7, InputFields

\* No page of memory serves two segments, so each keeps its own protection.
THEOREM SegmentsNeverShareAPage == Spec => []SegmentsShareNoPage
<1>1. ImageInv => SegmentsShareNoPage
  <2> SUFFICES ASSUME ImageInv, Placed
               PROVE  \A a, b \in Segment :
                          a # b => \/ PageUp(seg[a].vaddr + MemSize(a)) <= seg[b].vaddr
                                   \/ PageUp(seg[b].vaddr + MemSize(b)) <= seg[a].vaddr
    BY DEF SegmentsShareNoPage
  <2> DEFINE Top(s) == PageUp(seg[s].vaddr + MemSize(s))
  <2>1. /\ Top("code") = seg["rodata"].vaddr
        /\ Top("rodata") = seg["got"].vaddr
        /\ Top("got") = seg["rw"].vaddr
        /\ Top("rw") = seg["dynlink"].vaddr
    <3>1. phase \in {"tables", "tail", "write"} /\ seg.code.vaddr + MemSize("code") = code_len
      BY PlacedFacts DEF Placed
    <3> QED
      BY <3>1, PlacedFacts DEF ImageInv, RegionsPlaced
  <2>2. \A s \in Segment : MemSize(s) \in Nat /\ seg[s].vaddr \in Nat
    BY PlacedFacts DEF Segment
  <2>3. ASSUME NEW s \in Segment PROVE Top(s) \in Nat /\ Top(s) >= seg[s].vaddr
    <3>1. seg[s].vaddr + MemSize(s) \in Nat /\ seg[s].vaddr + MemSize(s) >= seg[s].vaddr
      BY <2>2
    <3> QED
      BY <2>2, <3>1, PageUpFacts
  <2> HIDE DEF Top
  <2>4. \A a, b \in Segment : a # b => Top(a) <= seg[b].vaddr \/ Top(b) <= seg[a].vaddr
    BY <2>1, <2>2, <2>3 DEF Segment
  <2> QED
    BY <2>4 DEF Top
<1> QED
  BY <1>1, ImageCorrect, PTL

\* Every loadable segment's file offset matches its address modulo the page.
THEOREM OffsetsAlwaysMatch == Spec => []OffsetsMatchAddresses
<1>1. ImageInv => OffsetsMatchAddresses
  <2> SUFFICES ASSUME ImageInv, Placed, NEW s \in Segment
               PROVE  seg[s].offset % SCE_SEG_ALIGN = seg[s].vaddr % SCE_SEG_ALIGN
    BY DEF OffsetsMatchAddresses
  <2>1. /\ phase \in {"tables", "tail", "write"} /\ TypeOK /\ input \in Inputs
    BY DEF Placed, ImageInv, TypeOK
  <2>2. ASSUME NEW v \in Nat PROVE PageUp(v) % SCE_SEG_ALIGN = 0
    BY PageUpFacts
  <2>3. 0 % SCE_SEG_ALIGN = 0
    BY PageAssumption
  <2>4. /\ seg.code.offset % SCE_SEG_ALIGN = 0 /\ seg.rodata.offset % SCE_SEG_ALIGN = 0
        /\ seg.got.offset % SCE_SEG_ALIGN = 0 /\ seg.dynlink.offset % SCE_SEG_ALIGN = 0
    <3>1. EHDR + PHDRS \in Nat /\ seg.code.offset + code_len \in Nat
          /\ seg.rodata.offset + rodata_len \in Nat /\ seg.got.offset + got_size \in Nat
      BY PlacedFacts DEF EHDR, PHDRS, Segment
    <3> QED
      BY <2>1, <2>2, <3>1 DEF ImageInv, RegionsPlaced
  <2>5. /\ seg.rodata.vaddr % SCE_SEG_ALIGN = 0 /\ seg.got.vaddr % SCE_SEG_ALIGN = 0
        /\ seg.rw.vaddr % SCE_SEG_ALIGN = 0 /\ seg.dynlink.vaddr % SCE_SEG_ALIGN = 0
    <3>1. seg.rodata.vaddr + rodata_len \in Nat /\ seg.got.vaddr + got_size \in Nat
          /\ seg.rw.vaddr + input.memsz \in Nat /\ code_len \in Nat
      BY PlacedFacts DEF Segment
    <3> QED
      BY <2>1, <2>2, <3>1 DEF ImageInv, RegionsPlaced
  <2>6. seg.rw.offset % SCE_SEG_ALIGN = 0
    <3>1. table.dynamic + TableSize.dynamic \in Nat
      BY PlacedFacts DEF Segment
    <3> QED
      BY <2>2, <3>1 DEF ImageInv, TablesPlaced
  <2>7. seg.code.vaddr = 0
    BY PlacedFacts
  <2> QED
    BY <2>3, <2>4, <2>5, <2>6, <2>7 DEF Segment
<1> QED
  BY <1>1, ImageCorrect, PTL

\* No segment is empty, and none stores more than it maps.
THEOREM SegmentsNeverEmpty == Spec => []SegmentsStoreSomething
<1>1. ImageInv => SegmentsStoreSomething
  <2> SUFFICES ASSUME ImageInv, Placed, NEW s \in Segment
               PROVE  0 < FileSize[s] /\ FileSize[s] <= MemSize(s)
    BY DEF SegmentsStoreSomething
  <2>1. FileSize["rw"] = input.data /\ \A t \in Segment \ {"rw"} : FileSize[t] = MemSize(t)
    BY DEF FileSize, MemSize
  <2>2. \A t \in Segment \ {"rw"} : MemSize(t) \in Nat /\ MemSize(t) > 0
    BY PlacedFacts DEF Segment
  <2> QED
    BY <2>1, <2>2, PlacedFacts
<1> QED
  BY <1>1, ImageCorrect, PTL

\* Every GOT slot handed out lies inside the GOT.
THEOREM GotAlwaysHolds == Spec => []GotHoldsEverySlot
<1>1. ImageInv => GotHoldsEverySlot
  <2> SUFFICES ASSUME ImageInv, Placed
               PROVE  local_got_addr + input.local * 8 <= seg.got.vaddr + FileSize.got
    BY DEF GotHoldsEverySlot
  <2>1. input \in Inputs /\ phase # "plt" /\ FileSize.got = got_size /\ seg.got.vaddr \in Nat
    BY PlacedFacts DEF ImageInv, TypeOK, Placed, FileSize, Segment
  <2>2. got_size = GotSize(input)
    BY <2>1 DEF ImageInv, PltAppended
  <2> QED
    BY <2>1, <2>2, InputFields
       DEF GotSize, GOT_HEADER, local_got_addr, gotdata_addr, got_addr
<1> QED
  BY <1>1, ImageCorrect, PTL

\* The loader's tables follow one another inside their segment.
THEOREM TablesAlwaysFollow == Spec => []TablesFollowOneAnother
<1>1. ImageInv => TablesFollowOneAnother
  <2> SUFFICES ASSUME ImageInv, Placed PROVE TablesFollowOneAnother
    BY DEF TablesFollowOneAnother
  <2>1. table.dynamic + TableSize.dynamic <= seg.rw.offset
    <3>1. table.dynamic + TableSize.dynamic \in Nat
      BY PlacedFacts DEF Segment
    <3> QED
      BY <3>1, PageUpFacts DEF ImageInv, TablesPlaced
  <2> QED
    BY <2>1 DEF ImageInv, TablesPlaced, TablesFollowOneAnother
<1> QED
  BY <1>1, ImageCorrect, PTL

\* Two pieces of the file lie apart when each lies behind the next in the
\* order of the file: the pieces of the segments always, those of the tail
\* between the GOT and the tables when they fit there.
THEOREM WritesAlwaysKeep == Spec => []WritesKeepWhatIsWritten
<1>1. ImageInv => WritesKeepWhatIsWritten
  <2> SUFFICES ASSUME ImageInv, phase = "write"
               PROVE  \A i, j \in 1..19 : i < j /\ Overlap(Writes[i], Writes[j])
                        => ~TailFits
                           /\ {Writes[i].name, Writes[j].name} \intersect TailPieces # {}
    BY DEF WritesKeepWhatIsWritten, ImageInv, TypeOK
  <2> DEFINE lo(i) == Writes[i].offset
             hi(i) == Writes[i].offset + Writes[i].size
             InTail == {13, 14, 16, 17, 18, 19}
  <2>1. Placed /\ TypeOK /\ input \in Inputs
    BY DEF Placed, ImageInv, TypeOK
  <2>2. /\ lo(1) = 0 /\ hi(1) = EHDR /\ lo(2) = EHDR /\ hi(2) = EHDR + PHDRS
        /\ lo(3) = seg.code.offset /\ hi(3) = seg.code.offset + code_len
        /\ lo(4) = seg.rodata.offset /\ hi(4) = seg.rodata.offset + rodata_len
        /\ lo(5) = table.dynsym /\ hi(5) = table.dynsym + TableSize.dynsym
        /\ lo(6) = table.dynstr /\ hi(6) = table.dynstr + TableSize.dynstr
        /\ lo(7) = table.relaplt /\ hi(7) = table.relaplt + TableSize.relaplt
        /\ lo(8) = table.reladyn /\ hi(8) = table.reladyn + TableSize.reladyn
        /\ lo(9) = table.hash /\ hi(9) = table.hash + TableSize.hash
        /\ lo(10) = table.dynamic /\ hi(10) = table.dynamic + TableSize.dynamic
    <3>1. /\ Writes[1] = Piece("ehdr", 0, EHDR) /\ Writes[2] = Piece("phdrs", EHDR, PHDRS)
          /\ Writes[3] = SegmentPiece("code") /\ Writes[4] = SegmentPiece("rodata")
          /\ Writes[5] = TablePiece("dynsym") /\ Writes[6] = TablePiece("dynstr")
          /\ Writes[7] = TablePiece("relaplt") /\ Writes[8] = TablePiece("reladyn")
          /\ Writes[9] = TablePiece("hash") /\ Writes[10] = TablePiece("dynamic")
      BY DEF Writes
    <3>2. /\ lo(1) = 0 /\ hi(1) = 0 + EHDR /\ lo(2) = EHDR /\ hi(2) = EHDR + PHDRS
          /\ lo(3) = seg.code.offset /\ hi(3) = seg.code.offset + code_len
          /\ lo(4) = seg.rodata.offset /\ hi(4) = seg.rodata.offset + rodata_len
      BY <3>1 DEF Piece, SegmentPiece, FileSize
    <3>3. 0 + EHDR = EHDR
      BY DEF EHDR
    <3> QED
      BY <3>1, <3>2, <3>3 DEF Piece, TablePiece
  <2>3. /\ lo(11) = seg.rw.offset /\ hi(11) = seg.rw.offset + input.data
        /\ lo(12) = seg.got.offset /\ hi(12) = seg.got.offset + got_size
        /\ lo(13) = tail.comment /\ hi(13) = tail.comment + TailSize.comment
        /\ lo(14) = tail.version /\ hi(14) = tail.version + TailSize.version
        /\ lo(15) = table.note_gnu /\ hi(15) = table.note_gnu + TableSize.note_gnu
        /\ lo(16) = tail.tail_note /\ hi(16) = tail.tail_note + TAIL_NOTE
        /\ lo(17) = tail.eh_frame_hdr /\ hi(17) = tail.eh_frame_hdr + EH_FRAME_HDR
        /\ lo(18) = tail.shstrtab /\ hi(18) = tail.shstrtab + SHSTRTAB
        /\ lo(19) = tail.shdrs /\ hi(19) = tail.shdrs + SHDRS
    BY DEF Writes, Piece, SegmentPiece, TablePiece, TailPiece, FileSize, TailSize
  <2>4. \A i \in 1..19 : lo(i) \in Nat /\ hi(i) \in Nat /\ lo(i) <= hi(i)
    <3>1. /\ \A k \in {1, 2, 3, 4, 11, 12} : lo(k) \in Nat /\ hi(k) \in Nat /\ lo(k) <= hi(k)
      BY <2>2, <2>3, PlacedFacts, <2>1 DEF Segment, EHDR, PHDRS
    <3>2. /\ \A k \in {5, 6, 7, 8, 9, 10, 15} :
                lo(k) \in Nat /\ hi(k) \in Nat /\ lo(k) <= hi(k)
      BY <2>1, <2>2, <2>3, TableSizes DEF TypeOK, NOTE_GNU
    <3>3. /\ \A k \in InTail : lo(k) \in Nat /\ hi(k) \in Nat /\ lo(k) <= hi(k)
      <4>1. TailSize.comment \in Nat /\ TailSize.version \in Nat
        BY <2>1, InputFields DEF TailSize
      <4> QED
        BY <2>1, <2>3, <4>1 DEF TypeOK, TAIL_NOTE, EH_FRAME_HDR, SHSTRTAB, SHDRS
    <3> HIDE DEF lo, hi
    <3> QED
      BY <3>1, <3>2, <3>3
  <2>5. /\ hi(1) <= lo(2) /\ hi(2) <= lo(3) /\ hi(3) <= lo(4) /\ hi(4) <= lo(12)
        /\ hi(12) <= lo(6)
    <3>1. EHDR + PHDRS \in Nat /\ seg.code.offset + code_len \in Nat
          /\ seg.rodata.offset + rodata_len \in Nat /\ seg.got.offset + got_size \in Nat
      BY <2>1, PlacedFacts DEF EHDR, PHDRS, Segment
    <3>2. /\ seg.code.offset >= EHDR + PHDRS
          /\ seg.rodata.offset >= seg.code.offset + code_len
          /\ seg.got.offset >= seg.rodata.offset + rodata_len
          /\ seg.dynlink.offset >= seg.got.offset + got_size
      BY <3>1, PageUpFacts DEF ImageInv, RegionsPlaced
    <3>3. seg.dynlink.offset = table.dynstr
      BY <2>1 DEF ImageInv, TablesPlaced
    <3> QED
      BY <2>2, <2>3, <3>2, <3>3 DEF EHDR
  <2>6. /\ hi(6) <= lo(5) /\ hi(5) <= lo(7) /\ hi(7) <= lo(8) /\ hi(8) <= lo(9)
        /\ hi(9) <= lo(15) /\ hi(15) <= lo(10) /\ hi(10) <= lo(11)
    <3>1. table.dynamic + TableSize.dynamic <= seg.rw.offset
      <4>1. table.dynamic + TableSize.dynamic \in Nat
        BY <2>1, PlacedFacts DEF Segment
      <4> QED
        BY <2>1, <4>1, PageUpFacts DEF ImageInv, TablesPlaced
    <3> QED
      BY <2>1, <2>2, <2>3, <3>1 DEF ImageInv, TablesPlaced
  <2>7. /\ hi(12) <= lo(13) /\ hi(13) <= lo(14) /\ hi(14) <= lo(16) /\ hi(16) <= lo(17)
        /\ hi(17) <= lo(18) /\ hi(18) <= lo(19)
    BY <2>2, <2>3 DEF ImageInv, TailPlaced
  <2>8. TailFits => hi(19) <= lo(6)
    <3>1. seg.dynlink.offset = table.dynstr
      BY <2>1 DEF ImageInv, TablesPlaced
    <3> QED
      BY <2>2, <2>3, <3>1 DEF TailFits
  <2>9. \A i \in InTail : Writes[i].name \in TailPieces
    BY DEF Writes, TailPiece, Piece, TailPieces
  <2>10. ASSUME NEW i \in 1..19, NEW j \in 1..19, i < j, Overlap(Writes[i], Writes[j])
         PROVE  lo(i) < hi(j) /\ lo(j) < hi(i)
    BY <2>10 DEF Overlap
  <2> HIDE DEF lo, hi
  <2>11. ASSUME NEW i \in (1..19) \ InTail, NEW j \in (1..19) \ InTail, i < j
         PROVE  hi(i) <= lo(j) \/ hi(j) <= lo(i)
    BY <2>4, <2>5, <2>6, <2>11
  <2>12. ASSUME TailFits, NEW i \in 1..19, NEW j \in 1..19, i < j
         PROVE  hi(i) <= lo(j) \/ hi(j) <= lo(i)
    BY <2>4, <2>5, <2>6, <2>7, <2>8, <2>12
  <2> TAKE i, j \in 1..19
  <2> HAVE i < j /\ Overlap(Writes[i], Writes[j])
  <2>13. ~(hi(i) <= lo(j) \/ hi(j) <= lo(i))
    BY <2>4, <2>10
  <2>14. ~TailFits
    BY <2>12, <2>13
  <2>15. i \in InTail \/ j \in InTail
    BY <2>11, <2>13
  <2> QED
    BY <2>9, <2>14, <2>15
<1> QED
  BY <1>1, ImageCorrect, PTL

===============================================================================
