----------------------------- MODULE SectionMerge -----------------------------
(***************************************************************************)
(* dynwriter.c, pass 1: every section of every object is classified and    *)
(* placed in one merged region; then the process parameters are appended   *)
(* to the writable bytes, and .bss, laid out from zero meanwhile, is       *)
(* shifted behind them.  The two loops over objects and sections visit the *)
(* sections in one fixed order, so they are one sequence here.             *)
(***************************************************************************)
EXTENDS Align, Sequences

CONSTANTS
    SCE_PROC_PARAM_SIZE,   \* bytes of the process parameter record
    PB_TOTAL_SZ,           \* bytes of the parameter blocks behind it
    Alignment,             \* the nonzero alignments sections ask for
    Link                   \* the inputs: sequences of sections

ByteRegion == {"CODE", "RODATA", "DATA"}     \* merged with their bytes
Region == ByteRegion \union {"BSS", "NONE"}

Section == [name : {".eh_frame", "other"},
            sh_type : {"PROGBITS", "NOBITS", "NOTE"},
            sh_flags : SUBSET {"ALLOC", "WRITE", "EXEC"},
            sh_addralign : Alignment \union {0},
            sh_size : Nat]

ASSUME SizeAssumption == SCE_PROC_PARAM_SIZE \in Nat /\ PB_TOTAL_SZ \in Nat
ASSUME LinkAssumption == Link \subseteq Seq(Section)

\* ELF alignments are powers of two; that the smaller divides the larger is
\* all the layout relies on.
ASSUME AlignmentAssumption ==
    /\ Alignment \subseteq Nat \ {0}
    /\ \A a, b \in Alignment : a <= b => b % a = 0

VARIABLES
    sections,        \* the input: never changes
    phase,           \* "place", "params", "bss" or "done"
    placements,      \* [region, offset] of each section placed so far
    len,             \* length of each merged buffer
    bss_total, bss_max_align,
    proc_param_offset, paramblocks_offset,
    data_real_len, bss_base, data_region_memsz

vars == <<sections, phase, placements, len, bss_total, bss_max_align,
          proc_param_offset, paramblocks_offset, data_real_len, bss_base,
          data_region_memsz>>

-------------------------------------------------------------------------------
Dropped(s) ==
    \/ s.name = ".eh_frame"
    \/ s.sh_type = "NOTE"
    \/ "ALLOC" \notin s.sh_flags

classify_section(s) ==
    LET nobits == s.sh_type = "NOBITS"
        exec == "EXEC" \in s.sh_flags
        write == "WRITE" \in s.sh_flags IN
    CASE Dropped(s) -> "NONE"
      [] ~Dropped(s) /\ nobits -> "BSS"
      [] ~Dropped(s) /\ ~nobits /\ exec -> "CODE"
      [] ~Dropped(s) /\ ~nobits /\ ~exec /\ write -> "DATA"
      [] OTHER -> "RODATA"

AlignOf(s) == AtLeastOne(s.sh_addralign)

\* Slip: the strictest alignment starts from zero.
StrictestFromZero == 0

StrictestAtStart == 1

Init ==
    /\ sections \in Link
    /\ phase = "place"
    /\ placements = <<>>
    /\ len = [r \in ByteRegion |-> 0]
    /\ bss_total = 0 /\ bss_max_align = StrictestAtStart
    /\ proc_param_offset = 0 /\ paramblocks_offset = 0
    /\ data_real_len = 0 /\ bss_base = 0 /\ data_region_memsz = 0

-------------------------------------------------------------------------------
\* The section the loops are at.
AtSection == phase = "place" /\ Len(placements) < Len(sections)
Current == sections[Len(placements) + 1]

Place(region, offset) ==
    placements' = Append(placements, [region |-> region, offset |-> offset])

PlaceBytes ==
    /\ AtSection
    /\ LET region == classify_section(Current)
           offset == align_up(len[region], AlignOf(Current)) IN
       /\ region \in ByteRegion
       /\ Place(region, offset)
       /\ len' = [len EXCEPT ![region] = offset + Current.sh_size]
    /\ UNCHANGED <<sections, phase, bss_total, bss_max_align, proc_param_offset,
                   paramblocks_offset, data_real_len, bss_base, data_region_memsz>>

\* Slip: the gap the rounding left is not counted.
BssEndNoGap(offset, size) == bss_total + size

BssEnd(offset, size) == offset + size

PlaceBss ==
    /\ AtSection
    /\ classify_section(Current) = "BSS"
    /\ LET offset == align_up(bss_total, AlignOf(Current)) IN
       /\ Place("BSS", offset)
       /\ bss_total' = BssEnd(offset, Current.sh_size)
    /\ bss_max_align' = IF AlignOf(Current) > bss_max_align
                        THEN AlignOf(Current) ELSE bss_max_align
    /\ UNCHANGED <<sections, phase, len, proc_param_offset, paramblocks_offset,
                   data_real_len, bss_base, data_region_memsz>>

Drop ==
    /\ AtSection
    /\ classify_section(Current) = "NONE"
    /\ Place("NONE", 0)
    /\ UNCHANGED <<sections, phase, len, bss_total, bss_max_align, proc_param_offset,
                   paramblocks_offset, data_real_len, bss_base, data_region_memsz>>

\* The loops end; an empty writable buffer is given eight bytes, because a
\* segment that maps nothing is refused.
EndPlacing ==
    /\ phase = "place" /\ Len(placements) = Len(sections)
    /\ phase' = "params"
    /\ len' = [len EXCEPT !["DATA"] = IF @ = 0 THEN 8 ELSE @]
    /\ UNCHANGED <<sections, placements, bss_total, bss_max_align, proc_param_offset,
                   paramblocks_offset, data_real_len, bss_base, data_region_memsz>>

\* Slip: the blocks are placed where the record was.
ParamBlocksOverRecord(record) == align_up(record, 8)

ParamBlocksAfter(record) == align_up(record + SCE_PROC_PARAM_SIZE, 8)

AppendProcessParams ==
    /\ phase = "params"
    /\ proc_param_offset' = len["DATA"]
    /\ paramblocks_offset' = ParamBlocksAfter(len["DATA"])
    /\ len' = [len EXCEPT !["DATA"] = paramblocks_offset' + PB_TOTAL_SZ]
    /\ phase' = "bss"
    /\ UNCHANGED <<sections, placements, bss_total, bss_max_align, data_real_len,
                   bss_base, data_region_memsz>>

\* Slip: .bss begins where the bytes end.
BssBaseUnaligned(bytes, align) == bytes

\* Slip: rounding down, into the parameter blocks.
BssBaseRoundedDown(bytes, align) == AlignDown(bytes, align)

BssBase(bytes, align) == align_up(bytes, align)

ShiftBss ==
    /\ phase = "bss"
    /\ data_real_len' = len["DATA"]
    /\ bss_base' = BssBase(len["DATA"], bss_max_align)
    /\ placements' = [i \in DOMAIN placements |->
           IF placements[i].region = "BSS"
           THEN [region |-> "BSS", offset |-> placements[i].offset + bss_base']
           ELSE placements[i]]
    /\ data_region_memsz' = bss_base' + bss_total
    /\ phase' = "done"
    /\ UNCHANGED <<sections, len, bss_total, bss_max_align, proc_param_offset,
                   paramblocks_offset>>

Next ==
    \/ PlaceBytes \/ PlaceBss \/ Drop
    \/ EndPlacing \/ AppendProcessParams \/ ShiftBss

Spec == Init /\ [][Next]_vars

-------------------------------------------------------------------------------
\* The type invariant: every size and offset is a number, whatever the alignments
\* asked for, and the strictest of them is one of them.
TypeOK ==
    /\ sections \in Seq(Section)
    /\ phase \in {"place", "params", "bss", "done"}
    /\ placements \in Seq([region : Region, offset : Nat])
    /\ Len(placements) <= Len(sections)
    /\ len \in [ByteRegion -> Nat]
    /\ bss_total \in Nat
    /\ bss_max_align \in Alignment \union {1}
    /\ proc_param_offset \in Nat /\ paramblocks_offset \in Nat
    /\ data_real_len \in Nat /\ bss_base \in Nat /\ data_region_memsz \in Nat

Start(i) == placements[i].offset
End(i) == placements[i].offset + sections[i].sh_size

\* Before .bss is shifted its offsets count from a base of their own; from
\* then on it shares the writable segment with the data.
Space(i) ==
    IF phase = "done" /\ placements[i].region = "BSS" THEN "DATA"
    ELSE placements[i].region

\* No byte of the image belongs to two sections.  Overlapping variables would
\* corrupt each other long after the link, with nothing to point back here.
NoTwoSectionsOverlap ==
    \A i, j \in DOMAIN placements :
        i # j /\ Space(i) = Space(j) /\ Space(i) # "NONE"
            => End(i) <= Start(j) \/ End(j) <= Start(i)

\* Each section starts on its own alignment within its region, .bss too after
\* the shift (a comment in dynwriter.c tells of the vmovdqa that faulted when
\* it did not).
EverySectionAligned ==
    \A i \in DOMAIN placements :
        placements[i].region # "NONE" => Start(i) % AlignOf(sections[i]) = 0

\* Sections with bytes end inside the bytes written for their region, and
\* zero-filled ones start behind all of them and end inside the memory mapped.
EverySectionInside ==
    \A i \in DOMAIN placements :
        LET region == placements[i].region IN
        /\ region \in ByteRegion => End(i) <= len[region]
        /\ phase = "done" /\ region = "DATA" => End(i) <= data_real_len
        /\ phase = "done" /\ region = "BSS"
               => data_real_len <= Start(i) /\ End(i) <= data_region_memsz

\* The loader reads and fixes up the process parameters in the writable
\* segment; no section may share a byte with them, and .bss, which the kernel
\* clears, must lie behind them.
ParamsBelongToNoSection ==
    phase = "done" =>
        /\ paramblocks_offset >= proc_param_offset + SCE_PROC_PARAM_SIZE
        /\ data_real_len = paramblocks_offset + PB_TOTAL_SZ
        /\ \A i \in DOMAIN placements :
              /\ placements[i].region = "DATA" => End(i) <= proc_param_offset
              /\ placements[i].region = "BSS" => data_real_len <= Start(i)

\* ------------------------------------------------- the inductive invariant
\* Sections of one region lie one after the other, in the order placed.
PlacedInOrder ==
    \A i, j \in DOMAIN placements :
        i < j /\ placements[i].region = placements[j].region
              /\ placements[i].region # "NONE"
            => End(i) <= Start(j)

\* The buffers end behind every section placed in them, .bss too, and the
\* strictest alignment bounds the alignment of every .bss section.
PlacedInside ==
    \A i \in DOMAIN placements :
        LET region == placements[i].region IN
        /\ region \in ByteRegion => End(i) <= len[region]
        /\ region = "BSS" => AlignOf(sections[i]) <= bss_max_align
        /\ region = "BSS" /\ phase # "done" => End(i) <= bss_total
        /\ region = "BSS" /\ phase = "done" => /\ bss_base <= Start(i)
                                              /\ End(i) <= data_region_memsz

\* What the later phases have fixed of the writable segment.
WritableLaidOut ==
    /\ phase \in {"bss", "done"} =>
          /\ paramblocks_offset >= proc_param_offset + SCE_PROC_PARAM_SIZE
          /\ len["DATA"] = paramblocks_offset + PB_TOTAL_SZ
          /\ \A i \in DOMAIN placements :
                placements[i].region = "DATA" => End(i) <= proc_param_offset
    /\ phase = "done" => data_real_len = len["DATA"] /\ data_real_len <= bss_base

LayoutInv ==
    TypeOK /\ PlacedInOrder /\ EverySectionAligned /\ PlacedInside /\ WritableLaidOut

===============================================================================
