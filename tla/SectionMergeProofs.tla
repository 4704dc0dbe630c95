-------------------------- MODULE SectionMergeProofs --------------------------
(***************************************************************************)
(* The placement of pass 1 is correct for every list of sections, every    *)
(* size and every set of alignments that divide one another.               *)
(***************************************************************************)
EXTENDS SectionMerge, SequenceTheorems, TLAPS

\* Division with remainder, the one nonlinear fact the others need.
LEMMA DivMod ==
    ASSUME NEW x \in Nat, NEW a \in Nat \ {0}
    PROVE  /\ x \div a \in Nat
           /\ x % a \in 0..(a - 1)
           /\ x = (x \div a) * a + (x % a)
OBVIOUS

LEMMA MultipleMod ==
    ASSUME NEW q \in Nat, NEW a \in Nat \ {0}
    PROVE  (q * a) % a = 0
OBVIOUS

\* align_up rounds up, by less than the alignment (common_buf.h, align_up).
LEMMA AlignUpBounds ==
    ASSUME NEW v \in Nat, NEW a \in Nat \ {0}
    PROVE  /\ align_up(v, a) \in Nat
           /\ align_up(v, a) >= v
           /\ align_up(v, a) < v + a
<1>1. CASE a = 1
  BY <1>1 DEF align_up
<1>2. CASE a > 1
  <2> DEFINE x == v + a - 1
             q == x \div a
             r == x % a
  <2>1. x \in Nat
    BY <1>2
  <2>2. q \in Nat /\ r \in 0..(a - 1) /\ x = q * a + r
    BY <2>1, DivMod
  <2>3. q * a \in Nat
    BY <2>2
  <2>4. align_up(v, a) = q * a
    BY <1>2 DEF align_up
  <2> QED
    BY <1>2, <2>2, <2>3, <2>4
<1> QED
  BY <1>1, <1>2

\* align_up answers a multiple of the alignment.
LEMMA AlignUpMultiple ==
    ASSUME NEW v \in Nat, NEW a \in Nat \ {0}
    PROVE  align_up(v, a) % a = 0
<1>1. CASE a = 1
  BY <1>1 DEF align_up
<1>2. CASE a > 1
  <2>1. (v + a - 1) \div a \in Nat
    BY <1>2, DivMod
  <2>2. align_up(v, a) = ((v + a - 1) \div a) * a
    BY <1>2 DEF align_up
  <2> QED
    BY <2>1, <2>2, MultipleMod
<1> QED
  BY <1>1, <1>2

\* A number that leaves no remainder is a multiple, and conversely.
LEMMA ModMultiple ==
    ASSUME NEW x \in Nat, NEW a \in Nat \ {0}, x % a = 0
    PROVE  \E k \in Nat : x = k * a
<1>1. x \div a \in Nat /\ x = (x \div a) * a + 0
  BY DivMod
<1>2. (x \div a) * a \in Nat
  BY <1>1
<1> QED
  BY <1>1, <1>2

\* A multiple of a multiple is a multiple.
LEMMA DividesTrans ==
    ASSUME NEW q \in Nat, NEW a \in Nat \ {0}, NEW b \in Nat \ {0},
           b % a = 0, q % b = 0
    PROVE  q % a = 0
<1>1. PICK k \in Nat : b = k * a
  BY ModMultiple
<1>2. PICK m \in Nat : q = m * b
  BY ModMultiple
<1>3. q = (m * k) * a
  BY <1>1, <1>2
<1>4. m * k \in Nat
  OBVIOUS
<1> QED
  BY <1>3, <1>4, MultipleMod

\* The sum of two multiples is a multiple.
LEMMA DividesSum ==
    ASSUME NEW x \in Nat, NEW y \in Nat, NEW a \in Nat \ {0},
           x % a = 0, y % a = 0
    PROVE  (x + y) % a = 0
<1>1. PICK k \in Nat : x = k * a
  BY ModMultiple
<1>2. PICK m \in Nat : y = m * a
  BY ModMultiple
<1>3. x + y = (k + m) * a
  BY <1>1, <1>2
<1>4. k + m \in Nat
  OBVIOUS
<1>5. ((k + m) * a) % a = 0
  BY <1>4, MultipleMod
<1> QED
  BY <1>3, <1>5

-------------------------------------------------------------------------------
\* What a section's own fields are, once its membership in Section is known.
LEMMA SectionFields ==
    ASSUME TypeOK, NEW i \in DOMAIN sections
    PROVE  /\ sections[i] \in Section
           /\ sections[i].sh_size \in Nat
           /\ AlignOf(sections[i]) \in Nat \ {0}
           /\ AlignOf(sections[i]) \in Alignment \union {1}
           /\ classify_section(sections[i]) \in Region
<1>1. sections[i] \in Section
  BY DEF TypeOK
<1>2. sections[i].sh_addralign \in Alignment \union {0}
  BY <1>1 DEF Section
<1>3. classify_section(sections[i]) \in Region
  BY DEF classify_section, Region, ByteRegion
<1>4. AlignOf(sections[i]) \in Alignment \union {1}
  BY <1>2 DEF AlignOf, AtLeastOne
<1>5. AlignOf(sections[i]) \in Nat \ {0}
  <2>1. \A a \in Alignment \union {1} : a \in Nat \ {0}
    BY AlignmentAssumption
  <2> QED
    BY <1>4, <2>1
<1>6. sections[i].sh_size \in Nat
  BY <1>1 DEF Section
<1> QED
  BY <1>1, <1>3, <1>4, <1>5, <1>6

THEOREM TypeCorrect == Spec => []TypeOK
<1>1. Init => TypeOK
  BY LinkAssumption DEF Init, TypeOK, ByteRegion, StrictestAtStart
<1>2. TypeOK /\ [Next]_vars => TypeOK'
  <2> SUFFICES ASSUME TypeOK, [Next]_vars PROVE TypeOK'
    OBVIOUS
  <2>1. CASE PlaceBytes
    <3> DEFINE region == classify_section(Current)
               offset == align_up(len[region], AlignOf(Current))
    <3>1. Len(placements) + 1 \in DOMAIN sections
      BY <2>1 DEF PlaceBytes, AtSection, TypeOK
    <3>2. AlignOf(Current) \in Nat \ {0} /\ Current.sh_size \in Nat
      BY <3>1, SectionFields DEF Current
    <3>3. region \in ByteRegion /\ len[region] \in Nat
      BY <2>1 DEF PlaceBytes, TypeOK
    <3>4. offset \in Nat
      BY <3>2, <3>3, AlignUpBounds
    <3>5. placements' = Append(placements, [region |-> region, offset |-> offset])
      BY <2>1 DEF PlaceBytes, Place
    <3>6. [region |-> region, offset |-> offset] \in [region : Region, offset : Nat]
      BY <3>3, <3>4 DEF Region
    <3>7. len' = [len EXCEPT ![region] = offset + Current.sh_size]
      BY <2>1 DEF PlaceBytes
    <3>8. len' \in [ByteRegion -> Nat]
      BY <3>2, <3>3, <3>4, <3>7 DEF TypeOK
    <3>9. placements' \in Seq([region : Region, offset : Nat])
          /\ Len(placements') <= Len(sections)
      BY <2>1, <3>5, <3>6 DEF PlaceBytes, AtSection, TypeOK
    <3> QED
      BY <2>1, <3>8, <3>9 DEF PlaceBytes, AtSection, TypeOK
  <2>2. CASE PlaceBss
    <3> DEFINE offset == align_up(bss_total, AlignOf(Current))
    <3>1. Len(placements) + 1 \in DOMAIN sections
      BY <2>2 DEF PlaceBss, AtSection, TypeOK
    <3>2. AlignOf(Current) \in Nat \ {0} /\ Current.sh_size \in Nat
          /\ AlignOf(Current) \in Alignment \union {1}
      BY <3>1, SectionFields DEF Current
    <3>3. offset \in Nat
      BY <3>2, AlignUpBounds DEF TypeOK
    <3>4. [region |-> "BSS", offset |-> offset] \in [region : Region, offset : Nat]
      BY <3>3 DEF Region
    <3>5. placements' = Append(placements, [region |-> "BSS", offset |-> offset])
      BY <2>2 DEF PlaceBss, Place
    <3>6. placements' \in Seq([region : Region, offset : Nat])
          /\ Len(placements') <= Len(sections)
      BY <2>2, <3>4, <3>5 DEF PlaceBss, AtSection, TypeOK
    <3>7. bss_total' \in Nat /\ bss_max_align' \in Alignment \union {1}
      BY <2>2, <3>2, <3>3 DEF PlaceBss, TypeOK, BssEnd
    <3> QED
      BY <2>2, <3>6, <3>7 DEF PlaceBss, AtSection, TypeOK
  <2>3. CASE Drop
    <3>1. [region |-> "NONE", offset |-> 0] \in [region : Region, offset : Nat]
      BY DEF Region
    <3> QED
      BY <2>3, <3>1 DEF Drop, AtSection, Place, TypeOK
  <2>4. CASE EndPlacing
    BY <2>4 DEF EndPlacing, TypeOK, ByteRegion
  <2>5. CASE AppendProcessParams
    <3>1. len["DATA"] \in Nat
      BY DEF TypeOK, ByteRegion
    <3>2. align_up(len["DATA"] + SCE_PROC_PARAM_SIZE, 8) \in Nat
      <4>1. len["DATA"] + SCE_PROC_PARAM_SIZE \in Nat /\ 8 \in Nat \ {0}
        BY <3>1, SizeAssumption
      <4> QED
        BY <4>1, AlignUpBounds
    <3>3. paramblocks_offset' \in Nat
      BY <2>5, <3>2 DEF AppendProcessParams, ParamBlocksAfter
    <3> QED
      BY <2>5, <3>1, <3>3, SizeAssumption DEF AppendProcessParams, TypeOK, ByteRegion
  <2>6. CASE ShiftBss
    <3>1. len["DATA"] \in Nat /\ bss_max_align \in Nat \ {0}
      BY AlignmentAssumption DEF TypeOK, ByteRegion
    <3>2. bss_base' \in Nat
      BY <2>6, <3>1, AlignUpBounds DEF ShiftBss, BssBase
    <3>3. placements' \in Seq([region : Region, offset : Nat])
          /\ Len(placements') = Len(placements)
      <4> DEFINE Placement == [region : Region, offset : Nat]
                 moved == [i \in 1..Len(placements) |->
                     IF placements[i].region = "BSS"
                     THEN [region |-> "BSS", offset |-> placements[i].offset + bss_base']
                     ELSE placements[i]]
      <4>1. placements' = moved
        BY <2>6 DEF ShiftBss, TypeOK
      <4>2. ASSUME NEW i \in 1..Len(placements)
            PROVE  moved[i] \in Placement
        <5>1. placements \in Seq(Placement)
          BY DEF TypeOK
        <5>2. placements[i] \in Placement
          BY <5>1, ElementOfSeq
        <5>3. [region |-> "BSS", offset |-> placements[i].offset + bss_base'] \in Placement
          BY <3>2, <5>2 DEF Region
        <5> QED
          BY <5>2, <5>3
      <4>3. moved \in [1..Len(placements) -> Placement]
        BY <4>2
      <4>4. moved \in Seq(Placement) /\ Len(moved) = Len(placements)
        BY <4>3, IsASeq, LenProperties DEF TypeOK
      <4> QED
        BY <4>1, <4>4
    <3> QED
      BY <2>6, <3>1, <3>2, <3>3 DEF ShiftBss, TypeOK
  <2>7. CASE UNCHANGED vars
    BY <2>7 DEF vars, TypeOK
  <2> QED
    BY <2>1, <2>2, <2>3, <2>4, <2>5, <2>6, <2>7 DEF Next
<1> QED
  BY <1>1, <1>2, PTL DEF Spec

-------------------------------------------------------------------------------
\* Sections already placed keep their placement, and the current one gets its.
LEMMA Placed ==
    ASSUME TypeOK, AtSection, NEW region \in Region, NEW offset \in Nat,
           Place(region, offset), UNCHANGED sections
    PROVE  LET n == Len(placements) IN
           /\ n \in Nat
           /\ n + 1 \in DOMAIN sections
           /\ DOMAIN placements = 1..n
           /\ DOMAIN placements' = 1..(n + 1)
           /\ \A i \in 1..n : placements'[i] = placements[i]
           /\ placements'[n + 1] = [region |-> region, offset |-> offset]
           /\ \A i \in 1..(n + 1) : i \in DOMAIN sections
           /\ \A i \in 1..n : Start(i)' = Start(i) /\ End(i)' = End(i)
           /\ \A i \in {n + 1} : Start(i)' = offset
                              /\ End(i)' = offset + Current.sh_size
<1> DEFINE n == Len(placements)
           p == [region |-> region, offset |-> offset]
<1>1. n \in Nat /\ DOMAIN placements = 1..n
  BY DEF TypeOK
<1>2. n + 1 \in DOMAIN sections /\ \A i \in 1..(n + 1) : i \in DOMAIN sections
  BY <1>1 DEF TypeOK, AtSection
<1>3. placements' = Append(placements, p)
  BY DEF Place
<1>4. p \in [region : Region, offset : Nat]
  OBVIOUS
<1>5. /\ DOMAIN placements' = 1..(n + 1)
      /\ \A i \in 1..n : placements'[i] = placements[i]
      /\ placements'[n + 1] = p
  BY <1>1, <1>3, <1>4, AppendProperties DEF TypeOK
<1>6. \A i \in 1..n : Start(i)' = Start(i) /\ End(i)' = End(i)
  BY <1>5 DEF Start, End
<1>7. ASSUME NEW i \in {n + 1}
      PROVE  Start(i)' = offset /\ End(i)' = offset + Current.sh_size
  <2>1. placements'[i].offset = offset
    BY <1>5
  <2>2. sections'[i].sh_size = Current.sh_size
    BY DEF Current
  <2> QED
    BY <2>1, <2>2 DEF Start, End
<1> QED
  BY <1>1, <1>2, <1>5, <1>6, <1>7

\* What a placement says, once its index is known.
LEMMA PlacementFields ==
    ASSUME TypeOK, NEW i \in DOMAIN placements
    PROVE  /\ placements[i].region \in Region
           /\ Start(i) \in Nat
           /\ i \in DOMAIN sections
           /\ End(i) \in Nat /\ Start(i) <= End(i)
<1>1. placements[i] \in [region : Region, offset : Nat]
  <2>1. placements \in Seq([region : Region, offset : Nat]) /\ i \in 1..Len(placements)
    BY DEF TypeOK
  <2> QED
    BY <2>1, ElementOfSeq
<1>2. i \in DOMAIN sections
  BY DEF TypeOK
<1>3. sections[i].sh_size \in Nat
  BY <1>2, SectionFields
<1> QED
  BY <1>1, <1>2, <1>3 DEF Start, End

\* Placing a section behind those of its region, on its alignment, keeps the
\* order and the alignment of all of them.
LEMMA PlaceKeepsOrder ==
    ASSUME LayoutInv, AtSection, NEW region \in Region, NEW offset \in Nat,
           Place(region, offset), UNCHANGED sections,
           region # "NONE" => offset % AlignOf(Current) = 0,
           region # "NONE" => \A i \in DOMAIN placements :
               placements[i].region = region => End(i) <= offset
    PROVE  PlacedInOrder' /\ EverySectionAligned'
<1> DEFINE n == Len(placements)
<1>1. TypeOK
  BY DEF LayoutInv
<1>2. /\ n \in Nat
      /\ DOMAIN placements = 1..n /\ DOMAIN placements' = 1..(n + 1)
      /\ \A i \in 1..n : placements'[i] = placements[i]
      /\ placements'[n + 1] = [region |-> region, offset |-> offset]
      /\ \A i \in 1..n : Start(i)' = Start(i) /\ End(i)' = End(i)
      /\ \A i \in {n + 1} : Start(i)' = offset
  BY <1>1, Placed
<1>3. placements'[n + 1].region = region
  BY <1>2
<1>4. PlacedInOrder'
  <2> SUFFICES ASSUME NEW i \in 1..(n + 1), NEW j \in 1..(n + 1), i < j,
                      placements'[i].region = placements'[j].region,
                      placements'[i].region # "NONE"
               PROVE  (End(i) <= Start(j))'
    BY <1>2 DEF PlacedInOrder
  <2>1. i \in 1..n /\ placements'[i] = placements[i] /\ End(i)' = End(i)
    BY <1>2
  <2>2. CASE j \in 1..n
    <3>1. placements'[j] = placements[j] /\ Start(j)' = Start(j)
      BY <1>2, <2>2
    <3>2. End(i) <= Start(j)
      BY <1>2, <2>1, <2>2, <3>1 DEF LayoutInv, PlacedInOrder
    <3> QED
      BY <2>1, <3>1, <3>2
  <2>3. CASE j = n + 1
    <3>1. placements[i].region = region /\ region # "NONE"
      BY <1>3, <2>1, <2>3
    <3>2. End(i) <= offset
      BY <1>2, <2>1, <3>1
    <3> QED
      BY <1>2, <2>1, <2>3, <3>2
  <2> QED
    BY <1>2, <2>2, <2>3
<1>5. EverySectionAligned'
  <2> SUFFICES ASSUME NEW i \in 1..(n + 1), placements'[i].region # "NONE"
               PROVE  (Start(i) % AlignOf(sections[i]) = 0)'
    BY <1>2 DEF EverySectionAligned
  <2>1. CASE i \in 1..n
    <3>1. placements[i].region # "NONE" /\ i \in DOMAIN placements
      BY <1>2, <2>1
    <3>2. Start(i) % AlignOf(sections[i]) = 0
      BY <3>1 DEF LayoutInv, EverySectionAligned
    <3>3. Start(i)' = Start(i) /\ AlignOf(sections[i])' = AlignOf(sections[i])
      BY <1>2, <2>1 DEF AlignOf
    <3> QED
      BY <3>2, <3>3
  <2>2. CASE i = n + 1
    <3>1. region # "NONE"
      BY <1>3, <2>2
    <3>2. Start(i)' = offset /\ AlignOf(sections[i])' = AlignOf(Current)
      BY <1>2, <2>2 DEF Current, AlignOf
    <3> QED
      BY <3>1, <3>2
  <2> QED
    BY <1>2, <2>1, <2>2
<1> QED
  BY <1>4, <1>5

LEMMA PlaceBytesKeepsLayout ==
    ASSUME LayoutInv, PlaceBytes, TypeOK'
    PROVE  LayoutInv'
<1> DEFINE region == classify_section(Current)
           offset == align_up(len[region], AlignOf(Current))
           n == Len(placements)
<1>1. TypeOK /\ AtSection /\ UNCHANGED <<sections, bss_total, bss_max_align>>
      /\ phase = "place" /\ phase' = "place"
  BY DEF LayoutInv, PlaceBytes, AtSection
<1>2. region \in ByteRegion /\ region \in Region /\ len[region] \in Nat
  BY <1>1 DEF PlaceBytes, Region, TypeOK
<1>3. AlignOf(Current) \in Nat \ {0} /\ Current.sh_size \in Nat
  <2>1. n + 1 \in DOMAIN sections
    BY <1>1 DEF AtSection, TypeOK
  <2> QED
    BY <1>1, <2>1, SectionFields DEF Current
<1>4. offset \in Nat /\ offset >= len[region] /\ offset % AlignOf(Current) = 0
  BY <1>2, <1>3, AlignUpBounds, AlignUpMultiple
<1>5. Place(region, offset) /\ len' = [len EXCEPT ![region] = offset + Current.sh_size]
  BY DEF PlaceBytes
<1>6. /\ n \in Nat
      /\ DOMAIN placements = 1..n /\ DOMAIN placements' = 1..(n + 1)
      /\ \A i \in 1..n : placements'[i] = placements[i]
      /\ placements'[n + 1] = [region |-> region, offset |-> offset]
      /\ \A i \in 1..n : Start(i)' = Start(i) /\ End(i)' = End(i)
      /\ \A i \in {n + 1} : End(i)' = offset + Current.sh_size
  BY <1>1, <1>2, <1>4, <1>5, Placed
<1>7. /\ len'[region] = offset + Current.sh_size
      /\ \A r \in ByteRegion : r # region => len'[r] = len[r]
  BY <1>1, <1>2, <1>5 DEF TypeOK
<1>8. ASSUME NEW i \in DOMAIN placements, placements[i].region = region
      PROVE  End(i) \in Nat /\ End(i) <= len[region]
  BY <1>1, <1>2, <1>8, PlacementFields DEF LayoutInv, PlacedInside
<1>9. PlacedInOrder' /\ EverySectionAligned'
  <2>1. \A i \in DOMAIN placements : placements[i].region = region => End(i) <= offset
    BY <1>2, <1>4, <1>8
  <2> HIDE DEF region, offset
  <2> QED
    BY <1>1, <1>2, <1>4, <1>5, <2>1, PlaceKeepsOrder
<1>10. PlacedInside'
  <2> SUFFICES ASSUME NEW i \in 1..(n + 1)
               PROVE  /\ placements'[i].region \in ByteRegion
                             => End(i)' <= len'[placements'[i].region]
                      /\ placements'[i].region = "BSS"
                             => (AlignOf(sections[i]) <= bss_max_align
                                 /\ End(i) <= bss_total)'
    BY <1>1, <1>6 DEF PlacedInside
  <2>1. CASE i = n + 1
    <3>1. placements'[i].region = region /\ End(i)' = offset + Current.sh_size
      BY <1>6, <2>1
    <3>2. region # "BSS"
      BY <1>2 DEF ByteRegion
    <3>3. End(i)' <= len'[region]
      BY <1>2, <1>3, <1>4, <1>7, <3>1
    <3> QED
      BY <3>1, <3>2, <3>3
  <2>2. CASE i \in 1..n
    <3>1. placements'[i] = placements[i] /\ End(i)' = End(i) /\ i \in DOMAIN placements
      BY <1>6, <2>2
    <3>2. CASE placements[i].region = region
      <4>1. End(i) \in Nat /\ End(i) <= len[region]
        BY <1>8, <3>1, <3>2
      <4>2. End(i) <= len'[region]
        BY <1>2, <1>3, <1>4, <1>7, <4>1
      <4>3. region # "BSS"
        BY <1>2 DEF ByteRegion
      <4> QED
        BY <3>1, <3>2, <4>2, <4>3
    <3>3. CASE placements[i].region # region
      <4>1. placements[i].region \in ByteRegion => End(i) <= len[placements[i].region]
        BY <3>1 DEF LayoutInv, PlacedInside
      <4>2. placements[i].region \in ByteRegion
               => len'[placements[i].region] = len[placements[i].region]
        BY <1>7, <3>3
      <4>3. placements[i].region = "BSS"
               => AlignOf(sections[i]) <= bss_max_align /\ End(i) <= bss_total
        BY <1>1, <3>1 DEF LayoutInv, PlacedInside
      <4>4. AlignOf(sections[i])' = AlignOf(sections[i])
        BY <1>1 DEF AlignOf
      <4> QED
        BY <1>1, <3>1, <4>1, <4>2, <4>3, <4>4
    <3> QED
      BY <3>2, <3>3
  <2> QED
    BY <1>6, <2>1, <2>2
<1>11. WritableLaidOut'
  BY <1>1 DEF WritableLaidOut
<1> QED
  BY <1>9, <1>10, <1>11 DEF LayoutInv

LEMMA PlaceBssKeepsLayout ==
    ASSUME LayoutInv, PlaceBss, TypeOK'
    PROVE  LayoutInv'
<1> DEFINE offset == align_up(bss_total, AlignOf(Current))
           n == Len(placements)
<1>1. /\ TypeOK /\ AtSection /\ UNCHANGED <<sections, len>>
      /\ phase = "place" /\ phase' = "place" /\ bss_total \in Nat
  BY DEF LayoutInv, PlaceBss, AtSection, TypeOK
<1>2. AlignOf(Current) \in Nat \ {0} /\ Current.sh_size \in Nat
  <2>1. n + 1 \in DOMAIN sections
    BY <1>1 DEF AtSection, TypeOK
  <2> QED
    BY <1>1, <2>1, SectionFields DEF Current
<1>3. offset \in Nat /\ offset >= bss_total /\ offset % AlignOf(Current) = 0
  BY <1>1, <1>2, AlignUpBounds, AlignUpMultiple
<1>4. Place("BSS", offset) /\ bss_total' = offset + Current.sh_size
  BY DEF PlaceBss, BssEnd
<1>5. bss_max_align \in Nat /\ bss_max_align' >= bss_max_align
      /\ bss_max_align' >= AlignOf(Current)
  <2>1. \A a \in Alignment \union {1} : a \in Nat
    BY AlignmentAssumption
  <2>2. bss_max_align \in Nat
    BY <1>1, <2>1 DEF TypeOK
  <2> QED
    BY <1>2, <2>2 DEF PlaceBss
<1>6. "BSS" \in Region /\ "BSS" \notin ByteRegion /\ "BSS" # "NONE"
  BY DEF Region, ByteRegion
<1>7. /\ n \in Nat
      /\ DOMAIN placements = 1..n /\ DOMAIN placements' = 1..(n + 1)
      /\ \A i \in 1..n : placements'[i] = placements[i]
      /\ placements'[n + 1] = [region |-> "BSS", offset |-> offset]
      /\ \A i \in 1..n : Start(i)' = Start(i) /\ End(i)' = End(i)
      /\ \A i \in {n + 1} : End(i)' = offset + Current.sh_size
  BY <1>1, <1>3, <1>4, <1>6, Placed
<1>8. ASSUME NEW i \in DOMAIN placements, placements[i].region = "BSS"
      PROVE  End(i) \in Nat /\ End(i) <= bss_total
             /\ AlignOf(sections[i]) <= bss_max_align /\ AlignOf(sections[i]) \in Nat
  <2>1. End(i) \in Nat /\ i \in DOMAIN sections
    BY <1>1, PlacementFields
  <2>2. AlignOf(sections[i]) \in Nat
    BY <1>1, <2>1, SectionFields
  <2>3. phase # "done"
    BY <1>1
  <2> QED
    BY <1>8, <2>1, <2>2, <2>3 DEF LayoutInv, PlacedInside
<1>9. PlacedInOrder' /\ EverySectionAligned'
  <2>1. \A i \in DOMAIN placements : placements[i].region = "BSS" => End(i) <= offset
    BY <1>1, <1>3, <1>8
  <2> HIDE DEF offset
  <2> QED
    BY <1>1, <1>3, <1>4, <1>6, <2>1, PlaceKeepsOrder
<1>10. PlacedInside'
  <2> SUFFICES ASSUME NEW i \in 1..(n + 1)
               PROVE  /\ placements'[i].region \in ByteRegion
                             => End(i)' <= len[placements'[i].region]
                      /\ placements'[i].region = "BSS"
                             => (AlignOf(sections[i]) <= bss_max_align
                                 /\ End(i) <= bss_total)'
    BY <1>1, <1>7 DEF PlacedInside
  <2>1. CASE i = n + 1
    <3>1. placements'[i].region = "BSS" /\ End(i)' = offset + Current.sh_size
      BY <1>7, <2>1
    <3>2. AlignOf(sections[i])' = AlignOf(Current)
      BY <1>1, <2>1 DEF AlignOf, Current
    <3> QED
      BY <1>2, <1>3, <1>4, <1>5, <1>6, <3>1, <3>2
  <2>2. CASE i \in 1..n
    <3>1. placements'[i] = placements[i] /\ End(i)' = End(i) /\ i \in DOMAIN placements
      BY <1>7, <2>2
    <3>2. placements[i].region \in ByteRegion => End(i) <= len[placements[i].region]
      BY <3>1 DEF LayoutInv, PlacedInside
    <3>3. ASSUME placements[i].region = "BSS"
          PROVE  (AlignOf(sections[i]) <= bss_max_align /\ End(i) <= bss_total)'
      <4>1. AlignOf(sections[i])' = AlignOf(sections[i])
        BY <1>1 DEF AlignOf
      <4>2. End(i) <= offset + Current.sh_size /\ AlignOf(sections[i]) <= bss_max_align'
        <5>1. End(i) \in Nat /\ End(i) <= bss_total
              /\ AlignOf(sections[i]) <= bss_max_align /\ AlignOf(sections[i]) \in Nat
          BY <1>8, <3>1, <3>3
        <5>2. bss_max_align' \in Nat
          BY <1>2, <1>5 DEF PlaceBss
        <5> HIDE DEF offset
        <5>3. End(i) <= offset + Current.sh_size
          BY <1>1, <1>2, <1>3, <5>1
        <5>4. AlignOf(sections[i]) <= bss_max_align'
          BY <1>5, <5>1, <5>2
        <5> QED
          BY <5>3, <5>4
      <4> QED
        BY <1>4, <3>1, <4>1, <4>2
    <3> QED
      BY <3>1, <3>2, <3>3
  <2> QED
    BY <1>7, <2>1, <2>2
<1>11. WritableLaidOut'
  BY <1>1 DEF WritableLaidOut
<1> QED
  BY <1>9, <1>10, <1>11 DEF LayoutInv

LEMMA DropKeepsLayout ==
    ASSUME LayoutInv, Drop, TypeOK'
    PROVE  LayoutInv'
<1> DEFINE n == Len(placements)
<1>1. /\ TypeOK /\ AtSection /\ UNCHANGED <<sections, len, bss_total, bss_max_align>>
      /\ phase = "place" /\ phase' = "place" /\ Place("NONE", 0)
  BY DEF LayoutInv, Drop, AtSection, TypeOK
<1>2. "NONE" \in Region /\ "NONE" \notin ByteRegion /\ 0 \in Nat
  BY DEF Region, ByteRegion
<1>3. /\ n \in Nat
      /\ DOMAIN placements = 1..n /\ DOMAIN placements' = 1..(n + 1)
      /\ \A i \in 1..n : placements'[i] = placements[i]
      /\ placements'[n + 1] = [region |-> "NONE", offset |-> 0]
      /\ \A i \in 1..n : Start(i)' = Start(i) /\ End(i)' = End(i)
  BY <1>1, <1>2, Placed
<1>4. PlacedInOrder' /\ EverySectionAligned'
  BY <1>1, <1>2, PlaceKeepsOrder
<1>5. PlacedInside'
  <2> SUFFICES ASSUME NEW i \in 1..(n + 1)
               PROVE  /\ placements'[i].region \in ByteRegion
                             => End(i)' <= len[placements'[i].region]
                      /\ placements'[i].region = "BSS"
                             => (AlignOf(sections[i]) <= bss_max_align
                                 /\ End(i) <= bss_total)'
    BY <1>1, <1>3 DEF PlacedInside
  <2>1. CASE i = n + 1
    BY <1>2, <1>3, <2>1
  <2>2. CASE i \in 1..n
    <3>1. placements'[i] = placements[i] /\ End(i)' = End(i) /\ i \in DOMAIN placements
      BY <1>3, <2>2
    <3>2. AlignOf(sections[i])' = AlignOf(sections[i])
      BY <1>1 DEF AlignOf
    <3>3. /\ placements[i].region \in ByteRegion => End(i) <= len[placements[i].region]
          /\ placements[i].region = "BSS"
                => AlignOf(sections[i]) <= bss_max_align /\ End(i) <= bss_total
      BY <1>1, <3>1 DEF LayoutInv, PlacedInside
    <3> QED
      BY <1>1, <3>1, <3>2, <3>3
  <2> QED
    BY <1>3, <2>1, <2>2
<1>6. WritableLaidOut'
  BY <1>1 DEF WritableLaidOut
<1> QED
  BY <1>4, <1>5, <1>6 DEF LayoutInv

\* A step that moves no section and shrinks no buffer keeps the placement.
LEMMA GrowingKeepsPlacement ==
    ASSUME LayoutInv, TypeOK',
           UNCHANGED <<sections, placements, bss_total, bss_max_align>>,
           phase # "done", phase' # "done",
           \A r \in ByteRegion : len'[r] >= len[r]
    PROVE  PlacedInOrder' /\ EverySectionAligned' /\ PlacedInside'
<1>1. \A i : Start(i)' = Start(i) /\ End(i)' = End(i)
             /\ AlignOf(sections[i])' = AlignOf(sections[i])
  BY DEF Start, End, AlignOf
<1>2. PlacedInOrder'
  BY <1>1 DEF LayoutInv, PlacedInOrder
<1>3. EverySectionAligned'
  <2> SUFFICES ASSUME NEW i \in DOMAIN placements, placements[i].region # "NONE"
               PROVE  (Start(i) % AlignOf(sections[i]) = 0)'
    BY DEF EverySectionAligned
  <2>1. Start(i) % AlignOf(sections[i]) = 0
    BY DEF LayoutInv, EverySectionAligned
  <2> QED
    BY <1>1, <2>1
<1>4. PlacedInside'
  <2> SUFFICES ASSUME NEW i \in DOMAIN placements
               PROVE  /\ placements[i].region \in ByteRegion
                             => End(i)' <= len'[placements[i].region]
                      /\ placements[i].region = "BSS"
                             => (AlignOf(sections[i]) <= bss_max_align
                                 /\ End(i) <= bss_total)'
    BY DEF PlacedInside
  <2>1. /\ placements[i].region \in ByteRegion => End(i) <= len[placements[i].region]
        /\ placements[i].region = "BSS"
              => AlignOf(sections[i]) <= bss_max_align /\ End(i) <= bss_total
    BY DEF LayoutInv, PlacedInside
  <2>2. End(i) \in Nat
    BY PlacementFields DEF LayoutInv
  <2>3. placements[i].region \in ByteRegion
          => /\ len[placements[i].region] \in Nat
             /\ len'[placements[i].region] \in Nat
             /\ len'[placements[i].region] >= len[placements[i].region]
    BY DEF LayoutInv, TypeOK
  <2> QED
    BY <1>1, <2>1, <2>2, <2>3
<1> QED
  BY <1>2, <1>3, <1>4

LEMMA EndPlacingKeepsLayout ==
    ASSUME LayoutInv, EndPlacing, TypeOK'
    PROVE  LayoutInv'
<1>1. \A r \in ByteRegion : len'[r] >= len[r]
  BY DEF EndPlacing, LayoutInv, TypeOK
<1>2. PlacedInOrder' /\ EverySectionAligned' /\ PlacedInside'
  BY <1>1, GrowingKeepsPlacement DEF EndPlacing
<1>3. WritableLaidOut'
  BY DEF EndPlacing, WritableLaidOut
<1> QED
  BY <1>2, <1>3 DEF LayoutInv

LEMMA AppendKeepsLayout ==
    ASSUME LayoutInv, AppendProcessParams, TypeOK'
    PROVE  LayoutInv'
<1>1. len \in [ByteRegion -> Nat] /\ "DATA" \in ByteRegion /\ len["DATA"] \in Nat
  BY DEF LayoutInv, TypeOK, ByteRegion
<1>2. /\ paramblocks_offset' \in Nat
      /\ paramblocks_offset' >= len["DATA"] + SCE_PROC_PARAM_SIZE
  <2>1. len["DATA"] + SCE_PROC_PARAM_SIZE \in Nat /\ 8 \in Nat \ {0}
    BY <1>1, SizeAssumption
  <2> QED
    BY <2>1, AlignUpBounds DEF AppendProcessParams, ParamBlocksAfter
<1>3. /\ len'["DATA"] = paramblocks_offset' + PB_TOTAL_SZ
      /\ \A r \in ByteRegion : r # "DATA" => len'[r] = len[r]
  BY <1>1 DEF AppendProcessParams
<1>4. len'["DATA"] >= len["DATA"]
  BY <1>1, <1>2, <1>3, SizeAssumption
<1>5. \A r \in ByteRegion : len'[r] >= len[r]
  BY <1>1, <1>3, <1>4
<1>6. PlacedInOrder' /\ EverySectionAligned' /\ PlacedInside'
  BY <1>5, GrowingKeepsPlacement DEF AppendProcessParams
<1>7. WritableLaidOut'
  <2>1. ASSUME NEW i \in DOMAIN placements, placements[i].region = "DATA"
        PROVE  End(i)' <= proc_param_offset'
    <3>1. End(i) <= len["DATA"]
      BY <1>1, <2>1 DEF LayoutInv, PlacedInside
    <3>2. End(i)' = End(i) /\ proc_param_offset' = len["DATA"]
      BY DEF AppendProcessParams, End
    <3> QED
      BY <3>1, <3>2
  <2>2. DOMAIN placements' = DOMAIN placements /\ placements' = placements
        /\ phase' = "bss" /\ proc_param_offset' = len["DATA"]
    BY DEF AppendProcessParams
  <2> QED
    BY <1>2, <1>3, <2>1, <2>2 DEF WritableLaidOut
<1> QED
  BY <1>6, <1>7 DEF LayoutInv

\* Every alignment up to the strictest divides the strictest.
LEMMA StrictestIsMultiple ==
    ASSUME NEW a \in Alignment \union {1}, NEW b \in Alignment \union {1}, a <= b
    PROVE  b % a = 0
<1>1. \A c \in Alignment \union {1} : c \in Nat \ {0}
  BY AlignmentAssumption
<1>2. a \in Nat \ {0} /\ b \in Nat \ {0}
  BY <1>1
<1>3. CASE a = 1
  BY <1>2, <1>3
<1>4. CASE a # 1
  <2>1. b # 1
    BY <1>2, <1>4
  <2>2. a \in Alignment /\ b \in Alignment
    BY <1>4, <2>1
  <2> QED
    BY <2>2, AlignmentAssumption
<1> QED
  BY <1>3, <1>4

LEMMA ShiftBssKeepsLayout ==
    ASSUME LayoutInv, ShiftBss, TypeOK'
    PROVE  LayoutInv'
<1>1. /\ TypeOK /\ phase = "bss" /\ phase' = "done"
      /\ UNCHANGED <<sections, len, bss_total, bss_max_align, proc_param_offset,
                     paramblocks_offset>>
      /\ data_real_len' = len["DATA"] /\ data_region_memsz' = bss_base' + bss_total
  BY DEF LayoutInv, ShiftBss
<1>2. len["DATA"] \in Nat /\ bss_total \in Nat
      /\ bss_max_align \in Nat \ {0} /\ bss_max_align \in Alignment \union {1}
  <2>1. \A a \in Alignment \union {1} : a \in Nat \ {0}
    BY AlignmentAssumption
  <2> QED
    BY <1>1, <2>1 DEF TypeOK, ByteRegion
<1>3. bss_base' = align_up(len["DATA"], bss_max_align)
  BY DEF ShiftBss, BssBase
<1>4. bss_base' \in Nat /\ bss_base' >= len["DATA"] /\ bss_base' % bss_max_align = 0
  BY <1>2, <1>3, AlignUpBounds, AlignUpMultiple
<1>5. /\ DOMAIN placements' = DOMAIN placements
      /\ \A i \in DOMAIN placements : placements[i].region = "BSS"
            => placements'[i] = [region |-> "BSS",
                                 offset |-> placements[i].offset + bss_base']
      /\ \A i \in DOMAIN placements : placements[i].region # "BSS"
            => placements'[i] = placements[i]
  BY DEF ShiftBss
<1>6. ASSUME NEW i \in DOMAIN placements
      PROVE  /\ placements'[i].region = placements[i].region
             /\ placements[i].region = "BSS"
                   => Start(i)' = Start(i) + bss_base' /\ End(i)' = End(i) + bss_base'
             /\ placements[i].region # "BSS"
                   => Start(i)' = Start(i) /\ End(i)' = End(i)
             /\ AlignOf(sections[i])' = AlignOf(sections[i])
             /\ Start(i) \in Nat /\ End(i) \in Nat /\ i \in DOMAIN sections
  <2>1. Start(i) \in Nat /\ End(i) \in Nat /\ i \in DOMAIN sections
    BY <1>1, PlacementFields
  <2>2. sections[i].sh_size \in Nat /\ placements[i].offset \in Nat
    BY <1>1, <2>1, SectionFields DEF Start
  <2>3. AlignOf(sections[i])' = AlignOf(sections[i])
    BY <1>1 DEF AlignOf
  <2>4. CASE placements[i].region = "BSS"
    <3>1. placements'[i].region = "BSS"
          /\ placements'[i].offset = placements[i].offset + bss_base'
      BY <1>5, <2>4
    <3> QED
      BY <1>1, <1>4, <2>1, <2>2, <2>3, <2>4, <3>1 DEF Start, End
  <2>5. CASE placements[i].region # "BSS"
    <3>1. placements'[i] = placements[i]
      BY <1>5, <2>5
    <3> QED
      BY <1>1, <2>1, <2>3, <2>5, <3>1 DEF Start, End
  <2> QED
    BY <2>4, <2>5
<1>7. PlacedInOrder'
  <2> SUFFICES ASSUME NEW i \in DOMAIN placements, NEW j \in DOMAIN placements, i < j,
                      placements[i].region = placements[j].region,
                      placements[i].region # "NONE"
               PROVE  End(i)' <= Start(j)'
    BY <1>5, <1>6 DEF PlacedInOrder
  <2>1. End(i) <= Start(j)
    BY DEF LayoutInv, PlacedInOrder
  <2> QED
    BY <1>4, <1>6, <2>1
<1>8. EverySectionAligned'
  <2> SUFFICES ASSUME NEW i \in DOMAIN placements, placements[i].region # "NONE"
               PROVE  (Start(i) % AlignOf(sections[i]) = 0)'
    BY <1>5, <1>6 DEF EverySectionAligned
  <2>1. Start(i) % AlignOf(sections[i]) = 0
    BY DEF LayoutInv, EverySectionAligned
  <2>2. CASE placements[i].region # "BSS"
    BY <1>6, <2>1, <2>2
  <2>3. CASE placements[i].region = "BSS"
    <3> DEFINE a == AlignOf(sections[i])
    <3>1. a \in Nat \ {0} /\ a \in Alignment \union {1}
      BY <1>1, <1>6, SectionFields
    <3>2. a <= bss_max_align
      BY <2>3 DEF LayoutInv, PlacedInside
    <3>3. Start(i) \in Nat /\ Start(i)' = Start(i) + bss_base'
          /\ AlignOf(sections[i])' = a
      BY <1>6, <2>3
    <3> HIDE DEF a
    <3>4. bss_max_align % a = 0
      BY <1>2, <3>1, <3>2, StrictestIsMultiple
    <3>5. bss_base' % a = 0
      BY <1>2, <1>4, <3>1, <3>4, DividesTrans
    <3>6. (Start(i) + bss_base') % a = 0
      <4>1. Start(i) % a = 0
        BY <2>1 DEF a
      <4> QED
        BY <1>4, <3>1, <3>3, <3>5, <4>1, DividesSum
    <3> QED
      BY <3>3, <3>6
  <2> QED
    BY <2>2, <2>3
<1>9. PlacedInside'
  <2> SUFFICES ASSUME NEW i \in DOMAIN placements
               PROVE  /\ placements[i].region \in ByteRegion
                             => End(i)' <= len[placements[i].region]
                      /\ placements[i].region = "BSS"
                             => /\ (AlignOf(sections[i]) <= bss_max_align)'
                                /\ bss_base' <= Start(i)'
                                /\ End(i)' <= data_region_memsz'
    BY <1>1, <1>5, <1>6 DEF PlacedInside
  <2>1. /\ placements[i].region \in ByteRegion => End(i) <= len[placements[i].region]
        /\ placements[i].region = "BSS"
              => AlignOf(sections[i]) <= bss_max_align /\ End(i) <= bss_total
    BY <1>1 DEF LayoutInv, PlacedInside
  <2>2. CASE placements[i].region = "BSS"
    <3>1. placements[i].region \notin ByteRegion
      BY <2>2 DEF ByteRegion
    <3> QED
      BY <1>1, <1>2, <1>4, <1>6, <2>1, <2>2, <3>1
  <2>3. CASE placements[i].region # "BSS"
    BY <1>6, <2>1, <2>3
  <2> QED
    BY <2>2, <2>3
<1>10. WritableLaidOut'
  <2>1. /\ paramblocks_offset >= proc_param_offset + SCE_PROC_PARAM_SIZE
        /\ len["DATA"] = paramblocks_offset + PB_TOTAL_SZ
    BY <1>1 DEF LayoutInv, WritableLaidOut
  <2>2. ASSUME NEW i \in DOMAIN placements, placements[i].region = "DATA"
        PROVE  End(i)' <= proc_param_offset
    <3>1. End(i) <= proc_param_offset
      BY <1>1, <2>2 DEF LayoutInv, WritableLaidOut
    <3> QED
      BY <1>6, <2>2, <3>1
  <2> QED
    BY <1>1, <1>4, <1>5, <1>6, <2>1, <2>2 DEF WritableLaidOut
<1> QED
  BY <1>7, <1>8, <1>9, <1>10 DEF LayoutInv

-------------------------------------------------------------------------------
\* The placement invariant: sections of a region follow one another in the
\* order placed, each on its alignment, inside buffers that end behind them.
THEOREM LayoutCorrect == Spec => []LayoutInv
<1>1. Init => LayoutInv
  <2> SUFFICES ASSUME Init PROVE LayoutInv
    OBVIOUS
  <2>1. TypeOK
    BY LinkAssumption DEF Init, TypeOK, ByteRegion, StrictestAtStart
  <2>2. DOMAIN placements = {} /\ phase = "place"
    BY DEF Init
  <2> QED
    BY <2>1, <2>2 DEF LayoutInv, PlacedInOrder, EverySectionAligned, PlacedInside,
                      WritableLaidOut
<1>2. LayoutInv /\ TypeOK' /\ [Next]_vars => LayoutInv'
  <2> SUFFICES ASSUME LayoutInv, TypeOK', [Next]_vars PROVE LayoutInv'
    OBVIOUS
  <2>1. CASE PlaceBytes
    BY <2>1, PlaceBytesKeepsLayout
  <2>2. CASE PlaceBss
    BY <2>2, PlaceBssKeepsLayout
  <2>3. CASE Drop
    BY <2>3, DropKeepsLayout
  <2>4. CASE EndPlacing
    BY <2>4, EndPlacingKeepsLayout
  <2>5. CASE AppendProcessParams
    BY <2>5, AppendKeepsLayout
  <2>6. CASE ShiftBss
    BY <2>6, ShiftBssKeepsLayout
  <2>7. CASE UNCHANGED vars
    <3>1. \A i : Start(i)' = Start(i) /\ End(i)' = End(i)
                 /\ AlignOf(sections[i])' = AlignOf(sections[i])
      BY <2>7 DEF vars, Start, End, AlignOf
    <3>2. PlacedInOrder' /\ WritableLaidOut'
      BY <2>7, <3>1 DEF vars, LayoutInv, PlacedInOrder, WritableLaidOut
    <3>3. EverySectionAligned'
      BY <2>7, <3>1, Zenon DEF vars, LayoutInv, EverySectionAligned
    <3>4. PlacedInside'
      BY <2>7, <3>1 DEF vars, LayoutInv, PlacedInside
    <3> QED
      BY <3>2, <3>3, <3>4 DEF LayoutInv
  <2> QED
    BY <2>1, <2>2, <2>3, <2>4, <2>5, <2>6, <2>7 DEF Next
<1> QED
  BY <1>1, <1>2, TypeCorrect, PTL DEF Spec

\* No byte of the image belongs to two sections, however many there are.
THEOREM SectionsNeverOverlap == Spec => []NoTwoSectionsOverlap
<1>1. LayoutInv => NoTwoSectionsOverlap
  <2> SUFFICES ASSUME LayoutInv, NEW i \in DOMAIN placements,
                      NEW j \in DOMAIN placements,
                      i # j, Space(i) = Space(j), Space(i) # "NONE"
               PROVE  End(i) <= Start(j) \/ End(j) <= Start(i)
    BY DEF NoTwoSectionsOverlap
  <2>1. /\ TypeOK /\ i \in Nat /\ j \in Nat
        /\ placements[i].region # "NONE" /\ placements[j].region # "NONE"
    BY DEF LayoutInv, TypeOK, Space
  <2>2. CASE placements[i].region = placements[j].region
    BY <2>1, <2>2 DEF LayoutInv, PlacedInOrder
  <2>3. ASSUME NEW d \in DOMAIN placements, NEW b \in DOMAIN placements, phase = "done",
               placements[d].region = "DATA", placements[b].region = "BSS"
        PROVE  End(d) <= Start(b)
    <3>1. End(d) <= len["DATA"] /\ "DATA" \in ByteRegion
      BY <2>3 DEF LayoutInv, PlacedInside, ByteRegion
    <3>2. len["DATA"] <= bss_base /\ bss_base <= Start(b)
      BY <2>3 DEF LayoutInv, PlacedInside, WritableLaidOut
    <3>3. End(d) \in Nat /\ Start(b) \in Nat /\ bss_base \in Nat /\ len["DATA"] \in Nat
      BY <2>1, <3>1, PlacementFields DEF TypeOK
    <3> QED
      BY <3>1, <3>2, <3>3
  <2>4. CASE placements[i].region # placements[j].region
    <3>1. phase = "done" /\ {placements[i].region, placements[j].region} = {"DATA", "BSS"}
      BY <2>4 DEF Space
    <3> QED
      BY <2>3, <3>1
  <2> QED
    BY <2>2, <2>4
<1> QED
  BY <1>1, LayoutCorrect, PTL

\* Every section starts on its alignment, .bss behind the data too.
THEOREM SectionsAlwaysAligned == Spec => []EverySectionAligned
<1>1. LayoutInv => EverySectionAligned
  BY DEF LayoutInv
<1> QED
  BY <1>1, LayoutCorrect, PTL

\* Sections with bytes end inside their buffer; zero-filled ones lie behind
\* the bytes and inside the memory mapped.
THEOREM SectionsAlwaysInside == Spec => []EverySectionInside
<1>1. LayoutInv => EverySectionInside
  <2> SUFFICES ASSUME LayoutInv, NEW i \in DOMAIN placements
               PROVE  LET region == placements[i].region IN
                      /\ region \in ByteRegion => End(i) <= len[region]
                      /\ phase = "done" /\ region = "DATA" => End(i) <= data_real_len
                      /\ phase = "done" /\ region = "BSS"
                            => data_real_len <= Start(i) /\ End(i) <= data_region_memsz
    BY DEF EverySectionInside
  <2>1. Start(i) \in Nat /\ data_real_len \in Nat /\ bss_base \in Nat
    BY PlacementFields DEF LayoutInv, TypeOK
  <2>2. phase = "done" => data_real_len = len["DATA"] /\ data_real_len <= bss_base
    BY DEF LayoutInv, WritableLaidOut
  <2>3. "DATA" \in ByteRegion
    BY DEF ByteRegion
  <2>4. LET region == placements[i].region IN
        /\ region \in ByteRegion => End(i) <= len[region]
        /\ region = "BSS" /\ phase = "done"
              => bss_base <= Start(i) /\ End(i) <= data_region_memsz
    BY DEF LayoutInv, PlacedInside
  <2> QED
    BY <2>1, <2>2, <2>3, <2>4
<1> QED
  BY <1>1, LayoutCorrect, PTL

\* No section shares a byte with the process parameters, and .bss, which the
\* kernel clears, lies behind them.
THEOREM ParamsNeverShared == Spec => []ParamsBelongToNoSection
<1>1. LayoutInv => ParamsBelongToNoSection
  <2> SUFFICES ASSUME LayoutInv, phase = "done" PROVE ParamsBelongToNoSection
    BY DEF ParamsBelongToNoSection
  <2>1. /\ paramblocks_offset >= proc_param_offset + SCE_PROC_PARAM_SIZE
        /\ data_real_len = paramblocks_offset + PB_TOTAL_SZ
        /\ \A i \in DOMAIN placements :
              placements[i].region = "DATA" => End(i) <= proc_param_offset
    BY DEF LayoutInv, WritableLaidOut
  <2>2. \A i \in DOMAIN placements :
              placements[i].region = "BSS" => data_real_len <= Start(i)
    <3>1. ASSUME NEW i \in DOMAIN placements, placements[i].region = "BSS"
          PROVE  data_real_len <= Start(i)
      <4>1. bss_base <= Start(i) /\ data_real_len <= bss_base
        BY <3>1 DEF LayoutInv, PlacedInside, WritableLaidOut
      <4> QED
        BY <4>1, PlacementFields DEF LayoutInv, TypeOK
    <3> QED
      BY <3>1
  <2> QED
    BY <2>1, <2>2 DEF ParamsBelongToNoSection
<1> QED
  BY <1>1, LayoutCorrect, PTL

-------------------------------------------------------------------------------
\* What pass 1 hands over: the sizes that ImageLayout takes for granted of its
\* input, writable bytes that are there and fit in their memory.
HandsOver ==
    phase = "done" =>
        /\ len["CODE"] \in Nat /\ len["RODATA"] \in Nat
        /\ data_real_len \in Nat \ {0} /\ data_real_len <= data_region_memsz

\* From the eight bytes on, the writable buffer is not empty.
BytesToMap ==
    /\ phase = "params" => len["DATA"] > 0
    /\ phase \in {"bss", "done"} => proc_param_offset > 0
    /\ phase = "done" => data_region_memsz = bss_base + bss_total

LEMMA BytesToMapKept == LayoutInv /\ BytesToMap /\ [Next]_vars => BytesToMap'
<1> SUFFICES ASSUME LayoutInv, BytesToMap, [Next]_vars PROVE BytesToMap'
  OBVIOUS
<1>1. len \in [ByteRegion -> Nat] /\ "DATA" \in ByteRegion
  BY DEF LayoutInv, TypeOK, ByteRegion
<1>2. CASE PlaceBytes \/ PlaceBss \/ Drop
  <2>1. phase' = "place"
    BY <1>2 DEF PlaceBytes, PlaceBss, Drop, AtSection
  <2> QED
    BY <2>1 DEF BytesToMap
<1>3. CASE EndPlacing
  <2>1. phase' = "params" /\ len'["DATA"] = IF len["DATA"] = 0 THEN 8 ELSE len["DATA"]
    BY <1>1, <1>3 DEF EndPlacing
  <2>2. len["DATA"] \in Nat
    BY <1>1
  <2> QED
    BY <2>1, <2>2 DEF BytesToMap
<1>4. CASE AppendProcessParams
  BY <1>4 DEF AppendProcessParams, BytesToMap
<1>5. CASE ShiftBss
  BY <1>5 DEF ShiftBss, BytesToMap
<1>6. CASE UNCHANGED vars
  BY <1>6 DEF vars, BytesToMap
<1> QED
  BY <1>2, <1>3, <1>4, <1>5, <1>6 DEF Next

\* Whatever the sections, the layout begins with writable bytes that are not empty
\* and not more than the memory mapped for them (dynwriter.c gives an empty buffer
\* eight bytes, and shifts .bss behind the bytes): ImageLayout's InputAssumption.
THEOREM AlwaysHandsOver == Spec => []HandsOver
<1>1. Init => BytesToMap
  BY DEF Init, BytesToMap
<1>2. LayoutInv /\ BytesToMap => HandsOver
  <2> SUFFICES ASSUME LayoutInv, BytesToMap, phase = "done" PROVE HandsOver
    BY DEF HandsOver
  <2>1. /\ len["CODE"] \in Nat /\ len["RODATA"] \in Nat
        /\ proc_param_offset \in Nat /\ paramblocks_offset \in Nat
        /\ data_real_len \in Nat /\ bss_base \in Nat /\ bss_total \in Nat
    BY DEF LayoutInv, TypeOK, ByteRegion
  <2>2. /\ paramblocks_offset >= proc_param_offset + SCE_PROC_PARAM_SIZE
        /\ data_real_len = paramblocks_offset + PB_TOTAL_SZ /\ data_real_len <= bss_base
    BY DEF LayoutInv, WritableLaidOut
  <2>3. proc_param_offset > 0 /\ data_region_memsz = bss_base + bss_total
    BY DEF BytesToMap
  <2>4. data_real_len > 0
    BY <2>1, <2>2, <2>3, SizeAssumption
  <2> QED
    BY <2>1, <2>2, <2>3, <2>4 DEF HandsOver
<1> QED
  BY <1>1, <1>2, BytesToMapKept, LayoutCorrect, PTL DEF Spec

===============================================================================
