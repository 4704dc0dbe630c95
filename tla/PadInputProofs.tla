---------------------------- MODULE PadInputProofs ----------------------------
(***************************************************************************)
(* The edge detection of pad_input is correct for any number of readings   *)
(* and presses, and whichever readings fail.                               *)
(***************************************************************************)
EXTENDS PadInput, FiniteSetTheorems, TLAPS

\* Presses are numbered upwards, and only those made are counted.
PressesNumbered ==
    /\ press \in Nat /\ cross_presses \in Nat
    /\ down \in BOOLEAN /\ was_cross_down \in BOOLEAN
    /\ read_up \in BOOLEAN /\ read_down \in BOOLEAN
    /\ down => press > 0
    /\ counted \subseteq 1..press

\* A press that was counted and lasts is the last state the program knows.
CountedIsRemembered == down /\ press \in counted => was_cross_down

\* The last state is older than a release that was read, and without a gap in
\* front of a press it is the press itself.
RememberedIsCounted == read_up /\ was_cross_down => down /\ press \in counted

PadInv ==
    /\ PressesNumbered
    /\ cross_presses = Cardinality(counted)
    /\ CountedIsRemembered
    /\ RememberedIsCounted
    /\ ReadPressIsCounted

LEMMA PadInvInit == Init => PadInv
<1> SUFFICES ASSUME Init PROVE PadInv
  OBVIOUS
<1>1. cross_presses = Cardinality(counted)
  BY FS_EmptySet DEF Init
<1>2. press \in Nat /\ (down => press > 0)
  <2>1. CASE down
    BY <2>1 DEF Init
  <2>2. CASE ~down
    BY <2>2 DEF Init
  <2> QED
    BY <2>1, <2>2
<1>3. PressesNumbered
  BY <1>2 DEF Init, PressesNumbered
<1> QED
  BY <1>1, <1>3 DEF Init, PadInv, CountedIsRemembered, RememberedIsCounted, ReadPressIsCounted

\* The number shown grows with the set of presses it stands for.
LEMMA CountingAddsOne ==
    ASSUME PadInv, ReadButtons
    PROVE  cross_presses' \in Nat /\ cross_presses' = Cardinality(counted')
<1>1. IsFiniteSet(counted)
  <2>1. IsFiniteSet(1..press)
    BY FS_Interval DEF PadInv, PressesNumbered
  <2> QED
    BY <2>1, FS_Subset DEF PadInv, PressesNumbered
<1>2. CASE NewPress
  <2>1. press \notin counted
    BY <1>2 DEF PadInv, CountedIsRemembered, NewPress
  <2>2. Cardinality(counted \union {press}) = Cardinality(counted) + 1
    BY <1>1, <2>1, FS_AddElement
  <2> QED
    BY <1>2, <2>2 DEF ReadButtons, PadInv, PressesNumbered
<1>3. CASE ~NewPress
  BY <1>3 DEF ReadButtons, PadInv, PressesNumbered
<1> QED
  BY <1>2, <1>3

LEMMA PadInvReadButtons == ASSUME PadInv, ReadButtons PROVE PadInv'
<1>1. PressesNumbered'
  <2>1. NewPress => press \in 1..press
    BY DEF NewPress, PadInv, PressesNumbered
  <2>2. counted' \subseteq 1..press'
    BY <2>1 DEF ReadButtons, player, PadInv, PressesNumbered
  <2>3. /\ was_cross_down' \in BOOLEAN
        /\ read_up' \in BOOLEAN /\ read_down' \in BOOLEAN
    BY DEF ReadButtons, LastState, PadInv, PressesNumbered
  <2> QED
    BY <2>2, <2>3, CountingAddsOne DEF ReadButtons, player, PadInv, PressesNumbered
<1>2. (cross_presses = Cardinality(counted))'
  BY CountingAddsOne
<1>3. CountedIsRemembered'
  BY DEF ReadButtons, player, LastState, CountedIsRemembered
<1>4. RememberedIsCounted'
  BY DEF ReadButtons, player, NewPress, LastState, PadInv, PressesNumbered,
     RememberedIsCounted, ReadPressIsCounted
<1>5. ReadPressIsCounted'
  BY DEF ReadButtons, player, NewPress, LastState, PadInv, PressesNumbered,
     RememberedIsCounted, ReadPressIsCounted
<1> QED
  BY <1>1, <1>2, <1>3, <1>4, <1>5 DEF PadInv

LEMMA PadInvPlayer == ASSUME PadInv, Press \/ Release PROVE PadInv'
<1>1. CASE Press
  <2>1. press + 1 \notin counted
    BY DEF PadInv, PressesNumbered
  <2>2. PressesNumbered'
    <3>1. press' \in Nat /\ press' > 0 /\ counted' \subseteq 1..press'
      BY <1>1 DEF Press, PadInv, PressesNumbered
    <3> QED
      BY <1>1, <3>1 DEF Press, PadInv, PressesNumbered
  <2>3. CountedIsRemembered'
    BY <1>1, <2>1 DEF Press, CountedIsRemembered
  <2>4. RememberedIsCounted' /\ ReadPressIsCounted'
    BY <1>1 DEF Press, PadInv, RememberedIsCounted, ReadPressIsCounted
  <2> QED
    BY <1>1, <2>2, <2>3, <2>4 DEF Press, PadInv
<1>2. CASE Release
  BY <1>2 DEF Release, PadInv, PressesNumbered, CountedIsRemembered,
     RememberedIsCounted, ReadPressIsCounted
<1> QED
  BY <1>1, <1>2

LEMMA PadInvStep == PadInv /\ [Next]_vars => PadInv'
<1> SUFFICES ASSUME PadInv, [Next]_vars PROVE PadInv'
  OBVIOUS
<1>1. CASE UNCHANGED <<counting, player>>
  BY <1>1 DEF counting, player, PadInv, PressesNumbered, CountedIsRemembered,
     RememberedIsCounted, ReadPressIsCounted
<1>2. CASE Open
  BY <1>1, <1>2 DEF Open
<1>3. CASE ReadNothing
  BY <1>1, <1>3 DEF ReadNothing
<1>4. CASE ReadButtons
  BY <1>4, PadInvReadButtons
<1>5. CASE Sleep
  BY <1>1, <1>5 DEF Sleep
<1>6. CASE EndLoop
  BY <1>1, <1>6 DEF EndLoop
<1>7. CASE Close
  BY <1>1, <1>7 DEF Close
<1>8. CASE Press \/ Release
  BY <1>8, PadInvPlayer
<1>9. CASE UNCHANGED vars
  BY <1>1, <1>9 DEF vars, counting, player
<1> QED
  BY <1>2, <1>3, <1>4, <1>5, <1>6, <1>7, <1>8, <1>9 DEF Next, Main

LEMMA PadInvAlways == Spec => []PadInv
BY PadInvInit, PadInvStep, PTL DEF Spec

\* However many readings fail while a button is held or moves, no press is
\* counted twice (main.c:79-89).
THEOREM NeverCountedTwice == Spec => []NoPressCountedTwice
<1>1. PadInv => NoPressCountedTwice
  BY DEF PadInv, PressesNumbered, NoPressCountedTwice
<1> QED
  BY <1>1, PadInvAlways, PTL

\* A press that was read, and whose release before it was, is always counted.
THEOREM ReadPressAlwaysCounted == Spec => []ReadPressIsCounted
<1>1. PadInv => ReadPressIsCounted
  BY DEF PadInv
<1> QED
  BY <1>1, PadInvAlways, PTL
===============================================================================
