---------------------------- MODULE LinkRealProofs ----------------------------
(***************************************************************************)
(* The resolver settles every name once, from the catalog, under ids that  *)
(* name one module and one library; the tables the loader searches hold    *)
(* every import where it is looked for; and so a link that answers 0 can   *)
(* be bound.  For every catalog, every program and every hash.             *)
(***************************************************************************)
EXTENDS LinkReal, SequenceTheorems, FiniteSetTheorems, WellFoundedInduction, TLAPS

\* A set of numbers has a least one: what stands here for induction.
LEMMA LeastOf ==
    ASSUME NEW numbers \in SUBSET Nat, numbers # {}
    PROVE  \E x \in numbers : \A y \in numbers : x <= y
<1>1. IsWellFoundedOn(OpToRel(<, Nat), Nat)
  BY NatLessThanWellFounded
<1>2. PICK x \in numbers : \A y \in numbers : ~(<<y, x>> \in OpToRel(<, Nat))
  BY <1>1, WFMin
<1>3. \A y \in numbers : ~(y < x)
  BY <1>2 DEF OpToRel
<1> QED
  BY <1>3

------------------------------------------------------------------------------
\* Tables of the resolver.  No key is in a table twice.
NoneTwice(table) == \A i, j \in DOMAIN table : table[i] = table[j] => i = j

LEMMA IndexOfIs ==
    ASSUME NEW S, NEW table \in Seq(S), NEW key
    PROVE  \/ /\ IndexOf(table, key) \in 1..Len(table)
              /\ table[IndexOf(table, key)] = key
           \/ /\ IndexOf(table, key) = Len(table) + 1
              /\ \A i \in DOMAIN table : table[i] # key
<1>1. CASE Contains(table, key)
  <2> DEFINE I == {i \in 1..Len(table) : table[i] = key}
  <2>1. I # {} /\ I \in SUBSET Nat
    BY <1>1, LenProperties DEF Contains
  <2>2. IndexOf(table, key) = CHOOSE x \in I : \A y \in I : x <= y
    BY <1>1, <2>1 DEF IndexOf, SelectInSeq, Min
  <2>3. IndexOf(table, key) \in I
    BY <2>1, <2>2, LeastOf
  <2> QED
    BY <2>3
<1>2. CASE ~Contains(table, key)
  BY <1>2, LenProperties DEF IndexOf, Contains
<1> QED
  BY <1>1, <1>2

\* Where an element of a longer sequence comes from.
LEMMA AppendAt ==
    ASSUME NEW S, NEW s \in Seq(S), NEW e \in S
    PROVE  /\ Append(s, e) \in Seq(S)
           /\ DOMAIN Append(s, e) = DOMAIN s \union {Len(s) + 1}
           /\ Len(s) + 1 \notin DOMAIN s /\ Len(s) \in Nat
           /\ \A i \in DOMAIN s : Append(s, e)[i] = s[i]
           /\ Append(s, e)[Len(s) + 1] = e
<1>1. DOMAIN s = 1..Len(s) /\ Len(s) \in Nat
  BY LenProperties
<1>2. Append(s, e) \in Seq(S) /\ Len(Append(s, e)) = Len(s) + 1
  BY AppendProperties
<1>3. DOMAIN Append(s, e) = 1..(Len(s) + 1)
  BY <1>2, LenProperties
<1> QED
  BY <1>1, <1>2, <1>3, AppendProperties

\* Entering a key under its index leaves every other index as it was.
LEMMA EnterIs ==
    ASSUME NEW S, NEW table \in Seq(S), NEW key \in S, NoneTwice(table),
           NEW new, new = Enter(table, key, IndexOf(table, key))
    PROVE  /\ new \in Seq(S) /\ NoneTwice(new)
           /\ IndexOf(table, key) \in DOMAIN new /\ new[IndexOf(table, key)] = key
           /\ \A i \in DOMAIN table : i \in DOMAIN new /\ new[i] = table[i]
<1>1. Len(table) \in Nat /\ DOMAIN table = 1..Len(table)
  BY LenProperties
<1>2. PICK n : n = IndexOf(table, key)
  OBVIOUS
<1>3. new = IF n > Len(table) THEN Append(table, key) ELSE table
  BY <1>2 DEF Enter
<1>4. CASE n \in 1..Len(table) /\ table[n] = key
  <2>1. ~(n > Len(table))
    BY <1>1, <1>4
  <2>2. new = table
    BY <1>3, <2>1
  <2> QED
    BY <1>1, <1>2, <1>4, <2>2
<1>5. CASE n = Len(table) + 1 /\ \A i \in DOMAIN table : table[i] # key
  <2>1. n > Len(table)
    BY <1>1, <1>5
  <2>2. new = Append(table, key)
    BY <1>3, <2>1
  <2>3. NoneTwice(new)
    BY <1>5, <2>2, AppendAt DEF NoneTwice
  <2> QED
    BY <1>2, <1>5, <2>2, <2>3, AppendAt
<1> QED
  BY <1>2, <1>4, <1>5, IndexOfIs

------------------------------------------------------------------------------
\* The catalog.  A search answers an entry that exports the name, or there is
\* none.
LEMMA NoEntryIsNone == NoEntry \notin Entry
<1>1. ASSUME NEW e \in Entry
      PROVE  "library" \in DOMAIN e
  BY DEF Entry
<1>2. "library" \notin DOMAIN NoEntry
  BY DEF NoEntry
<1> QED
  BY <1>1, <1>2

LEMMA FindInIs ==
    ASSUME NEW table \in Seq(Entry), NEW name
    PROVE  \/ /\ find_in(table, name) = NoEntry
              /\ \A i \in DOMAIN table : name \notin table[i].exports
           \/ \E i \in DOMAIN table :
                 find_in(table, name) = table[i] /\ name \in table[i].exports
<1> DEFINE I == {i \in 1..Len(table) : name \in table[i].exports}
<1>1. DOMAIN table = 1..Len(table) /\ Len(table) \in Nat
  BY LenProperties
<1>2. CASE I = {}
  BY <1>1, <1>2 DEF find_in, FirstOf, SelectInSeq
<1>3. CASE I # {}
  <2>1. PICK least : least = CHOOSE x \in I : \A y \in I : x <= y
    OBVIOUS
  <2>2. least \in I
    <3>1. I \in SUBSET Nat
      OBVIOUS
    <3> HIDE DEF I
    <3> QED
      BY <1>3, <2>1, <3>1, LeastOf
  <2>3. find_in(table, name) = FirstOf(table, least)
    BY <1>3, <2>1 DEF find_in, SelectInSeq, Min
  <2>4. least # 0
    BY <1>1, <2>2
  <2> QED
    BY <1>1, <2>2, <2>3, <2>4 DEF FirstOf
<1> QED
  BY <1>2, <1>3

LEMMA CatalogFindIs ==
    ASSUME NEW name
    PROVE  \/ catalog_find(name) = NoEntry /\ ProviderOf(name) = Unexported
           \/ /\ catalog_find(name) \in Entry /\ catalog_find(name) # NoEntry
              /\ ProviderOf(name) = <<catalog_find(name).soname, catalog_find(name).library>>
<1> DEFINE first == ps5link_catalog
           second == ps5link_catalog_extra
           both == first \o second
<1>1. /\ first \in Seq(Entry) /\ second \in Seq(Entry)
      /\ DOMAIN first = 1..Len(first) /\ Len(first) \in Nat
      /\ DOMAIN second = 1..Len(second) /\ Len(second) \in Nat
  BY CatalogAssumption, LenProperties
<1>2. both \in Seq(Entry) /\ Len(both) = Len(first) + Len(second)
  BY <1>1, ConcatProperties
<1>3. \A i \in 1 .. Len(first) + Len(second) :
          both[i] = IF i <= Len(first) THEN first[i] ELSE second[i - Len(first)]
  BY <1>1, ConcatProperties
<1>4. DOMAIN both = 1 .. Len(first) + Len(second)
  BY <1>1, <1>2, LenProperties
<1>5. \A i, j \in DOMAIN both : i # j => both[i].exports \intersect both[j].exports = {}
  BY OneExporterAssumption
<1>6. \A i \in DOMAIN first : i \in DOMAIN both /\ both[i] = first[i]
  BY <1>1, <1>3, <1>4
<1>7. \A i \in DOMAIN second : \E k \in DOMAIN both : both[k] = second[i]
  <2> TAKE i \in DOMAIN second
  <2>1. /\ Len(first) + i \in 1 .. Len(first) + Len(second)
        /\ ~(Len(first) + i <= Len(first)) /\ Len(first) + i - Len(first) = i
    BY <1>1
  <2>2. both[Len(first) + i] = second[Len(first) + i - Len(first)]
    BY <1>3, <2>1
  <2> QED
    BY <1>4, <2>1, <2>2
<1>8. ToSet(first) \union ToSet(second) \subseteq {both[k] : k \in DOMAIN both}
  BY <1>6, <1>7 DEF ToSet
<1> HIDE DEF both
<1>9. \A e, f \in ExportersOf(name) : e = f
  <2> SUFFICES ASSUME NEW e \in ExportersOf(name), NEW f \in ExportersOf(name)
               PROVE  e = f
    OBVIOUS
  <2>1. e \in ToSet(first) \union ToSet(second) /\ f \in ToSet(first) \union ToSet(second)
        /\ name \in e.exports /\ name \in f.exports
    BY DEF ExportersOf
  <2>2. PICK i \in DOMAIN both : e = both[i]
    BY <1>8, <2>1
  <2>3. PICK j \in DOMAIN both : f = both[j]
    BY <1>8, <2>1
  <2> QED
    BY <1>5, <2>1, <2>2, <2>3
<1>10. ASSUME NEW e \in ExportersOf(name)
       PROVE  /\ e \in Entry /\ e # NoEntry
              /\ ProviderOf(name) = <<e.soname, e.library>>
  <2>1. e \in Entry
    BY <1>1, ElementOfSeq DEF ExportersOf, ToSet
  <2>2. (CHOOSE f \in ExportersOf(name) : TRUE) = e
    BY <1>9
  <2> QED
    BY <2>1, <2>2, NoEntryIsNone DEF ProviderOf
<1>11. \/ find_in(first, name) = NoEntry /\ \A i \in DOMAIN first : name \notin first[i].exports
       \/ find_in(first, name) \in ExportersOf(name)
  BY <1>1, FindInIs DEF ExportersOf, ToSet
<1>12. \/ find_in(second, name) = NoEntry /\ \A i \in DOMAIN second : name \notin second[i].exports
       \/ find_in(second, name) \in ExportersOf(name)
  BY <1>1, FindInIs DEF ExportersOf, ToSet
<1>13. CASE catalog_find(name) \in ExportersOf(name)
  BY <1>10, <1>13
<1>14. CASE catalog_find(name) \notin ExportersOf(name)
  <2>1. find_in(first, name) = NoEntry
    BY <1>10, <1>11, <1>14 DEF catalog_find
  <2>2. catalog_find(name) = find_in(second, name)
    BY <2>1 DEF catalog_find
  <2>3. find_in(second, name) = NoEntry
    BY <1>12, <1>14, <2>2
  <2>4. ExportersOf(name) = {}
    <3> SUFFICES ASSUME NEW e \in ExportersOf(name)
                 PROVE  FALSE
      OBVIOUS
    <3>1. e # NoEntry
      BY <1>10
    <3>2. \A i \in DOMAIN first : name \notin first[i].exports
      BY <1>10, <1>11, <2>1
    <3>3. \A i \in DOMAIN second : name \notin second[i].exports
      BY <1>10, <1>12, <2>3
    <3> QED
      BY <3>2, <3>3 DEF ExportersOf, ToSet
  <2> QED
    BY <2>2, <2>3, <2>4 DEF ProviderOf
<1> QED
  BY <1>13, <1>14

------------------------------------------------------------------------------
\* The resolver's tables give every id one key, the one its imports name.
IdsLeadToKeys ==
    /\ NoneTwice(mods) /\ NoneTwice(libs)
    /\ \A k \in DOMAIN imports :
          /\ imports[k].module_id \in DOMAIN mods
          /\ mods[imports[k].module_id] = imports[k].soname
          /\ imports[k].library_id + 1 \in DOMAIN libs
          /\ libs[imports[k].library_id + 1] = <<imports[k].soname, imports[k].library>>

\* The symbols the first loop has looked at.
Seen(i, j) == pc # "collect" \/ i < oi \/ (i = oi /\ j < sj)

\* The list holds what is undefined among them, once each.
ListedOnceSeen ==
    /\ NoneTwice(undef_names)
    /\ \A k \in DOMAIN undef_names : undef_names[k] \in Referenced
    /\ \A i \in DOMAIN objects : \A j \in DOMAIN objects[i] :
          Seen(i, j) /\ is_undefined(objects[i][j]) =>
              \E k \in DOMAIN undef_names : undef_names[k] = objects[i][j].name

\* A name of the list the second loop has passed.
Passed(name) == \E k \in DOMAIN undef_names : k < next /\ undef_names[k] = name

Imported(name) == \E i \in DOMAIN imports : imports[i].plain_name = name
Reported(name) == \E i \in DOMAIN unresolved : unresolved[i] = name

\* Of the names passed, each that no object defines is in one of two lists,
\* once, by what the catalog answers for it.
PassedIsSettled ==
    /\ \A k \in DOMAIN undef_names : k < next =>
          \/ is_defined_anywhere(objects, undef_names[k])
          \/ Imported(undef_names[k]) \/ Reported(undef_names[k])
    /\ \A i \in DOMAIN imports :
          /\ Passed(imports[i].plain_name)
          /\ ~is_defined_anywhere(objects, imports[i].plain_name)
          /\ ProviderOf(imports[i].plain_name) = <<imports[i].soname, imports[i].library>>
    /\ \A i \in DOMAIN unresolved :
          /\ Passed(unresolved[i])
          /\ ~is_defined_anywhere(objects, unresolved[i])
          /\ ProviderOf(unresolved[i]) = Unexported
    /\ \A i, j \in DOMAIN imports : imports[i].plain_name = imports[j].plain_name => i = j
    /\ NoneTwice(unresolved)
    /\ pc = "done" => next > Len(undef_names)

ResolveInv == TypeOK /\ IdsLeadToKeys /\ ListedOnceSeen /\ PassedIsSettled

LEMMA ResolveStarts == Init => ResolveInv
<1> SUFFICES ASSUME Init
             PROVE  ResolveInv
  OBVIOUS
<1>1. /\ DOMAIN undef_names = {} /\ DOMAIN mods = {} /\ DOMAIN libs = {}
      /\ DOMAIN imports = {} /\ DOMAIN unresolved = {}
  BY DEF Init
<1>2. TypeOK
  <2>1. objects \in Seq(Seq(Symbol))
    BY ProgramAssumption DEF Init
  <2>2. Len(objects) \in Nat
    BY <2>1, LenProperties
  <2> QED
    BY <2>1, <2>2, EmptySeq DEF Init, TypeOK
<1>3. IdsLeadToKeys
  BY <1>1 DEF IdsLeadToKeys, NoneTwice
<1>4. ListedOnceSeen
  <2>1. objects \in Seq(Seq(Symbol))
    BY <1>2 DEF TypeOK
  <2>2. ASSUME NEW i \in DOMAIN objects, NEW j \in DOMAIN objects[i]
        PROVE  ~Seen(i, j)
    <3>1. i \in 1..Len(objects) /\ Len(objects) \in Nat /\ objects[i] \in Seq(Symbol)
      BY <2>1, LenProperties, ElementOfSeq
    <3>2. j \in 1..Len(objects[i]) /\ Len(objects[i]) \in Nat
      BY <3>1, LenProperties
    <3> QED
      BY <3>1, <3>2 DEF Init, Seen
  <2> QED
    BY <1>1, <2>2 DEF ListedOnceSeen, NoneTwice
<1>5. PassedIsSettled
  BY <1>1 DEF Init, PassedIsSettled, NoneTwice
<1> QED
  BY <1>2, <1>3, <1>4, <1>5 DEF ResolveInv

LEMMA ResolveUnchanged == ResolveInv /\ UNCHANGED vars => ResolveInv'
<1> SUFFICES ASSUME ResolveInv, UNCHANGED vars
             PROVE  ResolveInv'
  OBVIOUS
<1> USE DEF ResolveInv, vars
<1>1. TypeOK'
  BY DEF TypeOK
<1>2. IdsLeadToKeys'
  BY DEF IdsLeadToKeys
<1>3. ListedOnceSeen'
  BY DEF ListedOnceSeen, Seen, Referenced
<1>4. PassedIsSettled'
  BY DEF PassedIsSettled, Passed, Imported, Reported
<1> QED
  BY <1>1, <1>2, <1>3, <1>4

\* Where the sequences of the state end.
LEMMA ResolveLengths ==
    ASSUME TypeOK
    PROVE  /\ Len(objects) \in Nat /\ DOMAIN objects = 1..Len(objects)
           /\ \A i \in DOMAIN objects :
                 /\ objects[i] \in Seq(Symbol)
                 /\ Len(objects[i]) \in Nat /\ DOMAIN objects[i] = 1..Len(objects[i])
           /\ Len(undef_names) \in Nat /\ DOMAIN undef_names = 1..Len(undef_names)
           /\ \A k \in DOMAIN undef_names : undef_names[k] \in Name
           /\ oi \in Nat /\ sj \in Nat /\ next \in Nat
<1>1. objects \in Seq(Seq(Symbol)) /\ undef_names \in Seq(Name)
  BY DEF TypeOK
<1>2. Len(objects) \in Nat /\ DOMAIN objects = 1..Len(objects)
  BY <1>1, LenProperties
<1>3. \A i \in DOMAIN objects : objects[i] \in Seq(Symbol)
  BY <1>1, <1>2, ElementOfSeq
<1>4. \A i \in DOMAIN objects : Len(objects[i]) \in Nat /\ DOMAIN objects[i] = 1..Len(objects[i])
  BY <1>3, LenProperties
<1>5. /\ Len(undef_names) \in Nat /\ DOMAIN undef_names = 1..Len(undef_names)
      /\ \A k \in DOMAIN undef_names : undef_names[k] \in Name
  BY <1>1, LenProperties, ElementOfSeq
<1>6. oi \in Nat /\ sj \in Nat /\ next \in Nat
  BY <1>2, <1>5 DEF TypeOK
<1> QED
  BY <1>2, <1>3, <1>4, <1>5, <1>6

\* The first loop: a symbol's name is in the list once it has been looked at.
LEMMA CollectSymbolKeeps == ResolveInv /\ CollectSymbol => ResolveInv'
<1> SUFFICES ASSUME ResolveInv, CollectSymbol
             PROVE  ResolveInv'
  OBVIOUS
<1> USE DEF ResolveInv
<1>1. /\ pc = "collect" /\ oi <= Len(objects) /\ sj <= Len(objects[oi]) /\ sj' = sj + 1
      /\ objects' = objects /\ pc' = pc /\ oi' = oi /\ next' = next /\ mods' = mods
      /\ libs' = libs /\ imports' = imports /\ unresolved' = unresolved
  BY DEF CollectSymbol, InObject
<1>2. PICK sym : sym = objects[oi][sj]
  OBVIOUS
<1>3. undef_names' = IF is_undefined(sym) /\ ~already(sym.name)
                     THEN Append(undef_names, sym.name) ELSE undef_names
  BY <1>2 DEF CollectSymbol
<1>4. oi \in DOMAIN objects /\ sj \in DOMAIN objects[oi]
  BY <1>1, ResolveLengths DEF TypeOK
<1>5. sym \in Symbol
  BY <1>2, <1>4, ResolveLengths, ElementOfSeq
<1>6. \/ is_undefined(sym) /\ ~already(sym.name) /\ undef_names' = Append(undef_names, sym.name)
      \/ ~(is_undefined(sym) /\ ~already(sym.name)) /\ undef_names' = undef_names
  BY <1>3
<1>7. is_undefined(sym) => sym.name \in Name
  BY <1>5 DEF is_undefined, Symbol
<1>8. undef_names \in Seq(Name) /\ Len(undef_names) \in Nat
  BY ResolveLengths DEF TypeOK
<1>9. /\ undef_names' \in Seq(Name) /\ DOMAIN undef_names \subseteq DOMAIN undef_names'
      /\ \A k \in DOMAIN undef_names : undef_names'[k] = undef_names[k]
      /\ \A k \in DOMAIN undef_names' : k \in DOMAIN undef_names \/ undef_names'[k] = sym.name
      /\ \A k \in DOMAIN undef_names' : k \in DOMAIN undef_names \/ k = Len(undef_names) + 1
      /\ Len(undef_names') \in {Len(undef_names), Len(undef_names) + 1}
  <2>1. CASE is_undefined(sym) /\ undef_names' = Append(undef_names, sym.name)
    BY <1>7, <1>8, <2>1, AppendAt, AppendProperties
  <2>2. CASE undef_names' = undef_names
    BY <1>8, <2>2
  <2> QED
    BY <1>6, <2>1, <2>2
<1>10. TypeOK'
  <2>1. next \in 1..(Len(undef_names') + 1)
    BY <1>8, <1>9 DEF TypeOK
  <2> QED
    BY <1>1, <1>9, <2>1 DEF TypeOK
<1>11. IdsLeadToKeys'
  BY <1>1 DEF IdsLeadToKeys
<1>12. ListedOnceSeen'
  <2>1. NoneTwice(undef_names')
    <3>1. CASE ~already(sym.name) /\ is_undefined(sym)
               /\ undef_names' = Append(undef_names, sym.name)
      <4>1. \A k \in DOMAIN undef_names : undef_names[k] # sym.name
        BY <3>1, ResolveLengths DEF already, Contains
      <4>2. NoneTwice(undef_names)
        BY DEF ListedOnceSeen
      <4> QED
        BY <1>7, <1>8, <3>1, <4>1, <4>2, AppendAt DEF NoneTwice
    <3>2. CASE undef_names' = undef_names
      BY <3>2 DEF ListedOnceSeen
    <3> QED
      BY <1>6, <3>1, <3>2
  <2>2. is_undefined(sym) => sym.name \in Referenced
    BY <1>2, <1>4, <1>7 DEF Referenced
  <2>3. \A k \in DOMAIN undef_names' : undef_names'[k] \in Referenced
    <3>1. CASE is_undefined(sym) /\ undef_names' = Append(undef_names, sym.name)
      BY <1>9, <2>2, <3>1 DEF ListedOnceSeen
    <3>2. CASE undef_names' = undef_names
      BY <3>2 DEF ListedOnceSeen
    <3> QED
      BY <1>6, <3>1, <3>2
  <2>4. Referenced' = Referenced
    BY <1>1 DEF Referenced
  <2>5. is_undefined(sym) => \E k \in DOMAIN undef_names' : undef_names'[k] = sym.name
    <3>1. CASE is_undefined(sym) /\ undef_names' = Append(undef_names, sym.name)
      BY <1>7, <1>8, <3>1, AppendAt
    <3>2. CASE is_undefined(sym) /\ undef_names' = undef_names /\ already(sym.name)
      BY <3>2, ResolveLengths DEF already, Contains
    <3> QED
      BY <1>6, <3>1, <3>2
  <2>6. ASSUME NEW i \in DOMAIN objects, NEW j \in DOMAIN objects[i],
               Seen(i, j)', is_undefined(objects[i][j])
        PROVE  \E k \in DOMAIN undef_names' : undef_names'[k] = objects[i][j].name
    <3>1. i \in Nat /\ j \in Nat /\ oi \in Nat /\ sj \in Nat
      BY ResolveLengths
    <3>2. Seen(i, j) \/ (i = oi /\ j = sj)
      BY <1>1, <2>6, <3>1 DEF Seen
    <3>3. CASE Seen(i, j)
      BY <1>9, <2>6, <3>3 DEF ListedOnceSeen
    <3>4. CASE i = oi /\ j = sj
      BY <1>2, <2>5, <2>6, <3>4
    <3> QED
      BY <3>2, <3>3, <3>4
  <2> QED
    BY <1>1, <2>1, <2>3, <2>4, <2>6 DEF ListedOnceSeen
<1>13. PassedIsSettled'
  <2>1. \A name : Passed(name) => Passed(name)'
    BY <1>1, <1>9 DEF Passed
  <2>2. \A k \in DOMAIN undef_names' : k < next => k \in DOMAIN undef_names
    BY <1>8, <1>9, ResolveLengths DEF TypeOK
  <2>3. \A name : (Imported(name) => Imported(name)') /\ (Reported(name) => Reported(name)')
    BY <1>1 DEF Imported, Reported
  <2> QED
    BY <1>1, <1>9, <2>1, <2>2, <2>3 DEF PassedIsSettled
<1> QED
  BY <1>10, <1>11, <1>12, <1>13

LEMMA NextObjectKeeps == ResolveInv /\ NextObject => ResolveInv'
<1> SUFFICES ASSUME ResolveInv, NextObject
             PROVE  ResolveInv'
  OBVIOUS
<1> USE DEF ResolveInv
<1>1. /\ pc = "collect" /\ oi <= Len(objects) /\ sj > Len(objects[oi])
      /\ oi' = oi + 1 /\ sj' = 1 /\ objects' = objects /\ pc' = pc
      /\ undef_names' = undef_names /\ next' = next /\ mods' = mods /\ libs' = libs
      /\ imports' = imports /\ unresolved' = unresolved
  BY DEF NextObject
<1>2. TypeOK'
  BY <1>1, ResolveLengths DEF TypeOK
<1>3. IdsLeadToKeys'
  BY <1>1 DEF IdsLeadToKeys
<1>4. ListedOnceSeen'
  <2>1. ASSUME NEW i \in DOMAIN objects, NEW j \in DOMAIN objects[i], Seen(i, j)'
        PROVE  Seen(i, j)
    <3>1. i \in Nat /\ j \in 1..Len(objects[i]) /\ Len(objects[i]) \in Nat
          /\ oi \in Nat /\ sj \in Nat
      BY ResolveLengths
    <3>2. i < oi + 1
      BY <1>1, <2>1, <3>1 DEF Seen
    <3>3. i < oi \/ (i = oi /\ j < sj)
      BY <1>1, <3>1, <3>2
    <3> QED
      BY <3>3 DEF Seen
  <2> QED
    BY <1>1, <2>1 DEF ListedOnceSeen, Referenced
<1>5. PassedIsSettled'
  BY <1>1 DEF PassedIsSettled, Passed, Imported, Reported
<1> QED
  BY <1>2, <1>3, <1>4, <1>5

LEMMA EndCollectKeeps == ResolveInv /\ EndCollect => ResolveInv'
<1> SUFFICES ASSUME ResolveInv, EndCollect
             PROVE  ResolveInv'
  OBVIOUS
<1> USE DEF ResolveInv
<1>1. /\ pc = "collect" /\ oi > Len(objects) /\ pc' = "resolve"
      /\ oi' = oi /\ sj' = sj /\ objects' = objects
      /\ undef_names' = undef_names /\ next' = next /\ mods' = mods /\ libs' = libs
      /\ imports' = imports /\ unresolved' = unresolved
  BY DEF EndCollect
<1>2. TypeOK'
  BY <1>1 DEF TypeOK
<1>3. IdsLeadToKeys'
  BY <1>1 DEF IdsLeadToKeys
<1>4. ListedOnceSeen'
  <2>1. \A i \in DOMAIN objects : i < oi
    BY <1>1, ResolveLengths
  <2> QED
    BY <1>1, <2>1 DEF ListedOnceSeen, Referenced, Seen
<1>5. PassedIsSettled'
  BY <1>1 DEF PassedIsSettled, Passed, Imported, Reported
<1> QED
  BY <1>2, <1>3, <1>4, <1>5

\* The second loop.  The name it is at has not been passed.
LEMMA NameAtHand ==
    ASSUME ResolveInv, AtName
    PROVE  /\ next \in DOMAIN undef_names /\ undef_names[next] \in Name
           /\ undef_names[next] \in Referenced
           /\ ~Passed(undef_names[next])
           /\ ~Imported(undef_names[next]) /\ ~Reported(undef_names[next])
<1>1. next \in DOMAIN undef_names /\ undef_names[next] \in Name
  BY ResolveLengths DEF ResolveInv, AtName, TypeOK
<1>2. ~Passed(undef_names[next])
  BY <1>1, ResolveLengths DEF ResolveInv, Passed, ListedOnceSeen, NoneTwice
<1> QED
  BY <1>1, <1>2 DEF ResolveInv, ListedOnceSeen, PassedIsSettled, Imported, Reported

\* What passing a name means for the list.
LEMMA PassOne ==
    ASSUME ResolveInv, AtName, undef_names' = undef_names, next' = next + 1
    PROVE  /\ \A name : Passed(name)' <=> Passed(name) \/ name = undef_names[next]
           /\ \A k \in DOMAIN undef_names : k < next' => k < next \/ k = next
           /\ next' \in 1..(Len(undef_names) + 1)
<1>1. next \in DOMAIN undef_names /\ next \in Nat /\ DOMAIN undef_names = 1..Len(undef_names)
      /\ Len(undef_names) \in Nat
  BY NameAtHand, ResolveLengths DEF ResolveInv
<1>2. \A k \in DOMAIN undef_names : k < next + 1 <=> (k < next \/ k = next)
  BY <1>1
<1> QED
  BY <1>1, <1>2 DEF Passed

LEMMA ResolveDefinedKeeps == ResolveInv /\ ResolveDefined => ResolveInv'
<1> SUFFICES ASSUME ResolveInv, ResolveDefined
             PROVE  ResolveInv'
  OBVIOUS
<1> USE DEF ResolveInv
<1>1. /\ AtName /\ is_defined_anywhere(objects, undef_names[next]) /\ next' = next + 1
      /\ pc' = pc /\ oi' = oi /\ sj' = sj /\ objects' = objects
      /\ undef_names' = undef_names /\ mods' = mods /\ libs' = libs
      /\ imports' = imports /\ unresolved' = unresolved
  BY DEF ResolveDefined
<1>2. TypeOK'
  BY <1>1, PassOne DEF TypeOK
<1>3. IdsLeadToKeys'
  BY <1>1 DEF IdsLeadToKeys
<1>4. ListedOnceSeen'
  BY <1>1 DEF ListedOnceSeen, Seen, Referenced
<1>5. PassedIsSettled'
  <2>1. \A name : (Imported(name)' <=> Imported(name)) /\ (Reported(name)' <=> Reported(name))
    BY <1>1 DEF Imported, Reported
  <2>2. pc = "resolve"
    BY <1>1 DEF AtName
  <2> QED
    BY <1>1, <2>1, <2>2, PassOne DEF PassedIsSettled
<1> QED
  BY <1>2, <1>3, <1>4, <1>5

LEMMA ResolveUnknownKeeps == ResolveInv /\ ResolveUnknown => ResolveInv'
<1> SUFFICES ASSUME ResolveInv, ResolveUnknown
             PROVE  ResolveInv'
  OBVIOUS
<1> USE DEF ResolveInv
<1>1. /\ AtName /\ ~is_defined_anywhere(objects, undef_names[next]) /\ next' = next + 1
      /\ catalog_find(undef_names[next]) = NoEntry
      /\ unresolved' = Append(unresolved, undef_names[next])
      /\ pc' = pc /\ oi' = oi /\ sj' = sj /\ objects' = objects
      /\ undef_names' = undef_names /\ mods' = mods /\ libs' = libs /\ imports' = imports
  BY DEF ResolveUnknown
<1>2. PICK name \in Name : name = undef_names[next]
  BY <1>1, NameAtHand
<1>3. /\ unresolved \in Seq(Name) /\ unresolved' \in Seq(Name)
      /\ DOMAIN unresolved' = DOMAIN unresolved \union {Len(unresolved) + 1}
      /\ Len(unresolved) + 1 \notin DOMAIN unresolved
      /\ \A i \in DOMAIN unresolved : unresolved'[i] = unresolved[i]
      /\ unresolved'[Len(unresolved) + 1] = name
  <2>1. unresolved \in Seq(Name)
    BY DEF TypeOK
  <2>2. unresolved' = Append(unresolved, name)
    BY <1>1, <1>2
  <2> QED
    BY ONLY <2>1, <2>2, name \in Name, AppendAt
<1>4. TypeOK'
  BY <1>1, <1>3, PassOne DEF TypeOK
<1>5. IdsLeadToKeys'
  BY <1>1 DEF IdsLeadToKeys
<1>6. ListedOnceSeen'
  BY <1>1 DEF ListedOnceSeen, Seen, Referenced
<1>7. PassedIsSettled'
  <2>1. \A n : (Imported(n)' <=> Imported(n)) /\ (Reported(n)' <=> Reported(n) \/ n = name)
    BY <1>1, <1>3 DEF Imported, Reported
  <2>2. pc = "resolve"
    BY <1>1 DEF AtName
  <2>3. ProviderOf(name) = Unexported
    BY <1>1, <1>2, CatalogFindIs
  <2>4. NoneTwice(unresolved')
    BY <1>1, <1>2, <1>3, NameAtHand DEF PassedIsSettled, NoneTwice, Reported
  <2>5. \A k \in DOMAIN undef_names : k < next' =>
            \/ is_defined_anywhere(objects, undef_names[k])
            \/ Imported(undef_names[k])' \/ Reported(undef_names[k])'
    BY <1>1, <1>2, <2>1, PassOne DEF PassedIsSettled
  <2>6. \A i \in DOMAIN imports' : Passed(imports[i].plain_name)'
    BY <1>1, PassOne DEF PassedIsSettled
  <2>7. \A i \in DOMAIN unresolved' :
            \/ i \in DOMAIN unresolved /\ unresolved'[i] = unresolved[i]
            \/ unresolved'[i] = name
    BY <1>3
  <2>8. \A n : (Passed(n) \/ n = name) => Passed(n)'
    BY <1>1, <1>2, PassOne
  <2>9. ASSUME NEW i \in DOMAIN unresolved', NEW n, n = unresolved'[i]
        PROVE  Passed(n)' /\ ~is_defined_anywhere(objects, n) /\ ProviderOf(n) = Unexported
    <3>1. CASE n = name
      BY <1>1, <1>2, <2>3, <2>8, <3>1
    <3>2. CASE i \in DOMAIN unresolved /\ n = unresolved[i]
      BY <2>8, <3>2 DEF PassedIsSettled
    <3> QED
      BY <2>7, <2>9, <3>1, <3>2
  <2> QED
    BY <1>1, <2>2, <2>4, <2>5, <2>6, <2>9 DEF PassedIsSettled
<1> QED
  BY <1>4, <1>5, <1>6, <1>7

\* What an import adds to the tables: its keys under its ids, and itself behind
\* the imports there are.
Adds(name, entry, module, library, import) ==
    /\ name \in Name /\ AtName /\ name = undef_names[next] /\ ~is_defined_anywhere(objects, name)
    /\ next' = next + 1 /\ pc' = pc /\ oi' = oi /\ sj' = sj /\ objects' = objects
    /\ undef_names' = undef_names /\ unresolved' = unresolved
    /\ ProviderOf(name) = <<entry.soname, entry.library>>
    /\ mods' \in Seq(Soname) /\ NoneTwice(mods')
    /\ module \in DOMAIN mods' /\ mods'[module] = entry.soname
    /\ \A i \in DOMAIN mods : i \in DOMAIN mods' /\ mods'[i] = mods[i]
    /\ libs' \in Seq(Soname \X Library) /\ NoneTwice(libs')
    /\ library \in DOMAIN libs' /\ libs'[library] = <<entry.soname, entry.library>>
    /\ \A i \in DOMAIN libs : i \in DOMAIN libs' /\ libs'[i] = libs[i]
    /\ library - 1 + 1 = library
    /\ import.plain_name = name /\ import.soname = entry.soname
    /\ import.library = entry.library /\ import.module_id = module
    /\ import.library_id = library - 1
    /\ imports' \in Seq([plain_name : Name, soname : Soname, library : Library,
                         module_id : Nat \ {0}, library_id : Nat])
    /\ DOMAIN imports' = DOMAIN imports \union {Len(imports) + 1}
    /\ Len(imports) + 1 \notin DOMAIN imports
    /\ \A i \in DOMAIN imports : imports'[i] = imports[i]
    /\ imports'[Len(imports) + 1] = import

LEMMA ImportAdded ==
    ASSUME ResolveInv, ResolveImport
    PROVE  \E name, entry, module, library, import :
               Adds(name, entry, module, library, import)
<1> USE DEF ResolveInv
<1>1. /\ AtName /\ ~is_defined_anywhere(objects, undef_names[next]) /\ next' = next + 1
      /\ pc' = pc /\ oi' = oi /\ sj' = sj /\ objects' = objects
      /\ undef_names' = undef_names /\ unresolved' = unresolved
  BY DEF ResolveImport
<1>2. PICK name \in Name : name = undef_names[next]
  BY <1>1, NameAtHand
<1>3. PICK entry : entry = catalog_find(name)
  OBVIOUS
<1>4. entry \in Entry /\ entry # NoEntry /\ ProviderOf(name) = <<entry.soname, entry.library>>
  <2>1. entry # NoEntry
    BY <1>2, <1>3 DEF ResolveImport
  <2> QED
    BY <1>3, <2>1, CatalogFindIs
<1>5. PICK module : module = IndexOf(mods, entry.soname)
  OBVIOUS
<1>6. PICK library : library = IndexOf(libs, <<entry.soname, entry.library>>)
  OBVIOUS
<1>7. PICK import : import = [plain_name |-> name, soname |-> entry.soname,
                              library |-> entry.library,
                              module_id |-> module, library_id |-> library - 1]
  OBVIOUS
<1>8. /\ mods' = Enter(mods, entry.soname, module)
      /\ libs' = Enter(libs, <<entry.soname, entry.library>>, library)
      /\ imports' = Append(imports, import)
  BY <1>2, <1>3, <1>5, <1>6, <1>7 DEF ResolveImport, module_index, library_index
<1>9. entry.soname \in Soname /\ entry.library \in Library
  BY <1>4 DEF Entry
<1>10. /\ mods' \in Seq(Soname) /\ NoneTwice(mods')
       /\ module \in DOMAIN mods' /\ mods'[module] = entry.soname
       /\ \A i \in DOMAIN mods : i \in DOMAIN mods' /\ mods'[i] = mods[i]
  BY <1>5, <1>8, <1>9, EnterIs DEF TypeOK, IdsLeadToKeys
<1>11. /\ libs' \in Seq(Soname \X Library) /\ NoneTwice(libs')
       /\ library \in DOMAIN libs' /\ libs'[library] = <<entry.soname, entry.library>>
       /\ \A i \in DOMAIN libs : i \in DOMAIN libs' /\ libs'[i] = libs[i]
  <2>1. PICK key \in Soname \X Library : key = <<entry.soname, entry.library>>
    BY <1>9
  <2> DEFINE Keys == Soname \X Library
  <2>2. libs \in Seq(Keys) /\ NoneTwice(libs)
    BY DEF TypeOK, IdsLeadToKeys
  <2>3. key \in Keys /\ libs' = Enter(libs, key, IndexOf(libs, key))
    BY <1>6, <1>8, <2>1
  <2> HIDE DEF Keys
  <2>4. /\ libs' \in Seq(Keys) /\ NoneTwice(libs')
        /\ IndexOf(libs, key) \in DOMAIN libs' /\ libs'[IndexOf(libs, key)] = key
        /\ \A i \in DOMAIN libs : i \in DOMAIN libs' /\ libs'[i] = libs[i]
    BY <2>2, <2>3, EnterIs
  <2> QED
    BY <1>6, <2>1, <2>4 DEF Keys
<1>12. module \in Nat \ {0} /\ library \in Nat \ {0}
  <2>1. DOMAIN mods' = 1..Len(mods') /\ DOMAIN libs' = 1..Len(libs')
    BY <1>10, <1>11, LenProperties
  <2> QED
    BY <1>10, <1>11, <2>1
<1>13. library - 1 \in Nat /\ library - 1 + 1 = library
  BY <1>12
<1>14. import \in [plain_name : Name, soname : Soname, library : Library,
                   module_id : Nat \ {0}, library_id : Nat]
  BY <1>2, <1>7, <1>9, <1>12, <1>13
<1>15. /\ imports' \in Seq([plain_name : Name, soname : Soname, library : Library,
                             module_id : Nat \ {0}, library_id : Nat])
       /\ DOMAIN imports' = DOMAIN imports \union {Len(imports) + 1}
       /\ Len(imports) + 1 \notin DOMAIN imports
       /\ \A i \in DOMAIN imports : imports'[i] = imports[i]
       /\ imports'[Len(imports) + 1] = import
  <2> DEFINE Imports == [plain_name : Name, soname : Soname, library : Library,
                         module_id : Nat \ {0}, library_id : Nat]
  <2>1. imports \in Seq(Imports) /\ import \in Imports
    BY <1>14 DEF TypeOK
  <2> HIDE DEF Imports
  <2>2. /\ imports' \in Seq(Imports)
        /\ DOMAIN imports' = DOMAIN imports \union {Len(imports) + 1}
        /\ Len(imports) + 1 \notin DOMAIN imports
        /\ \A i \in DOMAIN imports : imports'[i] = imports[i]
        /\ imports'[Len(imports) + 1] = import
    BY <1>8, <2>1, AppendAt
  <2> QED
    BY <2>2 DEF Imports
<1>16. /\ import.plain_name = name /\ import.soname = entry.soname
       /\ import.library = entry.library /\ import.module_id = module
       /\ import.library_id = library - 1
  BY <1>7
<1>17. Adds(name, entry, module, library, import)
  BY <1>1, <1>2, <1>4, <1>10, <1>11, <1>13, <1>15, <1>16 DEF Adds
<1> QED
  BY <1>17

LEMMA ResolveImportKeeps == ResolveInv /\ ResolveImport => ResolveInv'
<1> SUFFICES ASSUME ResolveInv, ResolveImport
             PROVE  ResolveInv'
  OBVIOUS
<1> USE DEF ResolveInv
<1>1. PICK name, entry, module, library, import :
          Adds(name, entry, module, library, import)
  BY ImportAdded
<1> USE <1>1 DEF Adds
<1>2. \A i \in DOMAIN imports' :
          \/ i \in DOMAIN imports /\ imports'[i] = imports[i]
          \/ i = Len(imports) + 1 /\ imports'[i] = import
  BY <1>1
<1>3. TypeOK'
  BY <1>1, PassOne DEF TypeOK
<1>4. IdsLeadToKeys'
  <2> SUFFICES ASSUME NEW i \in DOMAIN imports'
               PROVE  /\ imports'[i].module_id \in DOMAIN mods'
                      /\ mods'[imports'[i].module_id] = imports'[i].soname
                      /\ imports'[i].library_id + 1 \in DOMAIN libs'
                      /\ libs'[imports'[i].library_id + 1]
                            = <<imports'[i].soname, imports'[i].library>>
    BY <1>1 DEF IdsLeadToKeys
  <2>1. CASE imports'[i] = import
    BY <1>1, <2>1
  <2>2. CASE i \in DOMAIN imports /\ imports'[i] = imports[i]
    BY <1>1, <2>2 DEF IdsLeadToKeys
  <2> QED
    BY <1>2, <2>1, <2>2
<1>5. ListedOnceSeen'
  BY <1>1 DEF ListedOnceSeen, Seen, Referenced
<1>6. PassedIsSettled'
  <2>1. \A n : (Imported(n)' <=> Imported(n) \/ n = name) /\ (Reported(n)' <=> Reported(n))
    <3>1. \A n : Reported(n)' <=> Reported(n)
      BY <1>1 DEF Reported
    <3>2. \A n : Imported(n)' <=> Imported(n) \/ n = name
      BY <1>1 DEF Imported
    <3> QED
      BY <3>1, <3>2
  <2>2. pc = "resolve"
    BY <1>1 DEF AtName
  <2>3. \A n : (Passed(n) \/ n = name) => Passed(n)'
    BY <1>1, PassOne
  <2>4. \A k \in DOMAIN undef_names : k < next' =>
            \/ is_defined_anywhere(objects, undef_names[k])
            \/ Imported(undef_names[k])' \/ Reported(undef_names[k])'
    BY <1>1, <2>1, PassOne DEF PassedIsSettled
  <2>5. ASSUME NEW i \in DOMAIN imports', NEW n, n = imports'[i].plain_name
        PROVE  /\ Passed(n)' /\ ~is_defined_anywhere(objects, n)
               /\ ProviderOf(n) = <<imports'[i].soname, imports'[i].library>>
    <3>1. CASE imports'[i] = import
      BY <1>1, <2>3, <2>5, <3>1
    <3>2. CASE i \in DOMAIN imports /\ imports'[i] = imports[i]
      BY <2>3, <2>5, <3>2 DEF PassedIsSettled
    <3> QED
      BY <1>2, <3>1, <3>2
  <2>6. ASSUME NEW i \in DOMAIN unresolved
        PROVE  Passed(unresolved[i])'
    <3>1. PICK n : n = unresolved[i]
      OBVIOUS
    <3>2. Passed(n)'
      BY <2>3, <3>1 DEF PassedIsSettled
    <3> QED
      BY <1>1, <3>1, <3>2
  <2>7. \A i, j \in DOMAIN imports' :
            imports'[i].plain_name = imports'[j].plain_name => i = j
    <3>1. \A i \in DOMAIN imports : imports[i].plain_name # name
      BY <1>1, NameAtHand DEF Imported
    <3> QED
      BY <1>1, <1>2, <3>1 DEF PassedIsSettled
  <2> QED
    <3>1. ASSUME NEW i \in DOMAIN unresolved
          PROVE  /\ Passed(unresolved[i])' /\ ~is_defined_anywhere(objects, unresolved[i])
                 /\ ProviderOf(unresolved[i]) = Unexported
      BY <2>6 DEF PassedIsSettled
    <3>2. NoneTwice(unresolved) /\ pc' # "done"
      BY <1>1, <2>2 DEF PassedIsSettled
    <3>3. ASSUME NEW i \in DOMAIN imports'
          PROVE  /\ Passed(imports[i].plain_name)'
                 /\ ~is_defined_anywhere(objects, imports'[i].plain_name)
                 /\ ProviderOf(imports'[i].plain_name)
                       = <<imports'[i].soname, imports'[i].library>>
      <4>1. PICK n : n = imports'[i].plain_name
        OBVIOUS
      <4>2. /\ Passed(n)' /\ ~is_defined_anywhere(objects, n)
            /\ ProviderOf(n) = <<imports'[i].soname, imports'[i].library>>
        BY ONLY <2>5, <4>1
      <4> QED
        BY ONLY <4>1, <4>2
    <3>4. objects' = objects /\ undef_names' = undef_names /\ unresolved' = unresolved
      BY <1>1
    <3> QED
      BY ONLY <2>4, <2>7, <3>1, <3>2, <3>3, <3>4 DEF PassedIsSettled
<1> QED
  BY <1>3, <1>4, <1>5, <1>6

LEMMA FinishKeeps == ResolveInv /\ Finish => ResolveInv'
<1> SUFFICES ASSUME ResolveInv, Finish
             PROVE  ResolveInv'
  OBVIOUS
<1> USE DEF ResolveInv
<1>1. /\ pc = "resolve" /\ next > Len(undef_names) /\ pc' = "done"
      /\ oi' = oi /\ sj' = sj /\ objects' = objects
      /\ undef_names' = undef_names /\ next' = next /\ mods' = mods /\ libs' = libs
      /\ imports' = imports /\ unresolved' = unresolved
  BY DEF Finish
<1>2. TypeOK'
  BY <1>1 DEF TypeOK
<1>3. IdsLeadToKeys'
  BY <1>1 DEF IdsLeadToKeys
<1>4. ListedOnceSeen'
  BY <1>1 DEF ListedOnceSeen, Seen, Referenced
<1>5. PassedIsSettled'
  BY <1>1 DEF PassedIsSettled, Passed, Imported, Reported
<1> QED
  BY <1>2, <1>3, <1>4, <1>5

LEMMA ResolveNextKeeps == ResolveInv /\ [Next]_vars => ResolveInv'
BY CollectSymbolKeeps, NextObjectKeeps, EndCollectKeeps, ResolveDefinedKeeps,
   ResolveUnknownKeeps, ResolveImportKeeps, FinishKeeps, ResolveUnchanged DEF Next

\* A link takes the resolver's steps, or leaves its state alone.
LEMMA LinkResolves ==
    /\ LinkInit => Init
    /\ [LinkNext]_LinkVars => [Next]_vars
<1>1. LinkInit => Init
  BY DEF LinkInit
<1>2. LinkNext => Next \/ UNCHANGED vars
  BY DEF LinkNext, ReadObject, ReadFails, EndRead, linker_resolve, ReportUnresolved,
         StartTables, BuildTables, WriteFails, WriteImage
<1>3. UNCHANGED LinkVars => UNCHANGED vars
  BY DEF LinkVars
<1> QED
  BY <1>1, <1>2, <1>3

THEOREM LinkImplementsResolve == LinkSpec => Spec
BY LinkResolves, PTL DEF LinkSpec, Spec

LEMMA ResolveAlways == Spec => []ResolveInv
BY ResolveStarts, ResolveNextKeeps, PTL DEF Spec

\* dynwriter.c keys its tables by id alone: two imports share an id exactly
\* when they share what the id stands for.
THEOREM IdsAlwaysNameOneModuleAndLibrary == LinkSpec => []IdsNameOneModuleAndLibrary
<1>1. ResolveInv => IdsNameOneModuleAndLibrary
  <2> SUFFICES ASSUME ResolveInv, NEW i \in DOMAIN imports, NEW j \in DOMAIN imports
               PROVE  /\ imports[i].module_id = imports[j].module_id
                             <=> imports[i].soname = imports[j].soname
                      /\ imports[i].library_id = imports[j].library_id
                             <=> /\ imports[i].soname = imports[j].soname
                                 /\ imports[i].library = imports[j].library
    BY DEF IdsNameOneModuleAndLibrary
  <2>1. NoneTwice(mods) /\ NoneTwice(libs)
    BY DEF ResolveInv, IdsLeadToKeys
  <2>2. \A k \in {i, j} :
          /\ imports[k].module_id \in DOMAIN mods
          /\ mods[imports[k].module_id] = imports[k].soname
          /\ imports[k].library_id + 1 \in DOMAIN libs
          /\ libs[imports[k].library_id + 1] = <<imports[k].soname, imports[k].library>>
    BY DEF ResolveInv, IdsLeadToKeys
  <2>3. \A k \in {i, j} : imports[k].library_id \in Nat
    <3> DEFINE Imports == [plain_name : Name, soname : Soname, library : Library,
                           module_id : Nat \ {0}, library_id : Nat]
    <3>1. imports \in Seq(Imports)
      BY DEF ResolveInv, TypeOK
    <3> HIDE DEF Imports
    <3>2. \A k \in DOMAIN imports : imports[k] \in Imports
      BY <3>1, ElementOfSeq, LenProperties
    <3> QED
      BY <3>2 DEF Imports
  <2>4. imports[i].library_id + 1 = imports[j].library_id + 1
            => imports[i].library_id = imports[j].library_id
    BY <2>3
  <2> QED
    BY <2>1, <2>2, <2>4 DEF NoneTwice
<1> QED
  BY <1>1, LinkImplementsResolve, ResolveAlways, PTL
------------------------------------------------------------------------------
\* What the resolver answers, against Resolution.

\* The function of the imports: what each name imported is bound to.
Bound == [name \in ImportedNames |-> ImportOf(name)]

BindsProviders == Bound = [name \in ImportedNames |-> ProviderOf(name)]

LEMMA BoundIsProvider == ResolveInv => BindsProviders
<1> SUFFICES ASSUME ResolveInv
             PROVE  BindsProviders
  OBVIOUS
<1>1. ASSUME NEW name \in ImportedNames
      PROVE  ImportOf(name) = ProviderOf(name)
  <2>1. PICK k \in DOMAIN imports : imports[k].plain_name = name
    BY DEF ImportedNames
  <2>2. PICK i : i = CHOOSE n \in DOMAIN imports : imports[n].plain_name = name
    OBVIOUS
  <2>3. i \in DOMAIN imports /\ imports[i].plain_name = name
    BY <2>1, <2>2
  <2> QED
    BY <2>2, <2>3 DEF ImportOf, ResolveInv, PassedIsSettled
<1> QED
  BY <1>1 DEF Bound, BindsProviders

\* A name is imported, reported, or its turn is still to come.
LEMMA WantedNames ==
    ASSUME ResolveInv
    PROVE  /\ \A n : n \in ImportedNames <=> Imported(n)
           /\ \A n : n \in ToSet(unresolved) <=> Reported(n)
           /\ \A n \in Wanted : pc = "done" => Imported(n) \/ Reported(n)
           /\ \A n : Imported(n) \/ Reported(n) => n \in Wanted
<1>1. \A n : (n \in ImportedNames <=> Imported(n)) /\ (n \in ToSet(unresolved) <=> Reported(n))
  BY DEF ImportedNames, Imported, ToSet, Reported
<1>2. ASSUME NEW n \in Wanted, pc = "done"
      PROVE  Imported(n) \/ Reported(n)
  <2>1. PICK i \in DOMAIN objects : \E j \in DOMAIN objects[i] :
            is_undefined(objects[i][j]) /\ objects[i][j].name = n
    BY DEF Wanted, Referenced
  <2>2. PICK k \in DOMAIN undef_names : undef_names[k] = n
    BY <1>2, <2>1 DEF ResolveInv, ListedOnceSeen, Seen
  <2>3. k < next
    BY <1>2, ResolveLengths DEF ResolveInv, PassedIsSettled
  <2>4. ~is_defined_anywhere(objects, n)
    BY DEF Wanted
  <2> QED
    BY <2>2, <2>3, <2>4 DEF ResolveInv, PassedIsSettled
<1>3. ASSUME NEW n, Passed(n), ~is_defined_anywhere(objects, n)
      PROVE  n \in Wanted
  BY <1>3 DEF Passed, ResolveInv, ListedOnceSeen, Wanted
<1>4. ASSUME NEW n, Imported(n) \/ Reported(n)
      PROVE  n \in Wanted
  BY <1>3, <1>4 DEF Imported, Reported, ResolveInv, PassedIsSettled
<1> QED
  BY <1>1, <1>2, <1>4

\* No name is left when the resolver returns, and none is settled twice.
THEOREM AlwaysSettlesEachNameOnce == LinkSpec => []EachNameSettledOnce
<1>1. ResolveInv => EachNameSettledOnce
  <2> SUFFICES ASSUME ResolveInv
               PROVE  EachNameSettledOnce
    OBVIOUS
  <2>1. pc = "done" => Abstract!Open = {}
    BY WantedNames DEF Abstract!Open
  <2>2. IsInjective(unresolved)
    BY DEF ResolveInv, PassedIsSettled, NoneTwice, IsInjective
  <2> QED
    BY <2>1, <2>2 DEF ResolveInv, PassedIsSettled, EachNameSettledOnce
<1> QED
  BY <1>1, LinkImplementsResolve, ResolveAlways, PTL

\* What the walks over the relocations are given: with nothing left unresolved the
\* imports are the names that some object references and none defines, each once.
ImportsAreTheWanted ==
    pc = "done" /\ unresolved = <<>> =>
        /\ ImportedNames = Wanted
        /\ \A i, j \in DOMAIN imports : imports[i].plain_name = imports[j].plain_name => i = j

\* Relocate starts from these names (linker.c hands them to dynwriter.c), and its
\* theorems use nothing else of them.
THEOREM ImportsAlwaysAreTheWanted == LinkSpec => []ImportsAreTheWanted
<1>1. ResolveInv => ImportsAreTheWanted
  <2> SUFFICES ASSUME ResolveInv, pc = "done", unresolved = <<>>
               PROVE  /\ ImportedNames = Wanted
                      /\ \A i, j \in DOMAIN imports :
                             imports[i].plain_name = imports[j].plain_name => i = j
    BY DEF ImportsAreTheWanted
  <2>1. ToSet(unresolved) = {}
    BY DEF ToSet
  <2>2. ImportedNames = Wanted
    BY <2>1, WantedNames
  <2> QED
    BY <2>2 DEF ResolveInv, PassedIsSettled
<1> QED
  BY <1>1, LinkImplementsResolve, ResolveAlways, PTL

\* The resolver's steps are Resolution's: a name is bound to its provider or
\* reported, or nothing of what Resolution sees changes.
LEMMA StepsOfResolution == ResolveInv /\ ResolveInv' /\ [Next]_vars => [Abstract!Next]_(Abstract!vars)
<1> SUFFICES ASSUME ResolveInv, ResolveInv', [Next]_vars
             PROVE  [Abstract!Next]_(Abstract!vars)
  OBVIOUS
<1>1. Wanted' = Wanted
  <2>1. objects' = objects
    BY DEF Next, CollectSymbol, NextObject, EndCollect, ResolveDefined, ResolveUnknown,
           ResolveImport, Finish, vars
  <2> QED
    BY <2>1 DEF Wanted, Referenced
<1>2. CASE imports' = imports /\ unresolved' = unresolved
  BY <1>1, <1>2 DEF Abstract!vars, ImportedNames, ImportOf
<1>3. CASE ResolveUnknown
  <2>1. /\ AtName /\ imports' = imports
        /\ ~is_defined_anywhere(objects, undef_names[next])
        /\ unresolved' = Append(unresolved, undef_names[next])
        /\ catalog_find(undef_names[next]) = NoEntry
    BY <1>3 DEF ResolveUnknown
  <2>2. PICK name \in Name : name = undef_names[next]
    BY <2>1, NameAtHand
  <2>3. name \in Wanted /\ ~Imported(name) /\ ~Reported(name)
    BY <2>1, <2>2, NameAtHand DEF Wanted
  <2>4. name \in Abstract!Open
    BY <2>3, WantedNames DEF Abstract!Open
  <2>5. ToSet(unresolved') = ToSet(unresolved) \union {name}
    <3>1. unresolved \in Seq(Name)
      BY DEF ResolveInv, TypeOK
    <3> QED
      BY <2>1, <2>2, <3>1, AppendAt DEF ToSet
  <2>6. ProviderOf(name) = Unexported
    BY <2>1, <2>2, CatalogFindIs
  <2>7. Abstract!ReportName(name)
    BY <1>1, <2>1, <2>5, <2>6 DEF Abstract!ReportName, ImportedNames, ImportOf
  <2> QED
    BY <2>4, <2>7 DEF Abstract!Next
<1>4. CASE ResolveImport
  <2>1. /\ AtName /\ unresolved' = unresolved
        /\ ~is_defined_anywhere(objects, undef_names[next])
        /\ catalog_find(undef_names[next]) # NoEntry
    BY <1>4 DEF ResolveImport
  <2>2. PICK name \in Name : name = undef_names[next]
    BY <2>1, NameAtHand
  <2>3. name \in Wanted /\ ~Imported(name) /\ ~Reported(name)
    BY <2>1, <2>2, NameAtHand DEF Wanted
  <2>4. name \in Abstract!Open
    BY <2>3, WantedNames DEF Abstract!Open
  <2>5. PICK n, entry, module, library, import : Adds(n, entry, module, library, import)
    BY <1>4, ImportAdded
  <2>6. ImportedNames' = ImportedNames \union {name}
    BY <2>2, <2>5 DEF Adds, ImportedNames
  <2>7. ProviderOf(name) # Unexported
    <3>1. ProviderOf(name) = <<entry.soname, entry.library>>
      BY <2>2, <2>5 DEF Adds
    <3> QED
      BY <3>1 DEF Unexported
  <2>8. BindsProviders /\ BindsProviders'
    BY BoundIsProvider, PTL
  <2>9. /\ Bound = [m \in ImportedNames |-> ProviderOf(m)]
        /\ Bound' = [m \in ImportedNames' |-> ProviderOf(m)]
    BY <2>8 DEF BindsProviders
  <2>10. Bound' = [m \in DOMAIN Bound \union {name} |->
                      IF m = name THEN ProviderOf(name) ELSE Bound[m]]
    BY <2>6, <2>9
  <2>11. Abstract!BindName(name)
    BY <1>1, <2>1, <2>7, <2>10 DEF Abstract!BindName, Bound
  <2> QED
    BY <2>4, <2>11 DEF Abstract!Next
<1>5. ResolveUnknown \/ ResolveImport \/ (imports' = imports /\ unresolved' = unresolved)
  BY DEF Next, CollectSymbol, NextObject, EndCollect, ResolveDefined, Finish, vars
<1> QED
  BY <1>2, <1>3, <1>4, <1>5

\* linker.h: each name referenced and not defined is bound to its exporter or
\* reported, once, whatever the objects, their order and the catalog.
THEOREM LinkRefinesResolution == LinkSpec => RefinesResolution
<1>1. Init => Abstract!Init
  BY DEF Init, Abstract!Init, ImportedNames, ToSet
<1>2. Spec => RefinesResolution
  BY <1>1, ResolveAlways, StepsOfResolution, PTL
     DEF Spec, RefinesResolution, Abstract!Spec
<1> QED
  BY <1>2, LinkImplementsResolve, PTL

------------------------------------------------------------------------------
\* The tables.  A symbol hashed in is the head of its bucket, or follows a
\* smaller one of its bucket; whatever is not hashed in is in no chain.
ChainsHold ==
    phase # "idle" =>
        /\ buckets \in [0..Len(imports) -> 0..Len(imports)]
        /\ chains \in [0..Len(imports) -> 0..Len(imports)]
        /\ phase = "hash" => at \in 0..Len(imports)
        /\ \A b \in 0..Len(imports) : buckets[b] # 0 =>
              buckets[b] \in T!HashedIn /\ T!Bucket(buckets[b]) = b
        /\ \A s \in 0..Len(imports) : s \notin T!HashedIn => chains[s] = 0
        /\ \A s \in T!HashedIn : chains[s] # 0 =>
              /\ chains[s] > s /\ chains[s] \in T!HashedIn
              /\ T!Bucket(chains[s]) = T!Bucket(s)
        /\ \A s \in T!HashedIn : buckets[T!Bucket(s)] # s =>
              \E r \in T!HashedIn : r < s /\ chains[r] = s

\* The records: each module and each library met so far, once.
RecordOf(k) == [id |-> imports[k].library_id, module_id |-> imports[k].module_id]

RecordsMet == IF phase = "records" THEN {k \in DOMAIN imports : k < at} ELSE DOMAIN imports

RecordsHold ==
    /\ phase \in {"idle", "hash"} => mod_recs = <<>> /\ lib_recs = <<>>
    /\ phase = "records" => at \in 1..(Len(imports) + 1)
    /\ mod_recs \in Seq(Nat \ {0}) /\ NoneTwice(mod_recs)
    /\ lib_recs \in Seq([id : Nat, module_id : Nat \ {0}])
    /\ \A l, m \in DOMAIN lib_recs : lib_recs[l].id = lib_recs[m].id => l = m
    /\ \A l \in DOMAIN lib_recs : \E k \in DOMAIN imports : lib_recs[l] = RecordOf(k)
    /\ \A l \in DOMAIN lib_recs : \E m \in DOMAIN mod_recs : mod_recs[m] = lib_recs[l].module_id
    /\ phase \in {"records", "dynamic", "done"} =>
          \A k \in RecordsMet : \E l \in DOMAIN lib_recs : lib_recs[l] = RecordOf(k)

\* The library records whose turn in the dynamic table is over.
Emitted(l) ==
    \E m \in DOMAIN mod_recs :
        /\ mod_recs[m] = lib_recs[l].module_id
        /\ m < at \/ (m = at /\ l < lib_at)

\* The entry at q opens the list of a module, and p is in that list.
Opens(q, p, module_id) ==
    /\ dynv[q] = T!Entry("NEEDED_MODULE", module_id)
    /\ \A r \in (q + 1)..p : dynv[r].tag # "NEEDED_MODULE"

\* The dynamic table: the libraries emitted, once each, behind their modules.
DynvHolds ==
    /\ dynv \in Seq([tag : {"NEEDED", "NEEDED_MODULE", "IMPORT_LIB", "IMPORT_LIB_ATTR"},
                     id : Nat])
    /\ phase \in {"idle", "hash", "records"} => dynv = <<>> /\ lib_at = 0
    /\ phase \in {"dynamic", "done"} =>
          /\ at \in 1..(Len(mod_recs) + 1)
          /\ lib_at \in 0..(Len(lib_recs) + 1)
          /\ \A l \in DOMAIN lib_recs : Emitted(l) =>
                \E p \in DOMAIN dynv : dynv[p] = T!Entry("IMPORT_LIB", lib_recs[l].id)
          /\ \A p \in DOMAIN dynv : dynv[p].tag = "IMPORT_LIB" =>
                \E l \in DOMAIN lib_recs :
                    /\ Emitted(l) /\ dynv[p].id = lib_recs[l].id
                    /\ \E q \in DOMAIN dynv : q < p /\ Opens(q, p, lib_recs[l].module_id)
          /\ \A p, q \in DOMAIN dynv :
                dynv[p].tag = "IMPORT_LIB" /\ dynv[q] = dynv[p] => p = q
          /\ lib_at > 0 => /\ at <= Len(mod_recs)
                           /\ \E q \in DOMAIN dynv : Opens(q, Len(dynv), mod_recs[at])
    /\ phase = "done" => at > Len(mod_recs) /\ lib_at = 0

\* The driver hands over what is resolved, and only that.
DriverHolds ==
    /\ stage \in {"read", "resolve", "write", "exit"}
    /\ status \in {"none", "success", "failure"}
    /\ nread \in 0..Len(objects)
    /\ phase \in {"idle", "hash", "records", "dynamic", "done"} /\ at \in Nat
    /\ stage \in {"read", "resolve"} => phase = "idle" /\ status = "none"
    /\ stage = "resolve" => nread = Len(objects)
    /\ stage = "write" => phase # "idle" /\ status = "none"
    /\ phase = "idle" => buckets = <<>> /\ chains = <<>>
    /\ phase # "idle" =>
          /\ pc = "done" /\ unresolved = <<>> /\ nread = Len(objects)
          /\ hashes \in [DOMAIN imports -> Hash]
    /\ status = "success" => phase = "done" /\ EntryFound

LinkInv ==
    /\ ResolveInv /\ DriverHolds
    /\ ChainsHold /\ RecordsHold /\ DynvHolds

\* What the writer is handed: the ids of the imports, and their hashes.
LEMMA HandedOverIs ==
    ASSUME ResolveInv, hashes \in [DOMAIN imports -> Hash]
    PROVE  /\ Len(imports) \in Nat /\ DOMAIN imports = 1..Len(imports)
           /\ HandedOver \in Seq(T!Import)
           /\ DOMAIN HandedOver = 1..Len(imports) /\ Len(HandedOver) = Len(imports)
           /\ \A k \in DOMAIN imports :
                 /\ HandedOver[k].module_id = imports[k].module_id
                 /\ HandedOver[k].library_id = imports[k].library_id
                 /\ HandedOver[k].hash \in Nat
                 /\ imports[k].module_id \in Nat \ {0} /\ imports[k].library_id \in Nat
<1> DEFINE Imports == [plain_name : Name, soname : Soname, library : Library,
                       module_id : Nat \ {0}, library_id : Nat]
<1>1. imports \in Seq(Imports)
  BY DEF ResolveInv, TypeOK
<1> HIDE DEF Imports
<1>2. Len(imports) \in Nat /\ DOMAIN imports = 1..Len(imports)
  BY <1>1, LenProperties
<1>3. \A k \in DOMAIN imports : imports[k] \in Imports
  BY <1>1, <1>2, ElementOfSeq
<1>4. \A k \in DOMAIN imports : hashes[k] \in Nat
  BY HashAssumption
<1>5. \A k \in DOMAIN imports :
          imports[k].module_id \in Nat \ {0} /\ imports[k].library_id \in Nat
  BY <1>3 DEF Imports
<1>6. \A k \in DOMAIN imports :
          /\ HandedOver[k] = [hash |-> hashes[k], module_id |-> imports[k].module_id,
                              library_id |-> imports[k].library_id]
          /\ HandedOver[k] \in T!Import
  BY <1>4, <1>5 DEF HandedOver, T!Import
<1>7. HandedOver = [k \in 1..Len(imports) |-> HandedOver[k]]
  BY <1>2 DEF HandedOver
<1>8. HandedOver \in Seq(T!Import) /\ Len(HandedOver) = Len(imports)
  BY <1>2, <1>6, <1>7, IsASeq, LenProperties
<1> QED
  BY <1>2, <1>4, <1>5, <1>6, <1>7, <1>8

LEMMA LinkStarts == LinkInit => LinkInv
<1> SUFFICES ASSUME LinkInit
             PROVE  LinkInv
  OBVIOUS
<1>1. /\ phase = "idle" /\ at = 0 /\ lib_at = 0 /\ buckets = <<>> /\ chains = <<>>
      /\ mod_recs = <<>> /\ lib_recs = <<>> /\ dynv = <<>>
      /\ stage = "read" /\ nread = 0 /\ status = "none"
  BY DEF LinkInit, T!Init
<1>2. ResolveInv
  BY LinkResolves, ResolveStarts
<1>3. DriverHolds
  BY <1>1, <1>2, ResolveLengths DEF ResolveInv, DriverHolds
<1>4. ChainsHold
  BY <1>1 DEF ChainsHold
<1>5. RecordsHold
  BY <1>1 DEF RecordsHold, NoneTwice
<1>6. DynvHolds
  BY <1>1 DEF DynvHolds
<1> QED
  BY <1>2, <1>3, <1>4, <1>5, <1>6 DEF LinkInv

\* Before the tables are begun there is nothing in them.
LEMMA TablesIdle ==
    ASSUME LinkInv, phase = "idle", UNCHANGED tables
    PROVE  ChainsHold' /\ RecordsHold' /\ DynvHolds'
<1> USE DEF LinkInv, tables
<1>1. ChainsHold'
  BY DEF ChainsHold
<1>2. RecordsHold'
  BY DEF RecordsHold, NoneTwice
<1>3. DynvHolds'
  BY DEF DynvHolds
<1> QED
  BY <1>1, <1>2, <1>3

LEMMA TablesUnchanged ==
    ASSUME LinkInv, UNCHANGED <<vars, hashes, tables>>
    PROVE  ChainsHold' /\ RecordsHold' /\ DynvHolds'
<1> USE DEF LinkInv, tables, vars
<1>1. HandedOver' = HandedOver
  BY DEF HandedOver
<1>2. ChainsHold'
  BY <1>1 DEF ChainsHold, T!HashedIn, T!Bucket, T!nbucket, T!sym_count, T!Symbol0
<1>3. RecordsHold'
  BY DEF RecordsHold, NoneTwice, RecordOf, RecordsMet
<1>4. DynvHolds'
  BY DEF DynvHolds, Emitted, Opens
<1> QED
  BY <1>2, <1>3, <1>4

\* The driver's own steps.
LEMMA DriverSteps ==
    ASSUME LinkInv,
           \/ ReadObject \/ ReadFails \/ EndRead \/ linker_resolve
           \/ ReportUnresolved \/ WriteFails \/ WriteImage
           \/ UNCHANGED LinkVars
    PROVE  DriverHolds' /\ ChainsHold' /\ RecordsHold' /\ DynvHolds'
<1> USE DEF LinkInv
<1>1. UNCHANGED tables
  BY DEF ReadObject, ReadFails, EndRead, linker_resolve, ReportUnresolved, WriteFails,
         WriteImage, LinkVars
<1>2. Len(objects) \in Nat
  BY ResolveLengths DEF ResolveInv
<1>3. CASE linker_resolve
  <2>1. objects' = objects /\ phase = "idle"
    BY <1>3 DEF linker_resolve, DriverHolds, Next, CollectSymbol, NextObject, EndCollect,
                ResolveDefined, ResolveUnknown, ResolveImport, Finish
  <2>2. DriverHolds'
    BY <1>1, <1>3, <2>1 DEF DriverHolds, linker_resolve, driver, tables
  <2> QED
    BY <1>1, <2>1, <2>2, TablesIdle
<1>4. CASE UNCHANGED <<vars, hashes>>
  <2>1. DriverHolds'
    <3> USE <1>1, <1>2, <1>4 DEF vars, tables, DriverHolds
    <3>1. CASE ReadObject
      BY <3>1 DEF ReadObject
    <3>2. CASE ReadFails
      BY <3>2 DEF ReadFails, Exit
    <3>3. CASE EndRead
      BY <3>3 DEF EndRead
    <3>4. CASE ReportUnresolved
      BY <3>4 DEF ReportUnresolved, Resolved, Exit
    <3>5. CASE WriteFails
      BY <3>5 DEF WriteFails, Exit
    <3>6. CASE WriteImage
      BY <3>6 DEF WriteImage, Exit, EntryFound
    <3>7. CASE UNCHANGED LinkVars
      BY <3>7 DEF LinkVars, driver, EntryFound
    <3> QED
      BY <1>3, <3>1, <3>2, <3>3, <3>4, <3>5, <3>6, <3>7 DEF linker_resolve, driver
  <2> QED
    BY <1>1, <1>4, <2>1, TablesUnchanged
<1> QED
  BY <1>3, <1>4 DEF ReadObject, ReadFails, EndRead, ReportUnresolved, WriteFails, WriteImage,
                    Exit, LinkVars, driver

\* Both arrays are empty when the tables are begun.
LEMMA StartTablesKeeps ==
    ASSUME LinkInv, StartTables
    PROVE  DriverHolds' /\ ChainsHold' /\ RecordsHold' /\ DynvHolds'
<1> USE DEF LinkInv
<1>1. /\ stage = "resolve" /\ pc = "done" /\ unresolved = <<>>
      /\ hashes' \in [DOMAIN imports -> Hash] /\ stage' = "write"
      /\ UNCHANGED vars /\ nread' = nread /\ status' = status
      /\ phase = "idle" /\ phase' = "hash" /\ at' = Len(imports)
      /\ buckets' = [b \in 0..Len(imports) |-> 0]
      /\ chains' = [s \in 0..Len(imports) |-> 0]
      /\ lib_at' = lib_at /\ mod_recs' = mod_recs /\ lib_recs' = lib_recs /\ dynv' = dynv
  BY DEF StartTables, Resolved, Incomplete, T!Begin
<1>2. imports' = imports /\ objects' = objects /\ pc' = pc /\ unresolved' = unresolved
  BY <1>1 DEF vars
<1>3. Len(imports) \in Nat /\ DOMAIN imports = 1..Len(imports)
  <2> DEFINE Imports == [plain_name : Name, soname : Soname, library : Library,
                         module_id : Nat \ {0}, library_id : Nat]
  <2>1. imports \in Seq(Imports)
    BY DEF ResolveInv, TypeOK
  <2> HIDE DEF Imports
  <2> QED
    BY <2>1, LenProperties
<1>4. DriverHolds'
  BY <1>1, <1>2, <1>3 DEF DriverHolds
<1>5. ChainsHold'
  <2>1. T!HashedIn' = {}
    BY <1>1, <1>3 DEF T!HashedIn, T!Symbol0
  <2> QED
    BY <1>1, <1>2, <1>3, <2>1 DEF ChainsHold
<1>6. RecordsHold'
  BY <1>1 DEF RecordsHold, NoneTwice
<1>7. DynvHolds'
  BY <1>1 DEF DynvHolds
<1> QED
  BY <1>4, <1>5, <1>6, <1>7

\* While the tables are built the driver waits, and what it handed over stays.
LEMMA BuildingTables ==
    ASSUME LinkInv, BuildTables
    PROVE  /\ T!Next /\ phase # "idle" /\ HandedOver' = HandedOver
           /\ imports' = imports /\ hashes' = hashes /\ UNCHANGED driver /\ UNCHANGED vars
           /\ stage = "write" /\ hashes \in [DOMAIN imports -> Hash]
<1>1. T!Next /\ UNCHANGED <<vars, driver>> /\ stage = "write"
  BY DEF BuildTables
<1>2. imports' = imports /\ hashes' = hashes
  BY <1>1 DEF vars, driver
<1>3. phase # "idle" /\ hashes \in [DOMAIN imports -> Hash]
  BY <1>1 DEF LinkInv, DriverHolds
<1> QED
  BY <1>1, <1>2, <1>3 DEF HandedOver

LEMMA DriverWaits ==
    ASSUME LinkInv, BuildTables,
           phase' \in {"hash", "records", "dynamic", "done"}, at' \in Nat
    PROVE  DriverHolds'
<1>1. UNCHANGED driver /\ UNCHANGED vars /\ stage = "write" /\ phase # "idle"
  BY BuildingTables
<1> QED
  BY <1>1 DEF LinkInv, DriverHolds, driver, vars

\* The bucket of a symbol, as a function that does not change.
LEMMA BucketsStay ==
    ASSUME LinkInv, BuildTables
    PROVE  \E bucket \in [1..Len(imports) -> 0..Len(imports)] :
              \A s \in 1..Len(imports) : T!Bucket(s) = bucket[s] /\ T!Bucket(s)' = bucket[s]
<1> USE DEF LinkInv
<1>1. /\ Len(imports) \in Nat /\ DOMAIN imports = 1..Len(imports)
      /\ Len(HandedOver) = Len(imports)
      /\ \A s \in 1..Len(imports) : HandedOver[s].hash \in Nat
  BY BuildingTables, HandedOverIs
<1>2. PICK count \in Nat : count = Len(imports)
  BY <1>1
<1>3. \A hash \in Nat : hash % (count + 1) \in 0..count
  OBVIOUS
<1>4. \A s \in 1..count : T!Bucket(s) = HandedOver[s].hash % (count + 1)
  BY <1>1, <1>2 DEF T!Bucket, T!nbucket, T!sym_count
<1>5. \A s \in 1..count : T!Bucket(s)' = T!Bucket(s)
  BY BuildingTables DEF T!Bucket, T!nbucket, T!sym_count
<1>6. \A s \in 1..count : T!Bucket(s) \in 0..count
  BY <1>1, <1>2, <1>3, <1>4
<1>7. PICK bucket : bucket = [s \in 1..count |-> T!Bucket(s)]
  OBVIOUS
<1> QED
  BY <1>2, <1>5, <1>6, <1>7

\* A symbol hashed in becomes the head of its bucket, ahead of the old one.
LEMMA HashSymbolKeeps ==
    ASSUME LinkInv, BuildTables, T!HashSymbol
    PROVE  DriverHolds' /\ ChainsHold' /\ RecordsHold' /\ DynvHolds'
<1> USE DEF LinkInv
<1>1. PICK count \in Nat : count = Len(imports) /\ count = Len(imports')
  BY BuildingTables, HandedOverIs
<1>2. PICK bucket \in [1..count -> 0..count] :
          \A s \in 1..count : T!Bucket(s) = bucket[s] /\ T!Bucket(s)' = bucket[s]
  BY <1>1, BucketsStay
<1>3. /\ phase = "hash" /\ phase' = "hash" /\ at >= 1 /\ at' = at - 1
      /\ chains' = [chains EXCEPT ![at] = buckets[T!Bucket(at)]]
      /\ buckets' = [buckets EXCEPT ![T!Bucket(at)] = at]
      /\ lib_at' = lib_at /\ mod_recs' = mod_recs /\ lib_recs' = lib_recs /\ dynv' = dynv
  BY DEF T!HashSymbol, T!OldHead
<1>4. /\ buckets \in [0..count -> 0..count] /\ chains \in [0..count -> 0..count]
      /\ at \in 1..count /\ at' \in 0..count
  BY <1>1, <1>3 DEF ChainsHold
<1>5. PICK head : head = buckets[bucket[at]]
  OBVIOUS
<1>6. /\ chains' = [chains EXCEPT ![at] = head]
      /\ buckets' = [buckets EXCEPT ![bucket[at]] = at]
      /\ bucket[at] \in 0..count /\ head \in 0..count
  BY <1>2, <1>3, <1>4, <1>5
<1>7. buckets' \in [0..count -> 0..count] /\ chains' \in [0..count -> 0..count]
  <2>1. at \in 0..count
    BY <1>4
  <2>2. [buckets EXCEPT ![bucket[at]] = at] \in [0..count -> 0..count]
    BY <1>4, <1>6, <2>1
  <2>3. [chains EXCEPT ![at] = head] \in [0..count -> 0..count]
    BY <1>4, <1>6, <2>1
  <2> QED
    BY <1>6, <2>2, <2>3
<1>8. PICK hashed : hashed = {s \in 1..count : s > at}
  OBVIOUS
<1>9. T!HashedIn = hashed /\ T!HashedIn' = hashed \union {at}
  <2>1. /\ T!HashedIn = {s \in (0..count) \ {0} : s > at}
        /\ T!HashedIn' = {s \in (0..count) \ {0} : s > at'}
    BY <1>3, <1>4, <1>7 DEF T!HashedIn, T!Symbol0
  <2>2. (0..count) \ {0} = 1..count
    OBVIOUS
  <2>3. \A s \in 1..count : s > at - 1 <=> (s > at \/ s = at)
    <3>1. PICK a \in 1..count : a = at
      BY <1>4
    <3>2. \A s \in 1..count : s > a - 1 <=> (s > a \/ s = a)
      OBVIOUS
    <3> QED
      BY <3>1, <3>2
  <2> QED
    BY <1>3, <1>4, <1>8, <2>1, <2>2, <2>3
<1>10. /\ \A b \in 0..count : buckets[b] # 0 => buckets[b] \in hashed /\ bucket[buckets[b]] = b
       /\ \A s \in 0..count : s \notin hashed => chains[s] = 0
       /\ \A s \in hashed : chains[s] # 0 =>
             chains[s] > s /\ chains[s] \in hashed /\ bucket[chains[s]] = bucket[s]
       /\ \A s \in hashed : buckets[bucket[s]] # s => \E r \in hashed : r < s /\ chains[r] = s
  BY <1>1, <1>2, <1>3, <1>8, <1>9 DEF ChainsHold
<1>11. head # 0 => head \in hashed /\ bucket[head] = bucket[at] /\ head > at
  BY <1>5, <1>6, <1>8, <1>10
<1>12. at \notin hashed /\ hashed \subseteq 1..count
  BY <1>4, <1>8
<1>13. \A b \in 0..count : buckets'[b] # 0 =>
           buckets'[b] \in hashed \union {at} /\ bucket[buckets'[b]] = b
  BY <1>4, <1>6, <1>10
<1>14. \A s \in 0..count : s \notin hashed \union {at} => chains'[s] = 0
  BY <1>4, <1>6, <1>10
<1>15. \A s \in hashed \union {at} : chains'[s] # 0 =>
           /\ chains'[s] > s /\ chains'[s] \in hashed \union {at}
           /\ bucket[chains'[s]] = bucket[s]
  <2>1. chains'[at] = head /\ \A s \in hashed : chains'[s] = chains[s]
    BY <1>4, <1>6, <1>12
  <2>2. CASE head = 0
    BY <1>10, <2>1, <2>2
  <2>3. CASE head # 0
    BY <1>10, <1>11, <2>1, <2>3
  <2> QED
    BY <2>2, <2>3
<1>16. ASSUME NEW s \in hashed \union {at}, buckets'[bucket[s]] # s
       PROVE  \E r \in hashed \union {at} : r < s /\ chains'[r] = s
  <2>1. s # at /\ s \in hashed /\ s \in 1..count
    BY <1>4, <1>6, <1>12, <1>16
  <2>2. CASE buckets[bucket[s]] = s
    <3>1. bucket[s] = bucket[at]
      BY <1>4, <1>6, <1>16, <2>1, <2>2
    <3>2. head = s
      BY <1>5, <2>2, <3>1
    <3>3. chains'[at] = s /\ at < s
      BY <1>4, <1>6, <1>8, <2>1, <3>2
    <3> QED
      BY <3>3
  <2>3. CASE buckets[bucket[s]] # s
    <3>1. PICK r \in hashed : r < s /\ chains[r] = s
      BY <1>10, <2>1, <2>3
    <3>2. chains'[r] = s
      BY <1>4, <1>6, <1>12, <3>1
    <3> QED
      BY <3>1, <3>2
  <2> QED
    BY <2>2, <2>3
<1>17. ChainsHold'
  <2>1. \A b \in 0..count : buckets'[b] # 0 =>
           buckets'[b] \in T!HashedIn' /\ T!Bucket(buckets[b])' = b
    BY <1>2, <1>9, <1>12, <1>13, <1>4
  <2>2. \A s \in T!HashedIn' : chains'[s] # 0 =>
           /\ chains'[s] > s /\ chains'[s] \in T!HashedIn'
           /\ T!Bucket(chains[s])' = T!Bucket(s)'
    BY <1>2, <1>4, <1>9, <1>12, <1>15
  <2>3. \A s \in T!HashedIn' : buckets'[T!Bucket(s)'] # s =>
           \E r \in T!HashedIn' : r < s /\ chains'[r] = s
    BY <1>2, <1>4, <1>9, <1>12, <1>16
  <2> QED
    BY <1>1, <1>3, <1>4, <1>7, <1>9, <1>14, <2>1, <2>2, <2>3 DEF ChainsHold
<1>18. DriverHolds'
  BY <1>3, <1>4, DriverWaits
<1>19. RecordsHold'
  BY <1>3 DEF RecordsHold, NoneTwice
<1>20. DynvHolds'
  BY <1>3 DEF DynvHolds
<1> QED
  BY <1>17, <1>18, <1>19, <1>20

\* The hash is finished: nothing in it changes any more.
LEMMA ChainsAside ==
    ASSUME LinkInv, BuildTables, phase = "hash" => at = 0,
           phase' \in {"records", "dynamic", "done"},
           buckets' = buckets, chains' = chains
    PROVE  ChainsHold'
<1> USE DEF LinkInv
<1>1. PICK count \in Nat : count = Len(imports) /\ count = Len(imports')
  BY BuildingTables, HandedOverIs
<1>2. buckets \in [0..count -> 0..count] /\ chains \in [0..count -> 0..count]
  BY <1>1, BuildingTables DEF ChainsHold
<1>3. T!HashedIn = 1..count /\ T!HashedIn' = 1..count
  <2>1. DOMAIN buckets \ {0} = 1..count /\ DOMAIN buckets' \ {0} = 1..count
    <3>1. (0..count) \ {0} = 1..count
      OBVIOUS
    <3> QED
      BY <1>2, <3>1
  <2>2. \A s \in 1..count : phase = "hash" => s > at
    OBVIOUS
  <2>3. phase' # "hash"
    OBVIOUS
  <2> QED
    BY <2>1, <2>2, <2>3 DEF T!HashedIn, T!Symbol0
<1>4. HandedOver' = HandedOver /\ phase # "idle"
  BY BuildingTables
<1>5. \A s : T!Bucket(s)' = T!Bucket(s)
  BY <1>4 DEF T!Bucket, T!nbucket, T!sym_count
<1> QED
  BY <1>1, <1>2, <1>3, <1>4, <1>5 DEF ChainsHold, T!Bucket, T!nbucket, T!sym_count

\* The loader's walk from a bucket, step by step: the function T!Walk describes
\* exists, because a shorter walk can always be made one step longer.
LEMMA WalkIs ==
    ASSUME NEW count \in Nat, NEW b \in 0..count,
           buckets \in [0..count -> 0..count], chains \in [0..count -> 0..count]
    PROVE  /\ T!Walk(b) \in [0..count -> 0..count]
           /\ T!Walk(b)[0] = buckets[b]
           /\ \A k \in 1..count : T!Walk(b)[k] = chains[T!Walk(b)[k - 1]]
<1> DEFINE IsWalk(w, n) ==
               /\ w \in [0..n -> 0..count]
               /\ w[0] = buckets[b]
               /\ \A k \in 1..n : w[k] = chains[w[k - 1]]
           None == {n \in 0..count : \A w : ~IsWalk(w, n)}
<1>1. None = {}
  <2> SUFFICES ASSUME None # {}
               PROVE  FALSE
    OBVIOUS
  <2>1. PICK n \in None : \A m \in None : n <= m
    <3>1. None \in SUBSET Nat
      OBVIOUS
    <3> HIDE DEF None
    <3> QED
      BY <3>1, LeastOf
  <2>2. CASE n = 0
    <3>1. PICK w : w = [k \in 0..0 |-> buckets[b]]
      OBVIOUS
    <3>2. w \in [0..0 -> 0..count] /\ w[0] = buckets[b] /\ 1..0 = {}
      BY <3>1
    <3> QED
      BY <2>1, <2>2, <3>2
  <2>3. CASE n # 0
    <3>1. n \in 1..count /\ n - 1 \in 0..count /\ n - 1 \notin None
      <4>1. n \in 0..count
        OBVIOUS
      <4>2. n \in 1..count /\ n - 1 \in 0..count /\ ~(n <= n - 1)
        BY <2>3, <4>1
      <4> HIDE DEF None
      <4> QED
        BY <2>1, <4>2
    <3>2. PICK w : IsWalk(w, n - 1)
      BY <3>1
    <3>3. PICK v : v = [k \in 0..n |-> IF k = n THEN chains[w[n - 1]] ELSE w[k]]
      OBVIOUS
    <3>4. \A k \in 0..n : k = n \/ k \in 0..(n - 1)
      BY <3>1
    <3>5. n - 1 \in 0..(n - 1) /\ n \in 0..n /\ 0 # n /\ 0 \in 0..n
      BY <3>1
    <3>6. w[n - 1] \in 0..count /\ chains[w[n - 1]] \in 0..count
      BY <3>2, <3>5
    <3>7. v \in [0..n -> 0..count]
      BY <3>2, <3>3, <3>4, <3>6
    <3>8. v[n] = chains[w[n - 1]] /\ \A k \in 0..(n - 1) : v[k] = w[k]
      BY <3>1, <3>3
    <3>9. v[0] = buckets[b]
      <4>1. 0 \in 0..(n - 1)
        BY <3>1
      <4> QED
        BY <3>2, <3>8, <4>1
    <3>10. ASSUME NEW k \in 1..n
           PROVE  v[k] = chains[v[k - 1]]
      <4>1. k - 1 \in 0..(n - 1) /\ v[k - 1] = w[k - 1]
        BY <3>1, <3>8
      <4>2. CASE k = n
        BY <3>8, <4>1, <4>2
      <4>3. CASE k # n
        <5>1. k \in 1..(n - 1) /\ k \in 0..(n - 1)
          BY <3>1, <4>3
        <5> QED
          BY <3>2, <3>8, <4>1, <5>1
      <4> QED
        BY <4>2, <4>3
    <3>11. IsWalk(v, n)
      BY <3>7, <3>9, <3>10
    <3> HIDE DEF IsWalk
    <3> QED
      BY <2>1, <3>11
  <2> QED
    BY <2>2, <2>3
<1>2. PICK w : IsWalk(w, count)
  <2>1. count \in 0..count
    OBVIOUS
  <2> HIDE DEF IsWalk
  <2> QED
    BY <1>1, <2>1
<1> DEFINE IsWalkTo(v) == v = [k \in DOMAIN buckets |-> IF k = 0 THEN buckets[b] ELSE chains[v[k - 1]]]
<1>3. IsWalkTo(w)
  <2>1. w = [k \in 0..count |-> w[k]]
    BY <1>2
  <2>2. \A k \in 0..count : w[k] = IF k = 0 THEN buckets[b] ELSE chains[w[k - 1]]
    <3>1. \A k \in 0..count : k = 0 \/ k \in 1..count
      OBVIOUS
    <3>2. \A k \in 1..count : k # 0
      OBVIOUS
    <3> QED
      BY <1>2, <3>1, <3>2
  <2>3. DOMAIN buckets = 0..count
    OBVIOUS
  <2> QED
    BY <2>1, <2>2, <2>3
<1>4. T!Walk(b) = CHOOSE v : IsWalkTo(v)
  BY DEF T!Walk, T!Symbol0
<1>5. IsWalkTo(T!Walk(b))
  <2> HIDE DEF IsWalkTo
  <2> QED
    BY <1>3, <1>4
<1>6. PICK v : v = T!Walk(b)
  OBVIOUS
<1>7. \A k \in 0..count : v[k] = IF k = 0 THEN buckets[b] ELSE chains[v[k - 1]]
  BY <1>5, <1>6
<1>8. v = [k \in 0..count |-> v[k]]
  BY <1>5, <1>6
<1>9. \A k \in 0..count : v[k] \in 0..count
  <2> DEFINE Out == {k \in 0..count : v[k] \notin 0..count}
  <2> SUFFICES ASSUME Out # {}
               PROVE  FALSE
    OBVIOUS
  <2>1. PICK n \in Out : \A m \in Out : n <= m
    <3>1. Out \in SUBSET Nat
      OBVIOUS
    <3> HIDE DEF Out
    <3> QED
      BY <3>1, LeastOf
  <2>2. n # 0
    BY <1>7, <2>1
  <2>3. n - 1 \in 0..count /\ n - 1 \notin Out
    BY <2>1, <2>2
  <2> QED
    BY <1>7, <2>1, <2>2, <2>3
<1>10. v[0] = buckets[b] /\ \A k \in 1..count : v[k] = chains[v[k - 1]]
  <2>1. 0 \in 0..count /\ \A k \in 1..count : k \in 0..count /\ k # 0
    OBVIOUS
  <2> QED
    BY <1>7, <2>1
<1>11. v \in [0..count -> 0..count]
  BY <1>8, <1>9
<1> QED
  BY <1>6, <1>10, <1>11

\* dynwriter.c:453: chains that run upwards inside their bucket are finite, and
\* whatever they hold is met.
LEMMA WalksMeetTheImports == LinkInv => T!EveryImportFound
<1> SUFFICES ASSUME LinkInv
             PROVE  T!EveryImportFound
  OBVIOUS
<1> USE DEF LinkInv
<1>1. CASE phase = "idle"
  <2>1. T!Symbol0 = {}
    BY <1>1 DEF DriverHolds, T!Symbol0
  <2> QED
    BY <2>1 DEF T!EveryImportFound, T!HashedIn
<1>2. CASE phase # "idle"
  <2>1. hashes \in [DOMAIN imports -> Hash]
    BY <1>2 DEF DriverHolds
  <2>2. PICK count \in Nat : count = Len(imports) /\ count = Len(HandedOver)
    BY <2>1, HandedOverIs
  <2>3. /\ buckets \in [0..count -> 0..count] /\ chains \in [0..count -> 0..count]
        /\ T!Symbol0 = 0..count
    BY <1>2, <2>2 DEF ChainsHold, T!Symbol0
  <2>4. T!HashedIn \subseteq 1..count
    <3>1. (0..count) \ {0} = 1..count
      OBVIOUS
    <3> QED
      BY <2>3, <3>1 DEF T!HashedIn
  <2>5. /\ \A b \in 0..count : buckets[b] # 0 => buckets[b] \in T!HashedIn
        /\ \A s \in 0..count : s \notin T!HashedIn => chains[s] = 0
        /\ \A s \in T!HashedIn : chains[s] # 0 =>
              chains[s] > s /\ T!Bucket(chains[s]) = T!Bucket(s)
        /\ \A s \in T!HashedIn : buckets[T!Bucket(s)] # s =>
              \E r \in T!HashedIn : r < s /\ chains[r] = s
    BY <1>2, <2>2 DEF ChainsHold
  <2>6. \A b \in 0..count : \A k \in 0..count : T!Walk(b)[k] = 0 \/ T!Walk(b)[k] >= k + 1
    <3> SUFFICES ASSUME NEW b \in 0..count
                 PROVE  \A k \in 0..count : T!Walk(b)[k] = 0 \/ T!Walk(b)[k] >= k + 1
      OBVIOUS
    <3>1. PICK w : w = T!Walk(b)
      OBVIOUS
    <3>2. /\ w \in [0..count -> 0..count] /\ w[0] = buckets[b]
          /\ \A k \in 1..count : w[k] = chains[w[k - 1]]
      BY <2>3, <3>1, WalkIs
    <3> DEFINE Low == {k \in 0..count : w[k] # 0 /\ ~(w[k] >= k + 1)}
    <3>3. ASSUME Low # {}
          PROVE  FALSE
      <4>1. PICK n \in Low : \A m \in Low : n <= m
        <5>1. Low \in SUBSET Nat
          OBVIOUS
        <5> HIDE DEF Low
        <5> QED
          BY <3>3, <5>1, LeastOf
      <4>2. n # 0
        BY <3>2, <4>1
      <4>3. n - 1 \in 0..count /\ n \in 1..count /\ n - 1 \notin Low
        BY <4>1, <4>2
      <4>4. w[n - 1] \in 0..count /\ w[n] = chains[w[n - 1]] /\ w[n] # 0
        BY <3>2, <4>1, <4>3
      <4>5. w[n - 1] \in T!HashedIn
        BY <2>5, <4>4
      <4>6. w[n - 1] # 0 /\ w[n] > w[n - 1]
        BY <2>4, <2>5, <4>4, <4>5
      <4>7. w[n - 1] >= n - 1 + 1
        BY <4>3, <4>6
      <4>8. w[n] \in 0..count
        BY <3>2, <4>3
      <4> QED
        BY <4>1, <4>3, <4>4, <4>6, <4>7, <4>8
    <3> QED
      BY <3>1, <3>3
  <2>7. \A b \in T!Symbol0 : T!Walk(b)[Len(HandedOver)] = 0
    <3> SUFFICES ASSUME NEW b \in 0..count
                 PROVE  T!Walk(b)[count] = 0
      BY <2>2, <2>3
    <3>1. T!Walk(b)[count] \in 0..count
      <4>1. PICK w : w = T!Walk(b)
        OBVIOUS
      <4>2. w \in [0..count -> 0..count]
        BY <2>3, <4>1, WalkIs
      <4>3. count \in 0..count
        OBVIOUS
      <4> QED
        BY <4>1, <4>2, <4>3
    <3>2. T!Walk(b)[count] = 0 \/ T!Walk(b)[count] >= count + 1
      BY <2>6
    <3> QED
      BY <3>1, <3>2
  <2>8. \A s \in T!HashedIn : T!FoundByHash(s)
    <3> DEFINE Lost == {s \in T!HashedIn : ~T!FoundByHash(s)}
    <3> SUFFICES ASSUME Lost # {}
                 PROVE  FALSE
      OBVIOUS
    <3>1. PICK s \in Lost : \A r \in Lost : s <= r
      <4>1. Lost \subseteq 1..count
        BY <2>4
      <4>2. Lost \in SUBSET Nat
        BY <4>1
      <4> HIDE DEF Lost
      <4> QED
        BY <4>2, LeastOf
    <3>2. s \in 1..count /\ ~T!FoundByHash(s)
      BY <2>4, <3>1
    <3>3. PICK b : b = T!Bucket(s)
      OBVIOUS
    <3>4. b \in 0..count
      <4>1. HandedOver[s].hash \in Nat
        BY <2>1, <2>2, <3>2, HandedOverIs
      <4>2. \A hash \in Nat : hash % (count + 1) \in 0..count
        OBVIOUS
      <4> QED
        BY <2>2, <3>3, <4>1, <4>2 DEF T!Bucket, T!nbucket, T!sym_count
    <3>5. PICK w : w = T!Walk(b)
      OBVIOUS
    <3>6. /\ w \in [0..count -> 0..count] /\ w[0] = buckets[b]
          /\ \A k \in 1..count : w[k] = chains[w[k - 1]]
      BY <2>3, <3>4, <3>5, WalkIs
    <3>7. \A k \in 0..count : w[k] # s
      BY <2>3, <3>2, <3>3, <3>5 DEF T!FoundByHash
    <3>8. buckets[b] # s
      BY <3>6, <3>7
    <3>9. PICK r \in T!HashedIn : r < s /\ chains[r] = s
      BY <2>5, <3>1, <3>3, <3>8
    <3>10. T!Bucket(r) = b
      BY <2>5, <3>2, <3>3, <3>9
    <3>11. T!FoundByHash(r)
      BY <2>4, <3>1, <3>2, <3>9
    <3>12. PICK k \in 0..count : w[k] = r
      BY <2>3, <3>5, <3>10, <3>11 DEF T!FoundByHash
    <3>13. r \in 1..count /\ r >= k + 1
      BY <2>4, <2>6, <3>4, <3>5, <3>9, <3>12
    <3>14. k + 1 \in 1..count /\ k + 1 - 1 = k
      BY <3>12, <3>13
    <3>15. w[k + 1] = s
      <4>1. w[k + 1] = chains[w[(k + 1) - 1]]
        BY <3>6, <3>14
      <4> QED
        BY <3>9, <3>12, <3>14, <4>1
    <3> QED
      BY <3>7, <3>14, <3>15
  <2> QED
    BY <2>7, <2>8 DEF T!EveryImportFound
<1> QED
  BY <1>1, <1>2

------------------------------------------------------------------------------
\* The records.  The ids of an import lead to one module, so a library already
\* recorded is recorded with the module of every import that names it.
LEMMA SameLibrarySameModule ==
    ASSUME ResolveInv, NEW i \in DOMAIN imports, NEW j \in DOMAIN imports,
           imports[i].library_id = imports[j].library_id
    PROVE  RecordOf(i) = RecordOf(j)
<1>1. imports[i].soname = imports[j].soname
  <2>1. libs[imports[i].library_id + 1] = <<imports[i].soname, imports[i].library>>
    BY DEF ResolveInv, IdsLeadToKeys
  <2>2. libs[imports[j].library_id + 1] = <<imports[j].soname, imports[j].library>>
    BY DEF ResolveInv, IdsLeadToKeys
  <2> QED
    BY <2>1, <2>2
<1>2. \A k \in {i, j} : imports[k].module_id \in DOMAIN mods
                        /\ mods[imports[k].module_id] = imports[k].soname
  BY DEF ResolveInv, IdsLeadToKeys
<1>3. imports[i].module_id = imports[j].module_id
  BY <1>1, <1>2 DEF ResolveInv, IdsLeadToKeys, NoneTwice
<1> QED
  BY <1>3 DEF RecordOf

LEMMA RecordImportKeeps ==
    ASSUME LinkInv, BuildTables, T!RecordImport
    PROVE  DriverHolds' /\ ChainsHold' /\ RecordsHold' /\ DynvHolds'
<1> USE DEF LinkInv
<1>1. /\ Len(imports) \in Nat /\ DOMAIN imports = 1..Len(imports)
      /\ Len(HandedOver) = Len(imports)
      /\ \A k \in DOMAIN imports :
            /\ HandedOver[k].module_id = imports[k].module_id
            /\ HandedOver[k].library_id = imports[k].library_id
            /\ imports[k].module_id \in Nat \ {0} /\ imports[k].library_id \in Nat
  BY BuildingTables, HandedOverIs
<1>2. PICK import : import = HandedOver[at]
  OBVIOUS
<1>3. /\ phase = "records" /\ phase' = "records" /\ at <= Len(imports) /\ at' = at + 1
      /\ mod_recs' = IF Contains(mod_recs, import.module_id) THEN mod_recs
                     ELSE Append(mod_recs, import.module_id)
      /\ lib_recs' = IF T!Recorded(import) THEN lib_recs
                     ELSE Append(lib_recs,
                              [id |-> import.library_id, module_id |-> import.module_id])
      /\ lib_at' = lib_at /\ buckets' = buckets /\ chains' = chains /\ dynv' = dynv
  BY <1>1, <1>2 DEF T!RecordImport, T!Contains, Contains
<1>4. at \in DOMAIN imports /\ at' \in 1..(Len(imports) + 1) /\ at' \in Nat
  BY <1>1, <1>3 DEF RecordsHold
<1>5. imports' = imports /\ \A k : RecordOf(k)' = RecordOf(k)
  BY BuildingTables DEF RecordOf
<1>6. /\ import.module_id = imports[at].module_id /\ import.library_id = imports[at].library_id
      /\ import.module_id \in Nat \ {0} /\ import.library_id \in Nat
  BY <1>1, <1>2, <1>4
<1>7. /\ mod_recs' \in Seq(Nat \ {0}) /\ NoneTwice(mod_recs')
      /\ \A m \in DOMAIN mod_recs : m \in DOMAIN mod_recs' /\ mod_recs'[m] = mod_recs[m]
      /\ \E m \in DOMAIN mod_recs' : mod_recs'[m] = import.module_id
  <2>1. mod_recs \in Seq(Nat \ {0}) /\ NoneTwice(mod_recs)
    BY DEF RecordsHold
  <2>2. DOMAIN mod_recs = 1..Len(mod_recs)
    BY <2>1, LenProperties
  <2>3. CASE Contains(mod_recs, import.module_id)
    BY <1>3, <2>1, <2>2, <2>3 DEF Contains
  <2>4. CASE ~Contains(mod_recs, import.module_id)
    <3>1. mod_recs' = Append(mod_recs, import.module_id)
      BY <1>3, <2>4
    <3>2. \A m \in DOMAIN mod_recs : mod_recs[m] # import.module_id
      BY <2>2, <2>4 DEF Contains
    <3>3. /\ mod_recs' \in Seq(Nat \ {0})
          /\ DOMAIN mod_recs' = DOMAIN mod_recs \union {Len(mod_recs) + 1}
          /\ \A i \in DOMAIN mod_recs : mod_recs'[i] = mod_recs[i]
          /\ mod_recs'[Len(mod_recs) + 1] = import.module_id
      BY <1>6, <2>1, <3>1, AppendAt
    <3>4. NoneTwice(mod_recs')
      BY <2>1, <3>2, <3>3 DEF NoneTwice
    <3> QED
      BY <3>3, <3>4
  <2> QED
    BY <2>3, <2>4
<1>8. /\ lib_recs \in Seq([id : Nat, module_id : Nat \ {0}])
      /\ \A l, m \in DOMAIN lib_recs : lib_recs[l].id = lib_recs[m].id => l = m
      /\ \A l \in DOMAIN lib_recs : \E k \in DOMAIN imports : lib_recs[l] = RecordOf(k)
      /\ \A l \in DOMAIN lib_recs : \E m \in DOMAIN mod_recs : mod_recs[m] = lib_recs[l].module_id
      /\ \A k \in DOMAIN imports : k < at => \E l \in DOMAIN lib_recs : lib_recs[l] = RecordOf(k)
  BY <1>3 DEF RecordsHold, RecordsMet
<1>9. /\ RecordOf(at) = [id |-> import.library_id, module_id |-> import.module_id]
      /\ RecordOf(at).id = import.library_id /\ RecordOf(at).module_id = import.module_id
      /\ RecordOf(at) \in [id : Nat, module_id : Nat \ {0}]
  BY <1>6 DEF RecordOf
<1>10. /\ lib_recs' \in Seq([id : Nat, module_id : Nat \ {0}])
       /\ \A l, m \in DOMAIN lib_recs' : lib_recs'[l].id = lib_recs'[m].id => l = m
       /\ \A l \in DOMAIN lib_recs : l \in DOMAIN lib_recs' /\ lib_recs'[l] = lib_recs[l]
       /\ \E l \in DOMAIN lib_recs' : lib_recs'[l] = RecordOf(at)
       /\ \A l \in DOMAIN lib_recs' :
             (l \in DOMAIN lib_recs /\ lib_recs'[l] = lib_recs[l]) \/ lib_recs'[l] = RecordOf(at)
  <2>1. CASE T!Recorded(import)
    <3>1. lib_recs' = lib_recs
      BY <1>3, <2>1
    <3>2. PICK l \in DOMAIN lib_recs : lib_recs[l].id = import.library_id
      BY <2>1 DEF T!Recorded, T!ToSet
    <3>3. PICK k \in DOMAIN imports : lib_recs[l] = RecordOf(k)
      BY <1>8
    <3>4. imports[k].library_id = imports[at].library_id
      BY <1>6, <3>2, <3>3 DEF RecordOf
    <3>5. RecordOf(k) = RecordOf(at)
      BY <1>4, <3>4, SameLibrarySameModule
    <3> QED
      BY <1>8, <3>1, <3>3, <3>5
  <2>2. CASE ~T!Recorded(import)
    <3>1. lib_recs' = Append(lib_recs, RecordOf(at))
      BY <1>3, <1>9, <2>2
    <3>2. \A l \in DOMAIN lib_recs : lib_recs[l].id # RecordOf(at).id
      BY <1>9, <2>2 DEF T!Recorded, T!ToSet
    <3> DEFINE Recs == [id : Nat, module_id : Nat \ {0}]
    <3>3. lib_recs \in Seq(Recs) /\ RecordOf(at) \in Recs
      BY <1>8, <1>9
    <3> HIDE DEF Recs
    <3>4. /\ lib_recs' \in Seq(Recs)
          /\ DOMAIN lib_recs' = DOMAIN lib_recs \union {Len(lib_recs) + 1}
          /\ \A l \in DOMAIN lib_recs : lib_recs'[l] = lib_recs[l]
          /\ lib_recs'[Len(lib_recs) + 1] = RecordOf(at)
      BY <3>1, <3>3, AppendAt
    <3>5. \A l, m \in DOMAIN lib_recs' : lib_recs'[l].id = lib_recs'[m].id => l = m
      BY <1>8, <3>2, <3>4
    <3> QED
      BY <3>4, <3>5 DEF Recs
  <2> QED
    BY <2>1, <2>2
<1>11. RecordsHold'
  <2>1. \A l \in DOMAIN lib_recs' : \E k \in DOMAIN imports' : lib_recs'[l] = RecordOf(k)'
    BY <1>4, <1>5, <1>8, <1>10
  <2>2. \A l \in DOMAIN lib_recs' : \E m \in DOMAIN mod_recs' : mod_recs'[m] = lib_recs'[l].module_id
    <3> SUFFICES ASSUME NEW l \in DOMAIN lib_recs'
                 PROVE  \E m \in DOMAIN mod_recs' : mod_recs'[m] = lib_recs'[l].module_id
      OBVIOUS
    <3>1. CASE l \in DOMAIN lib_recs /\ lib_recs'[l] = lib_recs[l]
      BY <1>7, <1>8, <3>1
    <3>2. CASE lib_recs'[l] = RecordOf(at)
      BY <1>7, <1>9, <3>2
    <3> QED
      BY <1>10, <3>1, <3>2
  <2>3. \A k \in DOMAIN imports' : k < at' => k < at \/ k = at
    BY <1>1, <1>3, <1>4, <1>5
  <2>4. \A k \in RecordsMet' : \E l \in DOMAIN lib_recs' : lib_recs'[l] = RecordOf(k)'
    <3>0. imports' = imports
      BY <1>5
    <3>1. \A k \in RecordsMet' : k \in DOMAIN imports /\ (k < at \/ k = at)
      <4>1. RecordsMet' = {k \in DOMAIN imports' : k < at'}
        BY <1>3 DEF RecordsMet
      <4> QED
        BY <2>3, <3>0, <4>1
    <3>2. \A k \in DOMAIN imports : k < at =>
              \E l \in DOMAIN lib_recs' : lib_recs'[l] = RecordOf(k)
      <4> SUFFICES ASSUME NEW k \in DOMAIN imports, k < at
                   PROVE  \E l \in DOMAIN lib_recs' : lib_recs'[l] = RecordOf(k)
        OBVIOUS
      <4>1. PICK l \in DOMAIN lib_recs : lib_recs[l] = RecordOf(k)
        BY <1>8
      <4>2. l \in DOMAIN lib_recs' /\ lib_recs'[l] = lib_recs[l]
        BY <1>10
      <4> QED
        BY <4>1, <4>2
    <3>3. \E l \in DOMAIN lib_recs' : lib_recs'[l] = RecordOf(at)
      BY <1>10
    <3> QED
      BY <1>5, <3>1, <3>2, <3>3
  <2> QED
    BY <1>3, <1>4, <1>5, <1>7, <1>10, <2>1, <2>2, <2>4 DEF RecordsHold
<1>12. DynvHolds'
  BY <1>3 DEF DynvHolds
<1> QED
  BY <1>3, <1>4, <1>11, <1>12, DriverWaits, ChainsAside

\* No record is added any more.
LEMMA RecordsAside ==
    ASSUME LinkInv, BuildTables,
           \/ phase = "hash" /\ phase' = "records" /\ at' = 1
           \/ phase = "records" /\ phase' = "dynamic" /\ at > Len(imports)
           \/ phase \in {"dynamic", "done"} /\ phase' \in {"dynamic", "done"},
           mod_recs' = mod_recs, lib_recs' = lib_recs
    PROVE  RecordsHold'
<1> USE DEF LinkInv
<1>1. /\ Len(imports) \in Nat /\ DOMAIN imports = 1..Len(imports) /\ imports' = imports
      /\ phase # "idle" /\ phase \in {"idle", "hash", "records", "dynamic", "done"}
  BY BuildingTables, HandedOverIs DEF DriverHolds
<1>2. \A k : RecordOf(k)' = RecordOf(k)
  BY <1>1 DEF RecordOf
<1>3. CASE phase' = "records"
  <2>1. phase = "hash" /\ at' = 1 /\ mod_recs = <<>> /\ lib_recs = <<>>
    BY <1>3 DEF RecordsHold
  <2>2. RecordsMet' = {}
    BY <1>1, <1>3, <2>1 DEF RecordsMet
  <2>3. at' \in 1..(Len(imports) + 1)
    BY <1>1, <2>1
  <2> QED
    BY <1>1, <1>3, <2>1, <2>2, <2>3 DEF RecordsHold
<1>4. CASE /\ phase \in {"records", "dynamic", "done"} /\ phase' \in {"dynamic", "done"}
           /\ phase = "records" => at > Len(imports)
  <2>1. at \in Nat
    BY DEF DriverHolds
  <2>2. RecordsMet = DOMAIN imports
    <3>1. at > Len(imports) => \A k \in DOMAIN imports : k < at
      BY <1>1, <2>1
    <3> QED
      BY <1>4, <3>1 DEF RecordsMet
  <2>3. RecordsMet' = DOMAIN imports
    BY <1>1, <1>4 DEF RecordsMet
  <2> QED
    BY <1>1, <1>2, <1>4, <2>2, <2>3 DEF RecordsHold
<1> QED
  BY <1>3, <1>4

------------------------------------------------------------------------------
\* The dynamic table.
LEMMA TwoMore ==
    ASSUME NEW S, NEW s \in Seq(S), NEW a \in S, NEW b \in S, NEW new, new = s \o <<a, b>>
    PROVE  /\ Len(s) \in Nat /\ DOMAIN s = 1..Len(s)
           /\ new \in Seq(S) /\ Len(new) = Len(s) + 2 /\ DOMAIN new = 1..(Len(s) + 2)
           /\ \A i \in DOMAIN s : new[i] = s[i]
           /\ new[Len(s) + 1] = a /\ new[Len(s) + 2] = b
<1>1. PICK n \in Nat : n = Len(s) /\ DOMAIN s = 1..n
  BY LenProperties
<1>2. PICK two : two = <<a, b>>
  OBVIOUS
<1>3. two \in Seq(S) /\ Len(two) = 2 /\ two[1] = a /\ two[2] = b
  BY <1>2
<1>4. /\ new \in Seq(S) /\ Len(new) = n + 2
      /\ \A i \in 1..(n + 2) : new[i] = IF i <= n THEN s[i] ELSE two[i - n]
  <2>1. new = s \o two
    BY <1>2
  <2>2. /\ new \in Seq(S) /\ Len(new) = Len(s) + Len(two)
        /\ \A i \in 1..(Len(s) + Len(two)) :
              new[i] = IF i <= Len(s) THEN s[i] ELSE two[i - Len(s)]
    BY <1>3, <2>1, ConcatProperties
  <2> QED
    BY <1>1, <1>3, <2>2
<1>5. DOMAIN new = 1..(n + 2)
  BY <1>4, LenProperties
<1>6. \A i \in 1..n : new[i] = s[i]
  <2>1. \A i \in 1..n : i \in 1..(n + 2) /\ i <= n
    OBVIOUS
  <2> QED
    BY <1>4, <2>1
<1>7. new[n + 1] = a
  <2>1. n + 1 \in 1..(n + 2) /\ ~(n + 1 <= n) /\ n + 1 - n = 1
    OBVIOUS
  <2> QED
    BY <1>3, <1>4, <2>1
<1>8. new[n + 2] = b
  <2>1. n + 2 \in 1..(n + 2) /\ ~(n + 2 <= n) /\ n + 2 - n = 2
    OBVIOUS
  <2> QED
    BY <1>3, <1>4, <2>1
<1> QED
  BY <1>1, <1>4, <1>5, <1>6, <1>7, <1>8

DynEntry == [tag : {"NEEDED", "NEEDED_MODULE", "IMPORT_LIB", "IMPORT_LIB_ATTR"}, id : Nat]

\* Where the sequences of the table end, and what they hold.
LEMMA DynvLengths ==
    ASSUME LinkInv
    PROVE  /\ Len(mod_recs) \in Nat /\ DOMAIN mod_recs = 1..Len(mod_recs)
           /\ Len(lib_recs) \in Nat /\ DOMAIN lib_recs = 1..Len(lib_recs)
           /\ dynv \in Seq(DynEntry) /\ Len(dynv) \in Nat /\ DOMAIN dynv = 1..Len(dynv)
           /\ \A m \in DOMAIN mod_recs : mod_recs[m] \in Nat
           /\ \A l \in DOMAIN lib_recs :
                 lib_recs[l].id \in Nat /\ lib_recs[l].module_id \in Nat
           /\ \A id \in Nat :
                 \A tag \in {"NEEDED", "NEEDED_MODULE", "IMPORT_LIB", "IMPORT_LIB_ATTR"} :
                    /\ T!Entry(tag, id) \in DynEntry
                    /\ T!Entry(tag, id).tag = tag /\ T!Entry(tag, id).id = id
<1>1. mod_recs \in Seq(Nat \ {0}) /\ dynv \in Seq(DynEntry)
  BY DEF LinkInv, RecordsHold, DynvHolds, DynEntry
<1>2. /\ Len(mod_recs) \in Nat /\ DOMAIN mod_recs = 1..Len(mod_recs)
      /\ Len(dynv) \in Nat /\ DOMAIN dynv = 1..Len(dynv)
      /\ \A m \in DOMAIN mod_recs : mod_recs[m] \in Nat
  BY <1>1, LenProperties, ElementOfSeq
<1> DEFINE Recs == [id : Nat, module_id : Nat \ {0}]
<1>3. lib_recs \in Seq(Recs)
  BY DEF LinkInv, RecordsHold
<1>4. \A r \in Recs : r.id \in Nat /\ r.module_id \in Nat
  OBVIOUS
<1> HIDE DEF Recs
<1>5. /\ Len(lib_recs) \in Nat /\ DOMAIN lib_recs = 1..Len(lib_recs)
      /\ \A l \in DOMAIN lib_recs : lib_recs[l] \in Recs
  BY <1>3, LenProperties, ElementOfSeq
<1>6. \A id \in Nat :
         \A tag \in {"NEEDED", "NEEDED_MODULE", "IMPORT_LIB", "IMPORT_LIB_ATTR"} :
            /\ T!Entry(tag, id) \in DynEntry
            /\ T!Entry(tag, id).tag = tag /\ T!Entry(tag, id).id = id
  BY DEF T!Entry, DynEntry
<1> QED
  BY <1>1, <1>2, <1>4, <1>5, <1>6

LEMMA EndHashKeeps ==
    ASSUME LinkInv, BuildTables, T!EndHash
    PROVE  DriverHolds' /\ ChainsHold' /\ RecordsHold' /\ DynvHolds'
<1>1. /\ phase = "hash" /\ at = 0 /\ phase' = "records" /\ at' = 1
      /\ lib_at' = lib_at /\ buckets' = buckets /\ chains' = chains
      /\ mod_recs' = mod_recs /\ lib_recs' = lib_recs /\ dynv' = dynv
  BY DEF T!EndHash
<1>2. DynvHolds'
  BY <1>1 DEF LinkInv, DynvHolds
<1> QED
  BY <1>1, <1>2, DriverWaits, ChainsAside, RecordsAside

LEMMA EndRecordsKeeps ==
    ASSUME LinkInv, BuildTables, T!EndRecords
    PROVE  DriverHolds' /\ ChainsHold' /\ RecordsHold' /\ DynvHolds'
<1>1. /\ phase = "records" /\ at > Len(imports) /\ phase' = "dynamic" /\ at' = 1
      /\ lib_at' = lib_at /\ buckets' = buckets /\ chains' = chains
      /\ mod_recs' = mod_recs /\ lib_recs' = lib_recs /\ dynv' = dynv
  BY BuildingTables, HandedOverIs DEF LinkInv, T!EndRecords
<1>2. dynv = <<>> /\ lib_at = 0
  BY <1>1 DEF LinkInv, DynvHolds
<1>3. \A l \in DOMAIN lib_recs : ~Emitted(l)'
  <2>1. \A m \in 1..Len(mod_recs) : ~(m < 1)
    BY DynvLengths
  <2>2. \A l \in 1..Len(lib_recs) : ~(l < 0)
    BY DynvLengths
  <2> QED
    BY <1>1, <1>2, <2>1, <2>2, DynvLengths DEF Emitted
<1>4. 1 \in 1..(Len(mod_recs) + 1) /\ 0 \in 0..(Len(lib_recs) + 1)
  BY DynvLengths
<1>5. DynvHolds'
  BY <1>1, <1>2, <1>3, <1>4 DEF LinkInv, DynvHolds
<1> QED
  BY <1>1, <1>5, DriverWaits, ChainsAside, RecordsAside

\* The module is listed: its libraries come behind it.
LEMMA EmitModuleKeeps ==
    ASSUME LinkInv, BuildTables, T!EmitModule
    PROVE  DriverHolds' /\ ChainsHold' /\ RecordsHold' /\ DynvHolds'
<1>1. /\ phase = "dynamic" /\ phase' = "dynamic" /\ at' = at /\ at <= Len(mod_recs)
      /\ lib_at = 0 /\ lib_at' = 1 /\ buckets' = buckets /\ chains' = chains
      /\ mod_recs' = mod_recs /\ lib_recs' = lib_recs
      /\ dynv' = dynv \o <<T!Entry("NEEDED", mod_recs[at]),
                           T!Entry("NEEDED_MODULE", mod_recs[at])>>
  BY DEF T!EmitModule
<1>2. at \in 1..(Len(mod_recs) + 1) /\ at \in Nat /\ at \in DOMAIN mod_recs
  BY <1>1, DynvLengths DEF LinkInv, DynvHolds
<1>3. PICK here \in Nat : here = mod_recs[at]
  BY <1>2, DynvLengths
<1>4. PICK last \in Nat : last = Len(dynv) /\ DOMAIN dynv = 1..last
  BY DynvLengths
<1>5. /\ dynv' \in Seq(DynEntry) /\ Len(dynv') = last + 2 /\ DOMAIN dynv' = 1..(last + 2)
      /\ \A i \in 1..last : dynv'[i] = dynv[i]
      /\ dynv'[last + 1] = T!Entry("NEEDED", here)
      /\ dynv'[last + 2] = T!Entry("NEEDED_MODULE", here)
  BY <1>1, <1>3, <1>4, DynvLengths, TwoMore
<1>6. dynv'[last + 1].tag = "NEEDED" /\ dynv'[last + 2].tag = "NEEDED_MODULE"
  BY <1>5, DynvLengths
<1>7. \A p \in 1..(last + 2) : p \in 1..last \/ p = last + 1 \/ p = last + 2
  OBVIOUS
<1>8. \A l \in DOMAIN lib_recs : Emitted(l)' <=> Emitted(l)
  <2>1. \A l \in DOMAIN lib_recs : ~(l < 0) /\ ~(l < 1)
    BY DynvLengths
  <2> QED
    BY <1>1, <2>1 DEF Emitted
<1>9. \A p \in DOMAIN dynv' : dynv'[p].tag = "IMPORT_LIB" => p \in 1..last /\ dynv[p].tag = "IMPORT_LIB"
  BY <1>5, <1>6, <1>7
<1>10. \A l \in DOMAIN lib_recs : Emitted(l) =>
           \E p \in DOMAIN dynv' : dynv'[p] = T!Entry("IMPORT_LIB", lib_recs[l].id)
  <2>1. \A l \in DOMAIN lib_recs : Emitted(l) =>
           \E p \in DOMAIN dynv : dynv[p] = T!Entry("IMPORT_LIB", lib_recs[l].id)
    BY <1>1 DEF LinkInv, DynvHolds
  <2>2. \A p \in 1..last : p \in 1..(last + 2)
    OBVIOUS
  <2> QED
    BY <1>4, <1>5, <2>1, <2>2
<1>11. ASSUME NEW p \in DOMAIN dynv', dynv'[p].tag = "IMPORT_LIB"
       PROVE  \E l \in DOMAIN lib_recs :
                  /\ Emitted(l) /\ dynv'[p].id = lib_recs[l].id
                  /\ \E q \in DOMAIN dynv' : q < p /\ Opens(q, p, lib_recs[l].module_id)'
  <2>1. p \in 1..last /\ dynv[p].tag = "IMPORT_LIB" /\ dynv'[p] = dynv[p]
    BY <1>5, <1>9, <1>11
  <2>2. PICK l \in DOMAIN lib_recs :
            /\ Emitted(l) /\ dynv[p].id = lib_recs[l].id
            /\ \E q \in DOMAIN dynv : q < p /\ Opens(q, p, lib_recs[l].module_id)
    BY <1>1, <1>4, <2>1 DEF LinkInv, DynvHolds
  <2>3. PICK q \in 1..last : q < p /\ Opens(q, p, lib_recs[l].module_id)
    BY <1>4, <2>2
  <2>4. q \in DOMAIN dynv' /\ Opens(q, p, lib_recs[l].module_id)'
    <3>1. q \in 1..(last + 2) /\ \A r \in (q + 1)..p : r \in 1..last
      BY <2>1
    <3> QED
      BY <1>1, <1>5, <2>3, <3>1 DEF Opens
  <2> QED
    BY <2>1, <2>2, <2>3, <2>4
<1>12. ASSUME NEW p \in DOMAIN dynv', NEW q \in DOMAIN dynv',
              dynv'[p].tag = "IMPORT_LIB", dynv'[q] = dynv'[p]
       PROVE  p = q
  <2>1. p \in 1..last /\ q \in 1..last
    BY <1>9, <1>12
  <2> QED
    BY <1>1, <1>4, <1>5, <1>12, <2>1 DEF LinkInv, DynvHolds
<1>13. Opens(last + 2, last + 2, here)'
  <2>1. \A r \in (last + 2 + 1)..(last + 2) : FALSE
    OBVIOUS
  <2> QED
    BY <1>5, <2>1 DEF Opens
<1>14. DynvHolds'
  <2>1. last + 2 \in DOMAIN dynv' /\ 1 \in 0..(Len(lib_recs) + 1)
    BY <1>5, DynvLengths
  <2>2. \E q \in DOMAIN dynv' : Opens(q, Len(dynv), mod_recs[at])'
    BY <1>1, <1>3, <1>5, <1>13, <2>1
  <2> QED
    BY <1>1, <1>2, <1>5, <1>8, <1>10, <1>11, <1>12, <2>1, <2>2 DEF DynvHolds, DynEntry
<1> QED
  BY <1>1, <1>2, <1>14, DriverWaits, ChainsAside, RecordsAside

\* A library is listed in the list of its module, and in no other.
LEMMA EmitLibraryKeeps ==
    ASSUME LinkInv, BuildTables, T!EmitLibrary
    PROVE  DriverHolds' /\ ChainsHold' /\ RecordsHold' /\ DynvHolds'
<1>1. /\ phase = "dynamic" /\ phase' = "dynamic" /\ at' = at
      /\ lib_at \in DOMAIN lib_recs /\ lib_at' = lib_at + 1
      /\ buckets' = buckets /\ chains' = chains
      /\ mod_recs' = mod_recs /\ lib_recs' = lib_recs
      /\ dynv' = IF lib_recs[lib_at].module_id # mod_recs[at] THEN dynv
                 ELSE dynv \o <<T!Entry("IMPORT_LIB", lib_recs[lib_at].id),
                                T!Entry("IMPORT_LIB_ATTR", lib_recs[lib_at].id)>>
  BY DEF T!EmitLibrary
<1>2. /\ lib_at \in 1..Len(lib_recs) /\ lib_at > 0 /\ lib_at' \in 0..(Len(lib_recs) + 1)
      /\ lib_at' > 0
  BY <1>1, DynvLengths
<1>3. /\ at \in 1..(Len(mod_recs) + 1) /\ at <= Len(mod_recs)
      /\ \E q \in DOMAIN dynv : Opens(q, Len(dynv), mod_recs[at])
  BY <1>1, <1>2 DEF LinkInv, DynvHolds
<1>4. at \in DOMAIN mod_recs /\ at \in Nat
  BY <1>3, DynvLengths
<1>5. PICK here \in Nat : here = mod_recs[at]
  BY <1>4, DynvLengths
<1>6. PICK id \in Nat : id = lib_recs[lib_at].id
  BY <1>1, DynvLengths
<1>7. PICK last \in Nat : last = Len(dynv) /\ DOMAIN dynv = 1..last
  BY DynvLengths
<1>8. PICK opening \in 1..last : Opens(opening, last, here)
  BY <1>3, <1>5, <1>7
<1>9. \A l \in DOMAIN lib_recs : l < lib_at + 1 <=> (l < lib_at \/ l = lib_at)
  BY <1>2, DynvLengths
<1>10. \A l \in DOMAIN lib_recs :
           Emitted(l)' <=> Emitted(l) \/ (l = lib_at /\ lib_recs[l].module_id = here)
  BY <1>1, <1>4, <1>5, <1>9 DEF Emitted
<1>11. lib_recs[lib_at].module_id = here => ~Emitted(lib_at)
  <2>1. ~(lib_at < lib_at) /\ ~(at < at)
    BY <1>2, <1>4, DynvLengths
  <2>2. NoneTwice(mod_recs)
    BY DEF LinkInv, RecordsHold
  <2> QED
    BY <1>4, <1>5, <2>1, <2>2 DEF Emitted, NoneTwice
<1>12. CASE lib_recs[lib_at].module_id # here
  <2>1. dynv' = dynv
    BY <1>1, <1>5, <1>12
  <2>2. \A l \in DOMAIN lib_recs : Emitted(l)' <=> Emitted(l)
    BY <1>10, <1>12
  <2>3. \A q, p, m : Opens(q, p, m)' <=> Opens(q, p, m)
    BY <2>1 DEF Opens
  <2>4. DynvHolds'
    <3>1. \A p \in DOMAIN dynv : dynv[p].tag = "IMPORT_LIB" =>
              \E l \in DOMAIN lib_recs :
                  /\ Emitted(l)' /\ dynv[p].id = lib_recs[l].id
                  /\ \E q \in DOMAIN dynv : q < p /\ Opens(q, p, lib_recs[l].module_id)
      BY <1>1, <2>2 DEF LinkInv, DynvHolds
    <3>2. \A l \in DOMAIN lib_recs : Emitted(l)' =>
              \E p \in DOMAIN dynv : dynv[p] = T!Entry("IMPORT_LIB", lib_recs[l].id)
      BY <1>1, <2>2 DEF LinkInv, DynvHolds
    <3>3. \A p, q \in DOMAIN dynv :
              dynv[p].tag = "IMPORT_LIB" /\ dynv[q] = dynv[p] => p = q
      BY <1>1 DEF LinkInv, DynvHolds
    <3>4. \A p \in DOMAIN dynv' : dynv'[p].tag = "IMPORT_LIB" =>
              \E l \in DOMAIN lib_recs' :
                  /\ Emitted(l)' /\ dynv'[p].id = lib_recs'[l].id
                  /\ \E q \in DOMAIN dynv' : q < p /\ Opens(q, p, lib_recs[l].module_id)'
      BY <1>1, <2>1, <3>1 DEF Opens
    <3>5. \E q \in DOMAIN dynv' : Opens(q, Len(dynv), mod_recs[at])'
      BY <1>1, <1>5, <1>7, <1>8, <2>1 DEF Opens
    <3>6. dynv' \in Seq(DynEntry)
      BY <2>1, DynvLengths
    <3>7. \A l \in DOMAIN lib_recs' : Emitted(l)' =>
              \E p \in DOMAIN dynv' : dynv'[p] = T!Entry("IMPORT_LIB", lib_recs'[l].id)
      BY <1>1, <2>1, <3>2
    <3>8. \A p, q \in DOMAIN dynv' :
              dynv'[p].tag = "IMPORT_LIB" /\ dynv'[q] = dynv'[p] => p = q
      BY <2>1, <3>3
    <3> QED
      BY <1>1, <1>2, <1>3, <3>4, <3>5, <3>6, <3>7, <3>8 DEF DynvHolds, DynEntry
  <2> QED
    BY <1>1, <1>4, <2>4, DriverWaits, ChainsAside, RecordsAside
<1>13. CASE lib_recs[lib_at].module_id = here
  <2>1. dynv' = dynv \o <<T!Entry("IMPORT_LIB", id), T!Entry("IMPORT_LIB_ATTR", id)>>
    BY <1>1, <1>5, <1>6, <1>13
  <2>2. /\ dynv' \in Seq(DynEntry) /\ Len(dynv') = last + 2 /\ DOMAIN dynv' = 1..(last + 2)
        /\ \A i \in 1..last : dynv'[i] = dynv[i]
        /\ dynv'[last + 1] = T!Entry("IMPORT_LIB", id)
        /\ dynv'[last + 2] = T!Entry("IMPORT_LIB_ATTR", id)
    BY <1>7, <2>1, DynvLengths, TwoMore
  <2>3. /\ dynv'[last + 1].tag = "IMPORT_LIB" /\ dynv'[last + 1].id = id
        /\ dynv'[last + 2].tag = "IMPORT_LIB_ATTR"
    BY <2>2, DynvLengths
  <2>4. \A p \in 1..(last + 2) : p \in 1..last \/ p = last + 1 \/ p = last + 2
    OBVIOUS
  <2>5. /\ last + 1 \in 1..(last + 2)
        /\ \A p \in 1..last : p \in 1..(last + 2) /\ p < last + 1
    OBVIOUS
  <2>6. \A l \in DOMAIN lib_recs : Emitted(l)' =>
            \E p \in DOMAIN dynv' : dynv'[p] = T!Entry("IMPORT_LIB", lib_recs[l].id)
    <3> SUFFICES ASSUME NEW l \in DOMAIN lib_recs, Emitted(l)'
                 PROVE  \E p \in DOMAIN dynv' : dynv'[p] = T!Entry("IMPORT_LIB", lib_recs[l].id)
      OBVIOUS
    <3>1. CASE l = lib_at
      BY <1>6, <2>2, <2>5, <3>1
    <3>2. CASE Emitted(l)
      <4>1. PICK p \in 1..last : dynv[p] = T!Entry("IMPORT_LIB", lib_recs[l].id)
        BY <1>1, <1>7, <3>2 DEF LinkInv, DynvHolds
      <4> QED
        BY <2>2, <2>5, <4>1
    <3> QED
      BY <1>10, <3>1, <3>2
  <2>7. ASSUME NEW p \in 1..last, NEW q \in 1..last, NEW m, Opens(q, p, m)
        PROVE  Opens(q, p, m)'
    <3>1. \A r \in (q + 1)..p : r \in 1..last
      OBVIOUS
    <3> QED
      BY <2>2, <2>7, <3>1 DEF Opens
  <2>8. Opens(opening, last + 1, here)' /\ Opens(opening, last + 2, here)'
    <3>1. \A r \in (opening + 1)..(last + 2) :
              r \in (opening + 1)..last \/ r = last + 1 \/ r = last + 2
      OBVIOUS
    <3>2. \A r \in (opening + 1)..(last + 1) : r \in (opening + 1)..last \/ r = last + 1
      OBVIOUS
    <3>3. \A r \in (opening + 1)..last : r \in 1..last
      OBVIOUS
    <3>4. /\ dynv'[opening] = T!Entry("NEEDED_MODULE", here)
          /\ \A r \in (opening + 1)..last : dynv'[r].tag # "NEEDED_MODULE"
      BY <1>8, <2>2, <3>3 DEF Opens
    <3> QED
      BY <2>3, <3>1, <3>2, <3>4 DEF Opens
  <2>9. ASSUME NEW p \in DOMAIN dynv', dynv'[p].tag = "IMPORT_LIB"
        PROVE  \E l \in DOMAIN lib_recs :
                   /\ Emitted(l)' /\ dynv'[p].id = lib_recs[l].id
                   /\ \E q \in DOMAIN dynv' : q < p /\ Opens(q, p, lib_recs[l].module_id)'
    <3>1. CASE p \in 1..last
      <4>1. PICK l \in DOMAIN lib_recs :
                /\ Emitted(l) /\ dynv[p].id = lib_recs[l].id
                /\ \E q \in DOMAIN dynv : q < p /\ Opens(q, p, lib_recs[l].module_id)
        BY <1>1, <1>7, <2>2, <2>9, <3>1 DEF LinkInv, DynvHolds
      <4>2. PICK q \in 1..last : q < p /\ Opens(q, p, lib_recs[l].module_id)
        BY <1>7, <4>1
      <4>3. PICK m : m = lib_recs[l].module_id
        OBVIOUS
      <4>4. Opens(q, p, m)'
        BY <2>7, <3>1, <4>2, <4>3
      <4>5. Opens(q, p, lib_recs[l].module_id)'
        BY <1>1, <4>3, <4>4
      <4> QED
        BY <1>10, <2>2, <2>5, <3>1, <4>1, <4>2, <4>5
    <3>2. CASE p = last + 1
      <4>1. PICK l \in DOMAIN lib_recs : l = lib_at
        BY <1>1
      <4>2. Emitted(l)' /\ dynv'[p].id = lib_recs[l].id
        BY <1>6, <1>10, <1>13, <2>3, <3>2, <4>1
      <4>3. lib_recs'[l].module_id = here
        BY <1>1, <1>13, <4>1
      <4>4. Opens(opening, p, here)'
        BY <2>8, <3>2
      <4>5. Opens(opening, p, lib_recs[l].module_id)'
        BY <4>3, <4>4
      <4>6. opening \in DOMAIN dynv' /\ opening < p
        BY <2>2, <2>5, <3>2
      <4> QED
        BY <4>2, <4>5, <4>6
    <3> QED
      BY <2>2, <2>3, <2>4, <2>9, <3>1, <3>2
  <2>10. ASSUME NEW p \in 1..last
         PROVE  dynv'[p] # T!Entry("IMPORT_LIB", id)
    <3> SUFFICES ASSUME dynv[p] = T!Entry("IMPORT_LIB", id)
                 PROVE  FALSE
      BY <2>2
    <3>1. dynv[p].tag = "IMPORT_LIB" /\ dynv[p].id = id
      BY DynvLengths
    <3>2. PICK l \in DOMAIN lib_recs : Emitted(l) /\ dynv[p].id = lib_recs[l].id
      BY <1>1, <1>7, <3>1 DEF LinkInv, DynvHolds
    <3>3. l = lib_at
      BY <1>1, <1>6, <3>1, <3>2 DEF LinkInv, RecordsHold
    <3> QED
      BY <1>11, <1>13, <3>2, <3>3
  <2>11. ASSUME NEW p \in DOMAIN dynv', NEW q \in DOMAIN dynv',
                dynv'[p].tag = "IMPORT_LIB", dynv'[q] = dynv'[p]
         PROVE  p = q
    <3>1. /\ p \in 1..last \/ p = last + 1
          /\ q \in 1..last \/ q = last + 1
      BY <2>2, <2>3, <2>4, <2>11
    <3>2. CASE p \in 1..last /\ q \in 1..last
      BY <1>1, <1>7, <2>2, <2>11, <3>2 DEF LinkInv, DynvHolds
    <3>3. CASE p = last + 1 /\ q \in 1..last
      BY <2>2, <2>10, <2>11, <3>3
    <3>4. CASE q = last + 1 /\ p \in 1..last
      BY <2>2, <2>10, <2>11, <3>4
    <3> QED
      BY <3>1, <3>2, <3>3, <3>4
  <2>12. \E q \in DOMAIN dynv' : Opens(q, Len(dynv), mod_recs[at])'
    BY <1>1, <1>5, <2>2, <2>5, <2>8
  <2>13. DynvHolds'
    <3>1. \A p \in DOMAIN dynv' : dynv'[p].tag = "IMPORT_LIB" =>
              \E l \in DOMAIN lib_recs' :
                  /\ Emitted(l)' /\ dynv'[p].id = lib_recs'[l].id
                  /\ \E q \in DOMAIN dynv' : q < p /\ Opens(q, p, lib_recs[l].module_id)'
      BY <1>1, <2>9
    <3>2. \A l \in DOMAIN lib_recs' : Emitted(l)' =>
              \E p \in DOMAIN dynv' : dynv'[p] = T!Entry("IMPORT_LIB", lib_recs'[l].id)
      BY <1>1, <2>6
    <3>3. \A p, q \in DOMAIN dynv' :
              dynv'[p].tag = "IMPORT_LIB" /\ dynv'[q] = dynv'[p] => p = q
      BY <2>11
    <3> QED
      BY <1>1, <1>2, <1>3, <2>2, <2>12, <3>1, <3>2, <3>3 DEF DynvHolds, DynEntry
  <2> QED
    BY <1>1, <1>4, <2>13, DriverWaits, ChainsAside, RecordsAside
<1> QED
  BY <1>12, <1>13

\* Every library record has been compared with the module.
LEMMA NextModuleKeeps ==
    ASSUME LinkInv, BuildTables, T!NextModule
    PROVE  DriverHolds' /\ ChainsHold' /\ RecordsHold' /\ DynvHolds'
<1>1. /\ phase = "dynamic" /\ phase' = "dynamic" /\ at' = at + 1
      /\ lib_at > Len(lib_recs) /\ lib_at' = 0
      /\ buckets' = buckets /\ chains' = chains
      /\ mod_recs' = mod_recs /\ lib_recs' = lib_recs /\ dynv' = dynv
  BY DEF T!NextModule
<1>2. at \in 1..(Len(mod_recs) + 1) /\ lib_at \in 0..(Len(lib_recs) + 1)
  BY <1>1 DEF LinkInv, DynvHolds
<1>3. lib_at > 0
  BY <1>1, <1>2, DynvLengths
<1>4. at <= Len(mod_recs)
  BY <1>1, <1>3 DEF LinkInv, DynvHolds
<1>5. at' \in 1..(Len(mod_recs) + 1) /\ at' \in Nat /\ 0 \in 0..(Len(lib_recs) + 1)
  BY <1>1, <1>2, <1>4, DynvLengths
<1>6. \A l \in DOMAIN lib_recs : l < lib_at /\ ~(l < 0)
  BY <1>1, <1>2, DynvLengths
<1>7. \A m \in DOMAIN mod_recs : m < at + 1 <=> (m < at \/ m = at)
  BY <1>2, DynvLengths
<1>8. \A l \in DOMAIN lib_recs : Emitted(l)' <=> Emitted(l)
  BY <1>1, <1>6, <1>7 DEF Emitted
<1>9. \A q, p, m : Opens(q, p, m)' <=> Opens(q, p, m)
  BY <1>1 DEF Opens
<1>10. \A p \in DOMAIN dynv' : dynv'[p].tag = "IMPORT_LIB" =>
           \E l \in DOMAIN lib_recs' :
               /\ Emitted(l)' /\ dynv'[p].id = lib_recs'[l].id
               /\ \E q \in DOMAIN dynv' : q < p /\ Opens(q, p, lib_recs[l].module_id)'
  <2>1. \A p \in DOMAIN dynv : dynv[p].tag = "IMPORT_LIB" =>
            \E l \in DOMAIN lib_recs :
                /\ Emitted(l)' /\ dynv[p].id = lib_recs[l].id
                /\ \E q \in DOMAIN dynv : q < p /\ Opens(q, p, lib_recs[l].module_id)
    BY <1>1, <1>8 DEF LinkInv, DynvHolds
  <2> QED
    BY <1>1, <2>1 DEF Opens
<1>11. DynvHolds'
  BY <1>1, <1>5, <1>8, <1>10 DEF LinkInv, DynvHolds
<1> QED
  BY <1>1, <1>5, <1>11, DriverWaits, ChainsAside, RecordsAside

LEMMA EndDynamicKeeps ==
    ASSUME LinkInv, BuildTables, T!EndDynamic
    PROVE  DriverHolds' /\ ChainsHold' /\ RecordsHold' /\ DynvHolds'
<1>1. /\ phase = "dynamic" /\ phase' = "done" /\ at' = at /\ lib_at' = lib_at
      /\ at > Len(mod_recs) /\ lib_at = 0
      /\ buckets' = buckets /\ chains' = chains
      /\ mod_recs' = mod_recs /\ lib_recs' = lib_recs /\ dynv' = dynv
  BY DEF T!EndDynamic
<1>2. at' \in Nat
  BY <1>1 DEF LinkInv, DriverHolds
<1>3. DynvHolds'
  BY <1>1 DEF LinkInv, DynvHolds, Emitted, Opens
<1> QED
  BY <1>1, <1>2, <1>3, DriverWaits, ChainsAside, RecordsAside

LEMMA LinkKeeps == LinkInv /\ [LinkNext]_LinkVars => LinkInv'
<1> SUFFICES ASSUME LinkInv, [LinkNext]_LinkVars
             PROVE  LinkInv'
  OBVIOUS
<1>1. ResolveInv'
  BY LinkResolves, ResolveNextKeeps DEF LinkInv
<1>2. CASE BuildTables
  <2>1. T!Next
    BY <1>2 DEF BuildTables
  <2>2. DriverHolds' /\ ChainsHold' /\ RecordsHold' /\ DynvHolds'
    BY <1>2, <2>1, HashSymbolKeeps, EndHashKeeps, RecordImportKeeps, EndRecordsKeeps,
       EmitModuleKeeps, EmitLibraryKeeps, NextModuleKeeps, EndDynamicKeeps DEF T!Next
  <2> QED
    BY <1>1, <2>2 DEF LinkInv
<1>3. CASE StartTables
  BY <1>1, <1>3, StartTablesKeeps DEF LinkInv
<1>4. CASE ~BuildTables /\ ~StartTables
  BY <1>1, <1>4, DriverSteps DEF LinkInv, LinkNext
<1> QED
  BY <1>2, <1>3, <1>4

LEMMA LinkAlways == LinkSpec => []LinkInv
BY LinkStarts, LinkKeeps, PTL DEF LinkSpec

------------------------------------------------------------------------------
\* The driver, the resolver and the tables keep to their types in every link.
THEOREM LinkTypeCorrect == LinkSpec => []LinkTypeOK
<1>1. LinkInv => LinkTypeOK
  <2> SUFFICES ASSUME LinkInv
               PROVE  LinkTypeOK
    OBVIOUS
  <2>1. lib_at \in 0..(Len(lib_recs) + 1)
    <3>1. 0 \in 0..(Len(lib_recs) + 1)
      BY DynvLengths
    <3> QED
      BY <3>1 DEF LinkInv, DriverHolds, DynvHolds
  <2>2. CASE phase = "idle"
    <3>1. buckets = <<>> /\ chains = <<>>
      BY <2>2 DEF LinkInv, DriverHolds
    <3>2. buckets \in [DOMAIN buckets -> DOMAIN buckets]
          /\ chains \in [DOMAIN buckets -> DOMAIN buckets]
      <4>1. <<>> \in [{} -> {}] /\ DOMAIN <<>> = {}
        OBVIOUS
      <4> QED
        BY <3>1, <4>1
    <3>3. T!TypeOK
      BY <2>1, <2>2, <3>2 DEF LinkInv, DriverHolds, RecordsHold, DynvHolds, T!TypeOK, T!Symbol0
    <3> QED
      BY <2>2, <3>3 DEF LinkInv, ResolveInv, DriverHolds, LinkTypeOK
  <2>3. CASE phase # "idle"
    <3>1. hashes \in [DOMAIN imports -> Hash]
      BY <2>3 DEF LinkInv, DriverHolds
    <3>2. HandedOver \in Seq(T!Import) /\ Len(HandedOver) = Len(imports)
      BY <3>1, HandedOverIs DEF LinkInv
    <3>3. /\ buckets \in [0..Len(imports) -> 0..Len(imports)]
          /\ chains \in [0..Len(imports) -> 0..Len(imports)]
          /\ phase = "hash" => at \in 0..Len(imports)
      BY <2>3 DEF LinkInv, ChainsHold
    <3>4. T!Symbol0 = 0..Len(imports)
      BY <3>3 DEF T!Symbol0
    <3>5. T!TypeOK
      BY <2>1, <3>2, <3>3, <3>4
         DEF LinkInv, DriverHolds, RecordsHold, DynvHolds, T!TypeOK
    <3> QED
      BY <3>1, <3>5 DEF LinkInv, ResolveInv, DriverHolds, LinkTypeOK
  <2> QED
    BY <2>2, <2>3
<1> QED
  BY <1>1, LinkAlways, PTL

\* A chain never turns back and never leaves its bucket.
THEOREM ChainsAlwaysAscend == LinkSpec => []ChainsAscend
<1>1. LinkInv => ChainsAscend
  <2> SUFFICES ASSUME LinkInv
               PROVE  T!ChainsAscend
    BY DEF ChainsAscend
  <2>1. phase = "idle" => T!HashedIn = {}
    BY DEF LinkInv, DriverHolds, T!HashedIn, T!Symbol0
  <2> QED
    BY <2>1 DEF LinkInv, ChainsHold, T!ChainsAscend
<1> QED
  BY <1>1, LinkAlways, PTL

\* Every import is met on the walk from its bucket, and every walk ends, for
\* any number of imports and whatever their hashes.
THEOREM EveryImportAlwaysFound == LinkSpec => []EveryImportFound
BY WalksMeetTheImports, LinkAlways, PTL DEF EveryImportFound

\* With the dynamic table written, an import's library is listed once, in the
\* list of its module.
LEMMA ImportsAreListed ==
    ASSUME LinkInv, phase = "done", NEW k \in DOMAIN imports
    PROVE  T!ListedUnderItsModule(imports[k])
<1>1. PICK l \in DOMAIN lib_recs : lib_recs[l] = RecordOf(k)
  BY DEF LinkInv, RecordsHold, RecordsMet
<1>2. lib_recs[l].id = imports[k].library_id /\ lib_recs[l].module_id = imports[k].module_id
  BY <1>1 DEF RecordOf
<1>3. PICK id \in Nat : id = imports[k].library_id
  BY <1>2, DynvLengths
<1>4. Emitted(l)
  <2>1. PICK m \in DOMAIN mod_recs : mod_recs[m] = lib_recs[l].module_id
    BY DEF LinkInv, RecordsHold
  <2>2. at > Len(mod_recs) /\ at \in Nat
    BY DEF LinkInv, DynvHolds, DriverHolds
  <2>3. m < at
    BY <2>2, DynvLengths
  <2> QED
    BY <2>1, <2>3 DEF Emitted
<1>5. PICK p \in DOMAIN dynv : dynv[p] = T!Entry("IMPORT_LIB", id)
  BY <1>2, <1>3, <1>4 DEF LinkInv, DynvHolds
<1>6. dynv[p].tag = "IMPORT_LIB" /\ dynv[p].id = id
  BY <1>5, DynvLengths
<1>7. \A q \in DOMAIN dynv : dynv[q] = T!Entry("IMPORT_LIB", id) => q = p
  BY <1>5, <1>6 DEF LinkInv, DynvHolds
<1>8. PICK q \in DOMAIN dynv : q < p /\ Opens(q, p, imports[k].module_id)
  <2>1. PICK m \in DOMAIN lib_recs :
            /\ dynv[p].id = lib_recs[m].id
            /\ \E q \in DOMAIN dynv : q < p /\ Opens(q, p, lib_recs[m].module_id)
    BY <1>6 DEF LinkInv, DynvHolds
  <2>2. m = l
    BY <1>2, <1>3, <1>6, <2>1 DEF LinkInv, RecordsHold
  <2> QED
    BY <1>2, <2>1, <2>2
<1>9. /\ q \in 1..(p - 1)
      /\ \A r \in (q + 1)..(p - 1) : r \in (q + 1)..p
  BY <1>8, DynvLengths
<1> DEFINE places == {i \in DOMAIN dynv : dynv[i] = T!Entry("IMPORT_LIB", imports[k].library_id)}
<1>10. places = {p}
  BY <1>3, <1>5, <1>7
<1>11. T!Cardinality(places) = 1
  <2>1. Cardinality(places) = 1
    BY <1>10, FS_Singleton
  <2>2. T!Cardinality(places) = Cardinality(places)
    BY DEF T!Cardinality, Cardinality
  <2> QED
    BY <2>1, <2>2
<1>12. \A i \in places : \E j \in 1..(i - 1) :
           /\ dynv[j] = T!Entry("NEEDED_MODULE", imports[k].module_id)
           /\ \A r \in (j + 1)..(i - 1) : dynv[r].tag # "NEEDED_MODULE"
  BY <1>8, <1>9, <1>10 DEF Opens
<1> QED
  BY <1>11, <1>12 DEF T!ListedUnderItsModule

\* linker.h, dynwriter.c: after a link that answers 0, whatever the objects and
\* the catalog, the loader can bind every name the program means from outside.
THEOREM LinkedAlwaysMeansBindable == LinkSpec => []LinkedMeansBindable
<1>1. LinkInv => LinkedMeansBindable
  <2> SUFFICES ASSUME LinkInv, status = "success"
               PROVE  /\ nread = Len(objects) /\ EntryFound
                      /\ \A name \in Wanted : \E k \in DOMAIN imports :
                            /\ imports[k].plain_name = name
                            /\ T!FoundByHash(k)
                            /\ T!ListedUnderItsModule(imports[k])
    BY DEF LinkedMeansBindable
  <2>1. /\ phase = "done" /\ EntryFound
        /\ pc = "done" /\ unresolved = <<>> /\ nread = Len(objects)
        /\ hashes \in [DOMAIN imports -> Hash]
    BY DEF LinkInv, DriverHolds
  <2>2. ASSUME NEW name \in Wanted
        PROVE  \E k \in DOMAIN imports :
                  /\ imports[k].plain_name = name
                  /\ T!FoundByHash(k) /\ T!ListedUnderItsModule(imports[k])
    <3>1. Imported(name)
      BY <2>1, WantedNames DEF LinkInv, Reported
    <3>2. PICK k \in DOMAIN imports : imports[k].plain_name = name
      BY <3>1 DEF Imported
    <3>3. k \in T!HashedIn
      <4>1. Len(imports) \in Nat /\ DOMAIN imports = 1..Len(imports)
        BY <2>1, HandedOverIs DEF LinkInv
      <4>2. k \in 0..Len(imports) /\ k # 0
        BY <4>1
      <4>3. DOMAIN buckets = 0..Len(imports)
        BY <2>1 DEF LinkInv, ChainsHold
      <4> QED
        BY <2>1, <4>2, <4>3 DEF T!HashedIn, T!Symbol0
    <3>4. T!FoundByHash(k)
      BY <3>3, WalksMeetTheImports DEF T!EveryImportFound
    <3>5. T!ListedUnderItsModule(imports[k])
      BY <2>1, ImportsAreListed
    <3> QED
      BY <3>2, <3>4, <3>5
  <2> QED
    BY <2>1, <2>2
<1> QED
  BY <1>1, LinkAlways, PTL

==============================================================================
