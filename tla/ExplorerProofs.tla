---------------------------- MODULE ExplorerProofs ----------------------------
(***************************************************************************)
(* Whatever is refused, everything the explorer opens is closed once and   *)
(* in order; whatever directories answer, the cursor is on the screen, the *)
(* list is that of the path, and the path follows the moves as far as it   *)
(* fits its buffer.  For every size of the screen, the list and the path,  *)
(* and every length of a name.                                             *)
(***************************************************************************)
EXTENDS Explorer, SequenceTheorems, FiniteSetTheorems, WellFoundedInduction, TLAPS

\* A set of numbers has a least one: what stands here for induction.
LEMMA LeastOf ==
    ASSUME NEW numbers \in SUBSET Nat, numbers # {}
    PROVE  \E x \in numbers : \A y \in numbers : x <= y
<1>1. IsWellFoundedOn(OpToRel(<, Nat), Nat)
  BY NatLessThanWellFounded
<1>2. PICK x \in numbers : \A y \in numbers : ~(<<y, x>> \in OpToRel(<, Nat))
  BY <1>1, WFMin
<1>3. \A y \in numbers : ~(y < x)
  BY <1>2 DEF OpToRel
<1> QED
  BY <1>3

-------------------------------------------------------------------------------
\* What may be there when the program has come to a stage.
MayBeThere ==
    CASE stage = "renderer" -> {"window"}
      [] stage = "fonts" -> {"window", "renderer"}
      [] stage = "pad" -> Object \ {"ctrl"}
      [] stage \in {"run", "close_pad"} -> Object
      [] stage = "close_fonts" -> Object \ {"ctrl"}
      [] stage = "close_renderer" -> {"window", "renderer"}
      [] stage = "close_window" -> {"window"}
      [] OTHER -> {}

Stage == {"construct", "window", "renderer", "fonts", "pad", "run", "close_pad",
          "close_fonts", "close_renderer", "close_window", "quit_ttf", "quit_sdl", "ended"}

\* What is there has its owner, and until the libraries go down the context
\* knows of it.
ContextInv ==
    /\ stage \in Stage /\ pointer \subseteq Object /\ up \subseteq Library
    /\ alive \subseteq MayBeThere
    /\ stage = "renderer" => "window" \in alive
    /\ stage \notin {"quit_ttf", "quit_sdl", "ended"} => pointer = alive
    /\ \A object \in alive : Owner(object) \in alive \union up
    /\ ~misused

LEMMA ContextStarts == ContextInit => ContextInv
BY DEF ContextInit, ContextInv, MayBeThere, Stage, Object, Font, Library

LEMMA ContextKept == ContextInv /\ OpenAndClose => ContextInv'
<1> SUFFICES ASSUME ContextInv, OpenAndClose PROVE ContextInv'
  OBVIOUS
<1> USE DEF ContextInv, MayBeThere, Stage, Object, Font, Library, Owner
<1>1. CASE Construct
  BY <1>1 DEF Construct
<1>2. CASE OpenWindow
  BY <1>2 DEF OpenWindow, Create, AfterRefusal
<1>3. CASE OpenRenderer
  <2>1. stage = "renderer" /\ up' = up /\ alive = {"window"} /\ pointer = {"window"}
    BY <1>3 DEF OpenRenderer
  <2>2. CASE Create({"renderer"}) /\ stage' = "fonts"
    BY <2>1, <2>2 DEF Create
  <2>3. CASE Destroy({"window"}) /\ stage' = AfterRefusal /\ pointer' = pointer
    <3>1. "SDL" \in alive \union up
      BY <2>1
    <3>2. alive' = {} /\ stage' = "quit_ttf" /\ ~misused'
      BY <2>1, <2>3, <3>1 DEF Destroy, AfterRefusal
    <3> QED
      BY <2>1, <2>3, <3>2
  <2> QED
    BY <1>3, <2>2, <2>3 DEF OpenRenderer
<1>4. CASE OpenFonts
  <2>1. PICK fonts \in {{}, {"font"}, Font} : Create(fonts)
    BY <1>4 DEF OpenFonts
  <2>2. /\ stage = "fonts" /\ stage' = "pad" /\ up' = up /\ fonts \subseteq Font
        /\ pointer' = pointer \union fonts /\ alive' = alive \union fonts
        /\ misused' = misused /\ \A o \in fonts : Owner(o) \in alive \union up
    BY <1>4, <2>1 DEF OpenFonts, Create
  <2>3. \A o \in alive' : Owner(o) \in alive' \union up'
    BY <2>2
  <2> QED
    BY <2>2, <2>3
<1>5. CASE OpenPad
  BY <1>5 DEF OpenPad, Create
<1>6. CASE ClosePad
  BY <1>6 DEF ClosePad, CloseFields, Destroy
<1>7. CASE CloseFonts
  BY <1>7 DEF CloseFonts, CloseFields, Destroy
<1>8. CASE CloseRenderer
  BY <1>8 DEF CloseRenderer, CloseFields, Destroy
<1>9. CASE CloseWindow
  BY <1>9 DEF CloseWindow, CloseFields, Destroy
<1>10. CASE Quit
  BY <1>10 DEF Quit
<1> QED
  BY <1>1, <1>2, <1>3, <1>4, <1>5, <1>6, <1>7, <1>8, <1>9, <1>10 DEF OpenAndClose

-------------------------------------------------------------------------------
\* Paths: slashes and names by turns from the first slash on, each behind the
\* other.
PathToken == [name : DOMAIN NameLength \union {"/"}, end : Nat]

WellBuilt(path) ==
    /\ path \in Seq(PathToken) /\ Len(path) > 0 /\ path[1] = Token("/", 1)
    /\ \A i, j \in 1..Len(path) : i < j => path[i].end < path[j].end
    /\ \A k \in 1..(Len(path) - 1) : path[k].name = "/" <=> path[k + 1].name # "/"

\* A path that does not fill the buffer ends with a name, but for the root.
Fits(path) ==
    /\ PathLength(path) <= MAX_PATH
    /\ Last(path).name = "/" /\ Len(path) > 1 => PathLength(path) = MAX_PATH

LEMMA PathFacts ==
    ASSUME NEW path, WellBuilt(path)
    PROVE  /\ Len(path) \in Nat \ {0} /\ DOMAIN path = 1..Len(path)
           /\ \A k \in 1..Len(path) : path[k] \in PathToken /\ path[k].end \in Nat
           /\ Last(path) \in ToSet(path) /\ Last(path) \in PathToken
           /\ PathLength(path) \in Nat \ {0}
           /\ PathLength(path) > 1 <=> path # Root
           /\ Len(path) > 1 <=> path # Root
           /\ \A token \in ToSet(path) : token.end <= PathLength(path)
<1>1. Len(path) \in Nat \ {0} /\ DOMAIN path = 1..Len(path)
  BY LenProperties DEF WellBuilt
<1>2. \A k \in 1..Len(path) : path[k] \in PathToken
  BY ElementOfSeq DEF WellBuilt
<1>3. \A token \in PathToken : token.end \in Nat
  BY DEF PathToken
<1>4. Last(path) = path[Len(path)] /\ Len(path) \in 1..Len(path) /\ 1 \in 1..Len(path)
  BY <1>1 DEF Last
<1>5. path[1].end = 1
  BY DEF WellBuilt, Token
<1>6. \A k \in 1..Len(path) : k = Len(path) \/ path[k].end < PathLength(path)
  BY <1>1, <1>4 DEF WellBuilt, PathLength
<1>7. PathLength(path) \in Nat
  BY <1>2, <1>3, <1>4 DEF PathLength
<1>8. \A token \in ToSet(path) : token.end <= PathLength(path)
  <2> SUFFICES ASSUME NEW k \in 1..Len(path) PROVE path[k].end <= PathLength(path)
    BY <1>1 DEF ToSet
  <2>1. path[k].end \in Nat /\ PathLength(path) \in Nat
    BY <1>2, <1>3, <1>7
  <2>2. CASE k = Len(path)
    BY <1>4, <2>1, <2>2 DEF PathLength
  <2>3. CASE path[k].end < PathLength(path)
    BY <2>1, <2>3
  <2> QED
    BY <1>6, <2>2, <2>3
<1>9. Last(path) \in ToSet(path)
  BY <1>1, <1>4 DEF ToSet
<1>10. Root \in Seq(PathToken) /\ Len(Root) = 1 /\ Root[1] = Token("/", 1)
  BY DEF Root, Token, PathToken
<1>11. CASE Len(path) = 1
  <2>1. path = Root
    BY <1>10, <1>11, SeqEqual DEF WellBuilt
  <2>2. PathLength(path) = 1
    BY <1>4, <1>5, <1>11 DEF PathLength
  <2>3. PathLength(path) \in Nat \ {0} /\ ~(PathLength(path) > 1) /\ ~(Len(path) > 1)
    BY <1>11, <2>2
  <2> QED
    BY <1>1, <1>2, <1>3, <1>4, <1>8, <1>9, <2>1, <2>3
<1>12. CASE Len(path) # 1
  <2>1. path # Root
    BY <1>10, <1>12
  <2>2. Len(path) > 1
    BY <1>1, <1>12
  <2>3. PathLength(path) > 1
    <3>1. 1 < PathLength(path)
      BY <1>4, <1>5, <1>6, <1>12
    <3> QED
      BY <1>7, <3>1
  <2>4. PathLength(path) \in Nat \ {0}
    BY <1>7, <2>3
  <2> QED
    BY <1>1, <1>2, <1>3, <1>4, <1>8, <1>9, <2>1, <2>2, <2>3, <2>4
<1> QED
  BY <1>11, <1>12

LEMMA RootIs == WellBuilt(Root) /\ PathLength(Root) = 1 /\ Last(Root) = Token("/", 1) /\ Len(Root) = 1
<1>1. Root \in Seq(PathToken) /\ Len(Root) = 1 /\ Root[1] = Token("/", 1)
  BY DEF Root, Token, PathToken
<1> QED
  BY <1>1 DEF WellBuilt, PathLength, Last, Token

LEMMA LongerPath ==
    ASSUME NEW path, WellBuilt(path), NEW token \in PathToken,
           PathLength(path) < token.end, Last(path).name = "/" <=> token.name # "/"
    PROVE  /\ WellBuilt(Append(path, token))
           /\ Last(Append(path, token)) = token
           /\ Len(Append(path, token)) = Len(path) + 1
           /\ Denoted(Append(path, token))
                 = Denoted(path) \union {t \in {token} : t.name # "/"}
<1> DEFINE longer == Append(path, token)
<1>1. /\ longer \in Seq(PathToken) /\ Len(longer) = Len(path) + 1
      /\ \A k \in 1..Len(path) : longer[k] = path[k]
      /\ longer[Len(path) + 1] = token
  BY AppendProperties DEF WellBuilt
<1>2. DOMAIN longer = 1..(Len(path) + 1)
  BY <1>1, LenProperties
<1> HIDE DEF longer
<1>3. \A k \in 1..(Len(path) + 1) : k \in 1..Len(path) \/ k = Len(path) + 1
  BY PathFacts
<1>4. \A k \in 1..Len(path) : path[k].end < token.end
  <2> SUFFICES ASSUME NEW k \in 1..Len(path) PROVE path[k].end < token.end
    OBVIOUS
  <2>1. path[k] \in ToSet(path)
    BY PathFacts DEF ToSet
  <2>2. path[k].end <= PathLength(path) /\ path[k].end \in Nat /\ PathLength(path) \in Nat
    BY <2>1, PathFacts
  <2>3. token.end \in Nat
    BY DEF PathToken
  <2> QED
    BY <2>2, <2>3
<1>5. \A i, j \in 1..Len(longer) : i < j => longer[i].end < longer[j].end
  <2> SUFFICES ASSUME NEW i \in 1..Len(longer), NEW j \in 1..Len(longer), i < j
               PROVE  longer[i].end < longer[j].end
    OBVIOUS
  <2>1. i \in 1..Len(path)
    BY <1>1, PathFacts
  <2>2. CASE j \in 1..Len(path)
    BY <1>1, <2>1, <2>2 DEF WellBuilt
  <2>3. CASE j = Len(path) + 1
    BY <1>1, <1>4, <2>1, <2>3
  <2> QED
    BY <1>1, <1>3, <2>2, <2>3
<1>6. \A k \in 1..(Len(longer) - 1) : longer[k].name = "/" <=> longer[k + 1].name # "/"
  <2> SUFFICES ASSUME NEW k \in 1..Len(path)
               PROVE  longer[k].name = "/" <=> longer[k + 1].name # "/"
    <3>1. Len(path) \in Nat /\ Len(longer) - 1 = Len(path)
      BY <1>1, PathFacts
    <3> QED
      BY <3>1
  <2>1. CASE k = Len(path)
    BY <1>1, <2>1 DEF Last
  <2>2. CASE k # Len(path)
    <3>1. k \in 1..(Len(path) - 1) /\ k + 1 \in 1..Len(path)
      BY <2>2, PathFacts
    <3> QED
      BY <1>1, <3>1 DEF WellBuilt
  <2> QED
    BY <2>1, <2>2
<1>7. WellBuilt(longer)
  <2>1. 1 \in 1..Len(path) /\ Len(longer) > 0
    BY <1>1, PathFacts
  <2> QED
    BY <1>1, <1>5, <1>6, <2>1 DEF WellBuilt
<1>8. ToSet(longer) = ToSet(path) \union {token}
  <2>1. /\ \A k \in 1..Len(path) : k \in 1..(Len(path) + 1)
        /\ Len(path) + 1 \in 1..(Len(path) + 1)
        /\ DOMAIN path = 1..Len(path)
    BY PathFacts
  <2>2. \A k \in 1..Len(path) : path[k] \in ToSet(longer)
    BY <1>1, <1>2, <2>1 DEF ToSet
  <2>3. token \in ToSet(longer)
    BY <1>1, <1>2, <2>1 DEF ToSet
  <2>4. \A k \in 1..(Len(path) + 1) : longer[k] \in ToSet(path) \union {token}
    <3>1. \A k \in 1..Len(path) : longer[k] \in ToSet(path)
      BY <1>1, <2>1 DEF ToSet
    <3> QED
      BY <1>1, <1>3, <3>1
  <2>5. ToSet(longer) \subseteq ToSet(path) \union {token}
    BY <1>2, <2>4 DEF ToSet
  <2>6. ToSet(path) \subseteq ToSet(longer)
    BY <2>1, <2>2 DEF ToSet
  <2> QED
    BY <2>3, <2>5, <2>6
<1> QED
  BY <1>1, <1>7, <1>8 DEF longer, Last, Denoted

LEMMA ShorterPath ==
    ASSUME NEW path, WellBuilt(path), Len(path) > 1
    PROVE  /\ WellBuilt(Front(path))
           /\ Len(Front(path)) = Len(path) - 1
           /\ PathLength(Front(path)) < PathLength(path)
           /\ Last(Front(path)).name = "/" <=> Last(path).name # "/"
           /\ Denoted(Front(path)) = Denoted(path) \ {Last(path)}
<1> DEFINE shorter == Front(path)
           n == Len(path) - 1
<1>1. n \in Nat \ {0} /\ n + 1 = Len(path) /\ n \in 1..Len(path) /\ Len(path) \in 1..Len(path)
  BY PathFacts
<1>2. /\ shorter \in Seq(PathToken) /\ Len(shorter) = n
      /\ \A k \in 1..n : shorter[k] = path[k]
  <2>1. \A k \in 1..n : path[k] \in PathToken
    BY <1>1, PathFacts
  <2>2. /\ SubSeq(path, 1, n) \in Seq(PathToken)
        /\ Len(SubSeq(path, 1, n)) = IF 1 <= n THEN n - 1 + 1 ELSE 0
        /\ \A k \in 1..(n - 1 + 1) : SubSeq(path, 1, n)[k] = path[1 + k - 1]
    BY <1>1, <2>1, SubSeqProperties
  <2>3. n - 1 + 1 = n /\ 1 <= n /\ \A k \in 1..n : 1 + k - 1 = k
    BY <1>1
  <2> HIDE DEF n
  <2> QED
    BY <2>2, <2>3 DEF Front, n
<1>3. DOMAIN shorter = 1..n /\ DOMAIN path = 1..(n + 1)
  BY <1>1, <1>2, LenProperties, PathFacts
<1> HIDE DEF shorter, n
<1>4. \A k \in 1..n : k \in 1..Len(path) /\ k < Len(path)
  BY <1>1
<1>5. WellBuilt(shorter)
  <2>1. \A k \in 1..(n - 1) : k \in 1..(Len(path) - 1) /\ k \in 1..n /\ k + 1 \in 1..n
    BY <1>1
  <2>2. \A k \in 1..(n - 1) : shorter[k].name = "/" <=> shorter[k + 1].name # "/"
    BY <1>2, <2>1 DEF WellBuilt
  <2>3. \A i, j \in 1..n : i < j => shorter[i].end < shorter[j].end
    BY <1>2, <1>4 DEF WellBuilt
  <2>4. 1 \in 1..n /\ n > 0
    BY <1>1
  <2> QED
    BY <1>2, <2>2, <2>3, <2>4 DEF WellBuilt
<1>6. Last(shorter) = path[n] /\ Last(path) = path[n + 1]
  BY <1>1, <1>2 DEF Last
<1>7. path[n].end < path[n + 1].end /\ (path[n].name = "/" <=> path[n + 1].name # "/")
  <2>1. n \in 1..(Len(path) - 1)
    BY <1>1
  <2> QED
    BY <1>1, <2>1 DEF WellBuilt
<1>8. ToSet(shorter) = ToSet(path) \ {Last(path)}
  <2>1. \A k \in 1..n : path[k] # path[n + 1]
    <3>1. \A k \in 1..n : path[k].end < path[n + 1].end
      BY <1>1, <1>4 DEF WellBuilt
    <3>2. path[n + 1].end \in Nat
      BY <1>1, PathFacts
    <3> QED
      BY <3>1, <3>2
  <2>2. \A k \in 1..(n + 1) : k \in 1..n \/ k = n + 1
    BY <1>1
  <2>3. \A k \in 1..n : k \in 1..(n + 1)
    BY <1>1
  <2> QED
    BY <1>2, <1>3, <1>6, <2>1, <2>2, <2>3 DEF ToSet
<1> QED
  BY <1>2, <1>5, <1>6, <1>7, <1>8 DEF shorter, n, PathLength, Denoted

NameFits(path, name) ==
    PathLength(path) + (IF path = Root THEN 0 ELSE 1) + NameLength[name] <= MAX_PATH

Added(longer, path) == Denoted(longer) \ Denoted(path)

\* Entering appends a slash and a name as far as they fit (fb_explorer.c:50-52).
LEMMA JoinedIs ==
    ASSUME NEW path, WellBuilt(path), Fits(path), NEW name \in DOMAIN NameLength
    PROVE  /\ WellBuilt(Joined(path, name)) /\ Fits(Joined(path, name))
           /\ Denoted(path) \subseteq Denoted(Joined(path, name))
           /\ \A token \in Denoted(path), new \in Added(Joined(path, name), path) :
                  token.end < new.end
           /\ NameFits(path, name) =>
                  Added(Joined(path, name), path) = {Token(name, PathLength(Joined(path, name)))}
           /\ ~NameFits(path, name) =>
                  /\ PathLength(Joined(path, name)) = MAX_PATH
                  /\ \/ Added(Joined(path, name), path) = {}
                     \/ \E other \in DOMAIN NameLength \ {name} :
                            Added(Joined(path, name), path) = {Token(other, MAX_PATH)}
<1> DEFINE base == WithSlash(path)
           slashes == IF path = Root THEN 0 ELSE 1
           kept == IF NameLength[name] < Room(base) THEN NameLength[name] ELSE Room(base)
<1>1. MAX_PATH \in Nat /\ MAX_PATH > 1 /\ NameLength[name] \in Nat \ {0}
  BY SizesAssumption, NamesAssumption
<1>2. PathLength(path) \in Nat \ {0} /\ PathLength(path) <= MAX_PATH
  BY PathFacts DEF Fits
<1>3. /\ WellBuilt(base) /\ PathLength(base) \in Nat /\ PathLength(base) <= MAX_PATH
      /\ PathLength(base) = MAX_PATH \/ Last(base).name = "/"
      /\ PathLength(base) = MAX_PATH \/ PathLength(base) = PathLength(path) + slashes
      /\ PathLength(base) <= PathLength(path) + slashes
      /\ Denoted(base) = Denoted(path)
      /\ \A token \in Denoted(path) : token.end <= PathLength(base)
  <2>1. CASE PathLength(path) \in 2..(MAX_PATH - 1)
    <3> DEFINE slash == Token("/", PathLength(path) + 1)
    <3>1. slash \in PathToken /\ slash.name = "/" /\ slash.end = PathLength(path) + 1
      BY <1>2 DEF Token, PathToken
    <3>2. base = Append(path, slash)
      BY <2>1 DEF WithSlash
    <3>3. Len(path) > 1 /\ PathLength(path) < slash.end /\ PathLength(path) # MAX_PATH
      BY <1>1, <1>2, <2>1, <3>1, PathFacts
    <3>4. Last(path).name # "/"
      BY <3>3 DEF Fits
    <3> HIDE DEF slash, base
    <3>5. /\ WellBuilt(base) /\ Last(base) = slash
          /\ Denoted(base) = Denoted(path) \union {t \in {slash} : t.name # "/"}
          /\ Len(base) = Len(path) + 1
      BY <3>1, <3>2, <3>3, <3>4, LongerPath
    <3>6. PathLength(base) = PathLength(path) + 1
      BY <3>1, <3>5 DEF PathLength
    <3>7. \A token \in Denoted(base) : token.end <= PathLength(base)
      BY <3>5, PathFacts DEF Denoted
    <3>8. Denoted(base) = Denoted(path)
      BY <3>1, <3>5
    <3>9. slashes = 1
      BY <3>3, PathFacts
    <3> HIDE DEF slashes
    <3> QED
      BY <1>1, <1>2, <2>1, <3>1, <3>5, <3>6, <3>7, <3>8, <3>9
  <2>2. CASE PathLength(path) \notin 2..(MAX_PATH - 1)
    <3>1. base = path
      BY <2>2 DEF WithSlash
    <3>2. PathLength(path) = 1 \/ PathLength(path) = MAX_PATH
      BY <1>1, <1>2, <2>2
    <3>3. PathLength(path) = 1 => path = Root
      BY PathFacts
    <3>4. \A token \in Denoted(path) : token.end <= PathLength(path)
      BY PathFacts DEF Denoted
    <3>5. Last(Root).name = "/" /\ PathLength(Root) = 1
      BY RootIs DEF Token
    <3>6. slashes \in {0, 1} /\ (path = Root => slashes = 0)
      OBVIOUS
    <3> HIDE DEF base, slashes
    <3> QED
      BY <1>2, <3>1, <3>2, <3>3, <3>4, <3>5, <3>6
  <2> QED
    BY <2>1, <2>2
<1>4. Room(base) \in Nat /\ Room(base) = MAX_PATH - PathLength(base)
  BY <1>1, <1>3 DEF Room
<1>5. NameFits(path, name) <=> NameLength[name] <= Room(base)
  <2>1. slashes \in {0, 1} /\ (NameFits(path, name) <=> PathLength(path) + slashes + NameLength[name] <= MAX_PATH)
    BY DEF NameFits
  <2> HIDE DEF base, slashes
  <2> QED
    BY <1>1, <1>2, <1>3, <1>4, <2>1
<1>6. /\ kept \in Nat /\ kept <= Room(base) /\ (kept = 0 <=> Room(base) = 0)
      /\ NameFits(path, name) => kept = NameLength[name]
      /\ ~NameFits(path, name) => kept = Room(base) /\ kept # NameLength[name]
      /\ kept <= NameLength[name]
  BY <1>1, <1>4, <1>5
<1>7. Joined(path, name)
          = IF kept = 0 THEN base
            ELSE Append(base, Token(Beginning(name, kept), PathLength(base) + kept))
  BY DEF Joined
<1> HIDE DEF base, kept, slashes
<1>8. CASE kept = 0
  <2>1. Joined(path, name) = base /\ PathLength(base) = MAX_PATH
    BY <1>1, <1>3, <1>4, <1>6, <1>7, <1>8
  <2>2. ~NameFits(path, name)
    BY <1>1, <1>6, <1>8
  <2>3. Added(base, path) = {}
    BY <1>3 DEF Added
  <2> QED
    BY <1>1, <1>3, <2>1, <2>2, <2>3 DEF Fits
<1>9. CASE kept # 0
  <2> DEFINE spelled == Beginning(name, kept)
             entered == Token(spelled, PathLength(base) + kept)
  <2>1. /\ spelled \in DOMAIN NameLength /\ NameLength[spelled] = kept
        /\ kept = NameLength[name] => spelled = name
    <3>1. kept \in 1..NameLength[name]
      BY <1>1, <1>6, <1>9
    <3> QED
      BY <3>1, BeginningsAssumption
  <2>2. spelled # "/"
    BY <2>1, NamesAssumption
  <2> HIDE DEF spelled
  <2>3. /\ entered \in PathToken /\ entered.name = spelled
        /\ entered.end = PathLength(base) + kept /\ entered.end \in Nat
        /\ entered.end <= MAX_PATH /\ PathLength(base) < entered.end
    BY <1>1, <1>3, <1>4, <1>6, <1>9, <2>1 DEF Token, PathToken
  <2>4. Last(base).name = "/"
    BY <1>1, <1>3, <1>4, <1>6, <1>9
  <2>5. Joined(path, name) = Append(base, entered)
    BY <1>7, <1>9 DEF spelled
  <2>6. entered = Token(spelled, entered.end)
    BY <2>3
  <2> HIDE DEF entered
  <2>7. /\ WellBuilt(Joined(path, name)) /\ Last(Joined(path, name)) = entered
        /\ Denoted(Joined(path, name)) = Denoted(base) \union {t \in {entered} : t.name # "/"}
    BY <1>3, <2>2, <2>3, <2>4, <2>5, LongerPath
  <2>8. Denoted(Joined(path, name)) = Denoted(path) \union {entered}
    BY <1>3, <2>2, <2>3, <2>7
  <2>9. \A token \in Denoted(path) : token.end < entered.end
    <3> SUFFICES ASSUME NEW token \in Denoted(path) PROVE token.end < entered.end
      OBVIOUS
    <3>1. token.end \in Nat
      <4>1. token \in ToSet(path)
        BY DEF Denoted
      <4> QED
        BY <4>1, PathFacts DEF ToSet
    <3>2. token.end <= PathLength(base)
      BY <1>3
    <3> QED
      BY <1>3, <2>3, <3>1, <3>2
  <2>10. Added(Joined(path, name), path) = {entered}
    <3>1. entered \notin Denoted(path)
      BY <2>3, <2>9
    <3> QED
      BY <2>8, <3>1 DEF Added
  <2>11. PathLength(Joined(path, name)) = entered.end
    BY <2>7 DEF PathLength
  <2>12. Fits(Joined(path, name))
    BY <1>1, <2>2, <2>3, <2>7, <2>11 DEF Fits
  <2>13. NameFits(path, name) => entered = Token(name, entered.end)
    BY <1>6, <2>1, <2>6
  <2>14. ~NameFits(path, name) => entered.end = MAX_PATH /\ spelled # name
    BY <1>1, <1>3, <1>4, <1>6, <2>1, <2>3
  <2> QED
    BY <2>1, <2>6, <2>7, <2>8, <2>9, <2>10, <2>11, <2>12, <2>13, <2>14
<1> QED
  BY <1>8, <1>9

\* Going up finds the slash in front of the last name, wherever the path was cut
\* (fb_explorer.c:45-48).
LEMMA ParentIs ==
    ASSUME NEW path, WellBuilt(path), Fits(path), PathLength(path) > 1
    PROVE  /\ WellBuilt(Parent(path)) /\ Fits(Parent(path))
           /\ \E deepest \in Denoted(path) :
                 /\ \A token \in Denoted(path) : token.end <= deepest.end
                 /\ Denoted(Parent(path)) = Denoted(path) \ {deepest}
<1> DEFINE rest == SlashDropped(path)
           base == Front(rest)
<1>1. MAX_PATH \in Nat /\ MAX_PATH > 1 /\ Len(path) > 1 /\ PathLength(path) <= MAX_PATH
  BY SizesAssumption, PathFacts DEF Fits
<1>2. /\ WellBuilt(rest) /\ Len(rest) > 1 /\ Last(rest).name # "/"
      /\ PathLength(rest) <= MAX_PATH /\ Denoted(rest) = Denoted(path)
  <2>1. CASE Last(path).name = "/"
    <3>1. rest = Front(path)
      BY <2>1 DEF SlashDropped
    <3> HIDE DEF rest
    <3>2. /\ WellBuilt(rest) /\ Len(rest) = Len(path) - 1
          /\ PathLength(rest) < PathLength(path) /\ Last(rest).name # "/"
          /\ Denoted(rest) = Denoted(path) \ {Last(path)}
      BY <1>1, <2>1, <3>1, ShorterPath
    <3>3. rest # Root
      BY <3>2, RootIs DEF Token
    <3>4. Len(rest) > 1
      BY <3>2, <3>3, PathFacts
    <3>5. Denoted(rest) = Denoted(path)
      BY <2>1, <3>2 DEF Denoted
    <3>6. PathLength(rest) \in Nat /\ PathLength(path) \in Nat
      BY <3>2, PathFacts
    <3> QED
      BY <1>1, <3>2, <3>4, <3>5, <3>6
  <2>2. CASE Last(path).name # "/"
    BY <1>1, <2>2 DEF SlashDropped
  <2> QED
    BY <2>1, <2>2
<1>3. Parent(path) = IF Len(base) > 1 THEN Front(base) ELSE base
  BY <1>2 DEF Parent
<1> HIDE DEF rest
<1>4. /\ WellBuilt(base) /\ Last(base).name = "/" /\ PathLength(base) < PathLength(rest)
      /\ Denoted(base) = Denoted(path) \ {Last(rest)}
  BY <1>2, ShorterPath
<1>5. Last(rest) \in Denoted(path) /\ \A token \in Denoted(path) : token.end <= Last(rest).end
  <2>1. Last(rest) \in Denoted(rest)
    BY <1>2, PathFacts DEF Denoted
  <2>2. \A token \in Denoted(rest) : token.end <= Last(rest).end
    BY <1>2, PathFacts DEF Denoted, PathLength
  <2> QED
    BY <1>2, <2>1, <2>2
<1> HIDE DEF base
<1>6. PathLength(base) \in Nat /\ PathLength(base) < MAX_PATH
  <2>1. PathLength(base) \in Nat /\ PathLength(rest) \in Nat
    BY <1>2, <1>4, PathFacts
  <2> QED
    BY <1>1, <1>2, <1>4, <2>1
<1>7. CASE Len(base) > 1
  <2>1. /\ WellBuilt(Front(base)) /\ PathLength(Front(base)) < PathLength(base)
        /\ Last(Front(base)).name # "/"
        /\ Denoted(Front(base)) = Denoted(base) \ {Last(base)}
    BY <1>4, <1>7, ShorterPath
  <2>2. Denoted(Front(base)) = Denoted(base)
    BY <1>4, <2>1 DEF Denoted
  <2>3. PathLength(Front(base)) \in Nat
    BY <2>1, PathFacts
  <2>4. Fits(Front(base))
    BY <1>1, <1>6, <2>1, <2>3 DEF Fits
  <2> QED
    BY <1>3, <1>4, <1>5, <1>7, <2>1, <2>2, <2>4
<1>8. CASE ~(Len(base) > 1)
  <2>1. Fits(base)
    BY <1>1, <1>6, <1>8 DEF Fits
  <2> QED
    BY <1>3, <1>4, <1>5, <1>8, <2>1
<1> QED
  BY <1>7, <1>8

-------------------------------------------------------------------------------
\* Lists: what can be entered has a length or is "..".
ShownName == DOMAIN NameLength \union {"..", "<ACCESS DENIED>", ""}

ListGood(list) ==
    /\ list \in Seq([name : ShownName, is_dir : BOOLEAN])
    /\ Len(list) \in 1..MAX_FILES
    /\ \A i \in 1..Len(list) :
          list[i].is_dir => list[i].name \in DOMAIN NameLength \union {".."}

LEMMA OneEntry ==
    ASSUME NEW name \in ShownName, NEW is_dir \in BOOLEAN,
           is_dir => name \in DOMAIN NameLength \union {".."}
    PROVE  ListGood(<<Entry(name, is_dir)>>)
<1> DEFINE entry == Entry(name, is_dir)
           kind == [name : ShownName, is_dir : BOOLEAN]
<1>1. entry \in kind /\ entry.name = name /\ entry.is_dir = is_dir
  BY DEF Entry
<1> HIDE DEF entry, kind
<1>2. <<entry>> \in Seq(kind) /\ Len(<<entry>>) = 1 /\ <<entry>>[1] = entry
  BY <1>1
<1>3. 1 \in 1..MAX_FILES /\ \A i \in 1..1 : i = 1
  BY SizesAssumption
<1> QED
  BY <1>1, <1>2, <1>3 DEF ListGood, entry, kind

\* The entries in front of the last one shown left room for it.
LEMMA ShownFits ==
    ASSUME NEW answer, Len(answer) \in Nat, DOMAIN answer = 1..Len(answer)
    PROVE  IsFiniteSet(Shown(answer)) /\ Cardinality(Shown(answer)) \in 0..MAX_FILES
<1> DEFINE shown == Shown(answer)
           behind == {Len(answer) - k : k \in shown}
<1>1. shown \in SUBSET (1..Len(answer))
  BY DEF Shown
<1>2. IsFiniteSet(shown)
  <2>1. IsFiniteSet(1..Len(answer))
    BY FS_Interval
  <2> QED
    BY <1>1, <2>1, FS_Subset
<1>3. Cardinality(shown) \in Nat /\ MAX_FILES \in Nat \ {0}
  BY <1>2, FS_CardinalityType, SizesAssumption
<1>4. CASE shown = {}
  BY <1>2, <1>3, <1>4, FS_EmptySet
<1>5. CASE shown # {}
  <2>1. PICK last \in shown : \A k \in shown : k <= last
    <3>1. behind \in SUBSET Nat /\ behind # {}
      BY <1>1, <1>5
    <3>2. PICK x \in behind : \A y \in behind : x <= y
      BY <3>1, LeastOf
    <3>3. PICK k \in shown : x = Len(answer) - k
      BY <3>2
    <3>4. \A j \in shown : Len(answer) - k <= Len(answer) - j
      BY <3>2, <3>3
    <3>5. \A j \in shown : j <= k
      BY <1>1, <3>4
    <3> QED
      BY <3>5
  <2> DEFINE read == Named(answer, last - 1)
  <2>2. last \in Nat \ {0}
    BY <1>1
  <2>3. IsFiniteSet(read) /\ Cardinality(read) \in Nat /\ Cardinality(read) < MAX_FILES
    <3>1. IsFiniteSet(1..(last - 1))
      BY <2>2, FS_Interval
    <3>2. IsFiniteSet(read)
      <4>1. read \in SUBSET (1..(last - 1))
        BY DEF Named
      <4> QED
        BY <3>1, <4>1, FS_Subset
    <3>3. Cardinality(read) < MAX_FILES
      BY DEF Shown
    <3> QED
      BY <3>2, <3>3, FS_CardinalityType
  <2>4. shown \ {last} \in SUBSET read
    <3> SUFFICES ASSUME NEW k \in shown, k # last PROVE k \in read
      OBVIOUS
    <3>1. k \in 1..(last - 1)
      BY <1>1, <2>1, <2>2
    <3>2. answer[k].name # "."
      BY DEF Shown
    <3> QED
      BY <3>1, <3>2 DEF Named
  <2> HIDE DEF shown, read
  <2>5. Cardinality(shown \ {last}) <= Cardinality(read)
    BY <2>3, <2>4, FS_Subset
  <2>6. Cardinality(shown \ {last}) = Cardinality(shown) - 1
    BY <1>2, <2>1, FS_RemoveElement
  <2>7. Cardinality(shown) <= MAX_FILES
    BY <1>3, <2>3, <2>5, <2>6
  <2> QED
    BY <1>2, <1>3, <2>7 DEF shown
<1> QED
  BY <1>4, <1>5

LEMMA ListedIs ==
    ASSUME NEW answer \in Listings \union {Denied}, NEW entries,
           entries[1].is_dir \in BOOLEAN, NEW list \in Listed(answer, entries)
    PROVE  ListGood(list)
<1> DEFINE shown == Shown(answer)
           n == Cardinality(shown)
<1>1. CASE answer = Denied
  <2>1. list = <<Entry("<ACCESS DENIED>", FALSE)>>
    BY <1>1 DEF Listed, Denied
  <2> QED
    BY <2>1, OneEntry DEF ShownName
<1>2. CASE answer # Denied /\ shown = {}
  <2>1. list = <<Entry("<EMPTY>", entries[1].is_dir)>>
    BY <1>2 DEF Listed
  <2>2. "<EMPTY>" \in DOMAIN NameLength /\ "<EMPTY>" \in ShownName
    BY NamesAssumption DEF ShownName
  <2> QED
    BY <2>1, <2>2, OneEntry
<1>3. CASE answer # Denied /\ shown # {}
  <2>1. answer \in Seq([name : DOMAIN NameLength \union {".", ".."}, is_dir : BOOLEAN])
    BY <1>3, ListingsAssumption
  <2>2. Len(answer) \in Nat /\ DOMAIN answer = 1..Len(answer)
    BY <2>1, LenProperties
  <2>3. IsFiniteSet(shown) /\ n \in 0..MAX_FILES
    BY <2>2, ShownFits
  <2>4. n \in 1..MAX_FILES
    <3>1. n # 0
      BY <1>3, <2>3, FS_EmptySet
    <3> QED
      BY <2>3, <3>1, SizesAssumption
  <2>5. \A k \in shown : /\ answer[k] \in [name : ShownName, is_dir : BOOLEAN]
                         /\ answer[k].name \in DOMAIN NameLength \union {".."}
    <3> SUFFICES ASSUME NEW k \in shown
                 PROVE  /\ answer[k] \in [name : ShownName, is_dir : BOOLEAN]
                        /\ answer[k].name \in DOMAIN NameLength \union {".."}
      OBVIOUS
    <3>1. k \in DOMAIN answer /\ answer[k].name # "."
      BY DEF Shown
    <3>2. answer[k] \in [name : DOMAIN NameLength \union {".", ".."}, is_dir : BOOLEAN]
      BY <2>1, <2>2, <3>1, ElementOfSeq
    <3> QED
      BY <3>1, <3>2 DEF ShownName
  <2>6. PICK order \in Bijection(1..n, shown) : list = [i \in DOMAIN order |-> answer[order[i]]]
    BY <1>3 DEF Listed
  <2>7. order \in [1..n -> shown]
    BY <2>6 DEF Bijection, Injection
  <2> HIDE DEF n, shown
  <2>8. list = [i \in 1..n |-> answer[order[i]]] /\ \A i \in 1..n : order[i] \in shown
    BY <2>6, <2>7
  <2> DEFINE kind == [name : ShownName, is_dir : BOOLEAN]
  <2>9. list \in [1..n -> kind]
    BY <2>5, <2>8
  <2>10. list \in Seq(kind) /\ Len(list) = n
    <3> HIDE DEF kind
    <3>1. n \in Nat
      BY <2>4, SizesAssumption
    <3>2. list \in Seq(kind)
      <4>1. list \in UNION {[1..k -> kind] : k \in Nat}
        BY <2>9, <3>1
      <4> QED
        BY <4>1, SeqDef
    <3>3. 1..n = 1..Len(list) /\ Len(list) \in Nat
      BY <2>9, <3>2, LenProperties
    <3> QED
      BY <2>4, <3>1, <3>2, <3>3
  <2>11. \A i \in 1..n : list[i].name \in DOMAIN NameLength \union {".."}
    BY <2>5, <2>8
  <2> QED
    BY <2>4, <2>10, <2>11 DEF ListGood
<1> QED
  BY <1>1, <1>2, <1>3

-------------------------------------------------------------------------------
\* The keys and the drawing work out the same number of rows.
LEMMA RowsAgree == event_rows = drawn_rows /\ drawn_rows \in Nat \ {0}
<1>1. list_height \in Int /\ drawn_rows > 0 /\ list_height % LIST_STEP >= 16
  BY HeightAssumption DEF list_height
<1> HIDE DEF list_height
<1> QED
  BY <1>1 DEF event_rows, drawn_rows, LIST_STEP

ExplorerInv ==
    /\ ContextInv
    /\ mode \in {"load", "poll", "draw"} /\ running \in BOOLEAN
    /\ WellBuilt(cwd) /\ Fits(cwd)
    /\ ListGood(files)
    /\ cursor \in Nat /\ scroll \in Nat
    /\ CursorOnScreen
    /\ ShowsWhatItLoaded

LEMMA ExplorerStarts == Init => ExplorerInv
<1> SUFFICES ASSUME Init PROVE ExplorerInv
  OBVIOUS
<1>1. ContextInv
  BY ContextStarts DEF Init
<1>2. WellBuilt(cwd) /\ Fits(cwd)
  <2>1. 1 <= MAX_PATH
    BY SizesAssumption
  <2>2. PathLength(Root) = 1 /\ ~(Len(Root) > 1) /\ WellBuilt(Root)
    BY RootIs
  <2>3. Fits(Root)
    BY <2>1, <2>2 DEF Fits
  <2> QED
    BY <2>2, <2>3 DEF Init
<1>3. ListGood(files)
  BY OneEntry DEF Init, ShownName
<1>4. CursorOnScreen
  <2>1. Len(files) = 1 /\ cursor = 0 /\ scroll = 0
    BY DEF Init
  <2>2. drawn_rows \in Nat \ {0}
    BY RowsAgree
  <2>3. 0 < 1 /\ 0 <= 0 /\ 0 < 0 + drawn_rows /\ ~(0 > 0)
    BY <2>2
  <2> QED
    BY <2>1, <2>3 DEF CursorOnScreen
<1> QED
  BY <1>1, <1>2, <1>3, <1>4 DEF Init, ExplorerInv, ShowsWhatItLoaded

\* The directory can be entered: its name has a length.
LEMMA ChosenIs ==
    ASSUME ExplorerInv
    PROVE  /\ files[1].is_dir \in BOOLEAN
           /\ Chosen.is_dir /\ Chosen.name # ".." => Chosen.name \in DOMAIN NameLength
<1>1. Len(files) \in Nat \ {0} /\ cursor \in Nat /\ cursor < Len(files)
  BY SizesAssumption DEF ExplorerInv, ListGood, CursorOnScreen
<1>2. 1 \in 1..Len(files) /\ cursor + 1 \in 1..Len(files)
  BY <1>1
<1>3. files[1] \in [name : ShownName, is_dir : BOOLEAN]
  BY <1>2, ElementOfSeq DEF ExplorerInv, ListGood
<1>4. files[cursor + 1].is_dir => files[cursor + 1].name \in DOMAIN NameLength \union {".."}
  BY <1>2 DEF ExplorerInv, ListGood
<1> QED
  BY <1>3, <1>4 DEF Chosen

LEMMA LoadKeeps ==
    ASSUME ExplorerInv, NEW path, WellBuilt(path), Fits(path),
           NEW entries, entries[1].is_dir \in BOOLEAN,
           load_dir(path, entries), UNCHANGED <<context, running>>,
           mode' \in {"load", "poll", "draw"}
    PROVE  ExplorerInv'
<1>1. ContextInv'
  BY DEF ExplorerInv, ContextInv, MayBeThere, context
<1>2. cwd' = path /\ cursor' = 0 /\ scroll' = 0 /\ loaded' = [path |-> path, files |-> files']
  BY DEF load_dir
<1>3. ListGood(files')
  <2>1. PICK answer \in Listings \union {Denied} : files' \in Listed(answer, entries)
    BY DEF load_dir
  <2> QED
    BY <2>1, ListedIs
<1>4. CursorOnScreen'
  <2>1. Len(files') \in Nat \ {0}
    BY <1>3, SizesAssumption DEF ListGood
  <2> QED
    BY <1>2, <2>1, RowsAgree DEF CursorOnScreen
<1> QED
  BY <1>1, <1>2, <1>3, <1>4 DEF ExplorerInv, ShowsWhatItLoaded

\* CIRCLE below the root always goes up: the path is longer than the slash.
LEMMA GoBackIs ==
    ASSUME ExplorerInv, GoBack
    PROVE  \E entries : /\ entries[1].is_dir \in BOOLEAN
                        /\ load_dir(Parent(cwd), entries)
                        /\ PathLength(cwd) > 1
<1> DEFINE entries == [files EXCEPT ![1] = Entry("..", TRUE)]
<1>1. Len(files) \in Nat \ {0} /\ DOMAIN files = 1..Len(files)
  BY SizesAssumption, LenProperties DEF ExplorerInv, ListGood
<1>2. entries[1].is_dir \in BOOLEAN
  <2>1. 1 \in DOMAIN files
    BY <1>1
  <2> QED
    BY <2>1 DEF Entry
<1>3. PathLength(cwd) > 1
  BY PathFacts DEF ExplorerInv, GoBack, BelowRoot
<1>4. load_dir(Parent(cwd), entries)
  BY <1>3 DEF GoBack
<1> HIDE DEF entries
<1> QED
  BY <1>2, <1>3, <1>4

LEMMA ExplorerKept == ExplorerInv /\ [Next]_vars => ExplorerInv'
<1> SUFFICES ASSUME ExplorerInv, [Next]_vars PROVE ExplorerInv'
  OBVIOUS
<1>0. /\ cursor \in Nat /\ scroll \in Nat /\ Len(files) \in Nat \ {0}
      /\ event_rows = drawn_rows /\ drawn_rows \in Nat \ {0}
      /\ cursor < Len(files) /\ scroll <= cursor /\ cursor < scroll + drawn_rows
      /\ scroll > 0 => scroll + drawn_rows <= Len(files)
  BY RowsAgree, SizesAssumption DEF ExplorerInv, CursorOnScreen, ListGood
<1>1. CASE OpenAndClose /\ UNCHANGED <<mode, running, state, loaded>>
  <2>1. ContextInv'
    BY <1>1, ContextKept DEF ExplorerInv
  <2> QED
    BY <1>1, <2>1 DEF ExplorerInv, state, CursorOnScreen, ShowsWhatItLoaded
<1>2. CASE FirstLoad
  BY <1>2, ChosenIs, LoadKeeps DEF FirstLoad, ExplorerInv
<1>3. CASE KeyUp
  <2>1. ContextInv'
    BY <1>3 DEF KeyUp, ExplorerInv, ContextInv, MayBeThere, context
  <2>2. cursor' \in Nat /\ scroll' \in Nat /\ CursorOnScreen'
    <3>1. /\ cursor > 0 /\ cursor' = cursor - 1 /\ files' = files
          /\ scroll' = IF cursor - 1 < scroll THEN cursor - 1 ELSE scroll
      BY <1>3 DEF KeyUp
    <3> HIDE DEF drawn_rows
    <3> QED
      BY <1>0, <3>1 DEF CursorOnScreen
  <2> QED
    BY <1>3, <2>1, <2>2 DEF KeyUp, ExplorerInv, ShowsWhatItLoaded
<1>4. CASE KeyDown
  <2>1. ContextInv'
    BY <1>4 DEF KeyDown, ExplorerInv, ContextInv, MayBeThere, context
  <2>2. cursor' \in Nat /\ scroll' \in Nat /\ CursorOnScreen'
    <3>1. /\ cursor < Len(files) - 1 /\ cursor' = cursor + 1 /\ files' = files
          /\ scroll' = IF cursor + 1 >= scroll + drawn_rows
                       THEN cursor + 2 - drawn_rows ELSE scroll
      BY <1>0, <1>4 DEF KeyDown
    <3> QED
      BY <1>0, <3>1 DEF CursorOnScreen
  <2> QED
    BY <1>4, <2>1, <2>2 DEF KeyDown, ExplorerInv, ShowsWhatItLoaded
<1>5. CASE EnterDirectory
  <2>1. Chosen.name \in DOMAIN NameLength /\ files[1].is_dir \in BOOLEAN
    BY <1>5, ChosenIs DEF EnterDirectory
  <2>2. WellBuilt(Joined(cwd, Chosen.name)) /\ Fits(Joined(cwd, Chosen.name))
    BY <2>1, JoinedIs DEF ExplorerInv
  <2> QED
    BY <1>5, <2>1, <2>2, LoadKeeps DEF EnterDirectory, ExplorerInv
<1>6. CASE GoUp
  <2>1. WellBuilt(Parent(cwd)) /\ Fits(Parent(cwd))
    BY <1>6, ParentIs DEF ExplorerInv, GoUp
  <2>2. /\ load_dir(Parent(cwd), files) /\ files[1].is_dir \in BOOLEAN
        /\ UNCHANGED <<context, running>> /\ mode' \in {"load", "poll", "draw"}
    BY <1>6, ChosenIs DEF GoUp, ExplorerInv
  <2> QED
    BY <2>1, <2>2, LoadKeeps
<1>7. CASE GoBack
  <2>1. PICK entries : /\ entries[1].is_dir \in BOOLEAN
                       /\ load_dir(Parent(cwd), entries) /\ PathLength(cwd) > 1
    BY <1>7, GoBackIs
  <2>2. WellBuilt(Parent(cwd)) /\ Fits(Parent(cwd))
    BY <2>1, ParentIs DEF ExplorerInv
  <2> QED
    BY <1>7, <2>1, <2>2, LoadKeeps DEF GoBack, ExplorerInv
<1>8. CASE KeyOptions \/ NoMoreEvents \/ QuitEvent
  <2>1. UNCHANGED <<context, state, loaded>> /\ mode' \in {"poll", "draw"}
        /\ running' \in BOOLEAN /\ mode = "poll"
    BY <1>8 DEF KeyOptions, NoMoreEvents, QuitEvent, Polling, ExplorerInv
  <2>2. ContextInv'
    BY <2>1 DEF ExplorerInv, ContextInv, MayBeThere, context
  <2> QED
    BY <2>1, <2>2 DEF ExplorerInv, state, CursorOnScreen, ShowsWhatItLoaded
<1>9. CASE render_ui
  <2>1. /\ stage = "run" /\ stage' \in {"run", "close_pad"} /\ mode = "draw" /\ mode' = "poll"
        /\ UNCHANGED <<pointer, alive, up, misused, running, state, loaded>>
    BY <1>9 DEF render_ui
  <2>2. ContextInv'
    BY <2>1 DEF ExplorerInv, ContextInv, MayBeThere, Stage
  <2> QED
    BY <2>1, <2>2 DEF ExplorerInv, state, CursorOnScreen, ShowsWhatItLoaded
<1>10. CASE UNCHANGED vars
  <2>1. ContextInv'
    BY <1>10 DEF ExplorerInv, ContextInv, MayBeThere, context, vars
  <2> QED
    BY <1>10, <2>1 DEF ExplorerInv, vars, state, CursorOnScreen, ShowsWhatItLoaded
<1> QED
  BY <1>1, <1>2, <1>3, <1>4, <1>5, <1>6, <1>7, <1>8, <1>9, <1>10 DEF Next

LEMMA ExplorerAlways == Spec => []ExplorerInv
BY ExplorerStarts, ExplorerKept, PTL DEF Spec

-------------------------------------------------------------------------------
\* Whatever is refused, everything opened is destroyed once and before what owns
\* it (ps5sdk_video.h:41 leaves a destroyed window in the context).
THEOREM EverythingIsClosed == Spec => []ClosedOnceInOrder
<1>1. ExplorerInv => ClosedOnceInOrder
  BY DEF ExplorerInv, ContextInv, MayBeThere, ClosedOnceInOrder
<1> QED
  BY <1>1, ExplorerAlways, PTL

\* The path fits its buffer and its tokens follow one another, however names are
\* cut (fb_explorer.c:50-52), and the list never outgrows its array.
THEOREM ExplorerTypes == Spec => []TypeOK
<1>1. ExplorerInv => TypeOK
  <2> SUFFICES ASSUME ExplorerInv PROVE TypeOK
    OBVIOUS
  <2>1. WellBuilt(cwd) /\ Len(cwd) \in Nat \ {0} /\ PathLength(cwd) \in 1..MAX_PATH
    BY SizesAssumption, PathFacts DEF ExplorerInv, Fits
  <2>2. cwd[1] = Root[1]
    BY <2>1 DEF WellBuilt, Root
  <2>3. \A k \in 1..(Len(cwd) - 1) :
            /\ cwd[k].end < cwd[k + 1].end
            /\ cwd[k].name = "/" \/ cwd[k + 1].name = "/"
    <3> SUFFICES ASSUME NEW k \in 1..(Len(cwd) - 1)
                 PROVE  /\ cwd[k].end < cwd[k + 1].end
                        /\ cwd[k].name = "/" \/ cwd[k + 1].name = "/"
      OBVIOUS
    <3>1. k \in 1..Len(cwd) /\ k + 1 \in 1..Len(cwd) /\ k < k + 1
      BY <2>1
    <3> QED
      BY <2>1, <3>1 DEF WellBuilt
  <2>4. pointer \subseteq Object /\ alive \subseteq Object /\ up \subseteq Library
    BY DEF ExplorerInv, ContextInv, MayBeThere, Object, Font
  <2> QED
    BY <2>1, <2>2, <2>3, <2>4 DEF TypeOK, ExplorerInv, ListGood
<1> QED
  BY <1>1, ExplorerAlways, PTL

\* The entry the keys act on is drawn, on every height of screen for which the
\* two ways to work out the rows agree (fb_explorer.c:75 and 123).
THEOREM CursorIsDrawn == Spec => []CursorOnScreen
<1>1. ExplorerInv => CursorOnScreen
  BY DEF ExplorerInv
<1> QED
  BY <1>1, ExplorerAlways, PTL

\* What is drawn was read from the directory whose path is drawn: the entry that
\* CIRCLE writes over (fb_explorer.c:128) is always read anew.
THEOREM DrawnWasLoaded == Spec => []ShowsWhatItLoaded
<1>1. ExplorerInv => ShowsWhatItLoaded
  BY DEF ExplorerInv
<1> QED
  BY <1>1, ExplorerAlways, PTL

\* Going up takes the last name off the path; entering leads into the chosen directory
\* when its path fits, and to another name, or nowhere, in a full buffer when it does not
\* (nav_enter, fb_explorer.c:43-52).
THEOREM MovesAlwaysFollowed == Spec => PathFollowsMoves
<1>1. ASSUME ExplorerInv, GoUp PROVE TakesOneOff
  <2>1. PathLength(cwd) > 1 /\ cwd' = Parent(cwd)
    BY <1>1 DEF GoUp, load_dir
  <2> QED
    BY <1>1, <2>1, ParentIs DEF ExplorerInv, TakesOneOff
<1>2. ASSUME ExplorerInv, GoBack PROVE TakesOneOff
  <2>1. PathLength(cwd) > 1 /\ cwd' = Parent(cwd)
    BY <1>2, GoBackIs DEF load_dir
  <2> QED
    BY <1>2, <2>1, ParentIs DEF ExplorerInv, TakesOneOff
<1>3. ASSUME ExplorerInv, EnterDirectory PROVE LeadsInsideIfItFits
  <2>1. cwd' = Joined(cwd, Chosen.name) /\ Chosen.name \in DOMAIN NameLength
    BY <1>3, ChosenIs DEF EnterDirectory, load_dir
  <2>2. WellBuilt(cwd) /\ Fits(cwd)
    BY <1>3 DEF ExplorerInv
  <2>3. ChosenFits <=> NameFits(cwd, Chosen.name)
    BY DEF ChosenFits, NameFits
  <2>4. PICK name \in DOMAIN NameLength : name = Chosen.name
    BY <2>1
  <2>5. /\ Denoted(cwd) \subseteq Denoted(Joined(cwd, name))
        /\ \A token \in Denoted(cwd), new \in Added(Joined(cwd, name), cwd) : token.end < new.end
        /\ NameFits(cwd, name) =>
               Added(Joined(cwd, name), cwd) = {Token(name, PathLength(Joined(cwd, name)))}
        /\ ~NameFits(cwd, name) =>
               /\ PathLength(Joined(cwd, name)) = MAX_PATH
               /\ \/ Added(Joined(cwd, name), cwd) = {}
                  \/ \E other \in DOMAIN NameLength \ {name} :
                         Added(Joined(cwd, name), cwd) = {Token(other, MAX_PATH)}
    BY <2>2, JoinedIs
  <2> QED
    BY <2>1, <2>3, <2>4, <2>5 DEF Added, LeadsInsideIfItFits
<1> QED
  BY <1>1, <1>2, <1>3, ExplorerAlways, PTL DEF PathFollowsMoves
===============================================================================
