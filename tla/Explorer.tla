------------------------------- MODULE Explorer -------------------------------
(***************************************************************************)
(* examples/payload/fb_explorer.c: a list of the files of a directory, a   *)
(* cursor in it, and a path that grows and shrinks in a buffer of fixed    *)
(* size.  A path is a sequence of tokens, slashes and names, each with the *)
(* position of its last character; of a name that did not fit it has the   *)
(* beginning, which is another name.                                       *)
(* The file system is external and answers anything, twice differently for *)
(* one directory.                                                          *)
(***************************************************************************)
EXTENDS VideoContext, SequencesExt

CONSTANTS
    NameLength,    \* the characters of each name a directory or a path may hold
    Beginning(_, _),   \* the name that the first characters of a name spell
    Listings,      \* what readdir may give: sequences of entries
    MAX_FILES,
    MAX_PATH,      \* characters that fit in cwd, 511 in the code
    PS5SDK_H       \* height of the screen, 1080 in the code

LIST_STEP == 42
list_height == PS5SDK_H - 170 - 50

\* Rows of the list, worked out once for the keys and once for the drawing.
\* Slip: a row more than is drawn.
OneRowMore == list_height \div LIST_STEP + 1

event_rows == list_height \div LIST_STEP
drawn_rows == (list_height - 16) \div LIST_STEP

ASSUME HeightAssumption ==
    PS5SDK_H \in Nat /\ drawn_rows > 0 /\ list_height % LIST_STEP >= 16
ASSUME SizesAssumption == MAX_PATH \in Nat \ {0, 1} /\ MAX_FILES \in Nat \ {0}

\* A file system gives no empty name and no name with a slash in it.
ASSUME NamesAssumption ==
    /\ NameLength \in [DOMAIN NameLength -> Nat \ {0}]
    /\ "/" \notin DOMAIN NameLength /\ "<EMPTY>" \in DOMAIN NameLength
ASSUME BeginningsAssumption ==
    \A name \in DOMAIN NameLength : \A n \in 1..NameLength[name] :
        /\ Beginning(name, n) \in DOMAIN NameLength
        /\ NameLength[Beginning(name, n)] = n
        /\ n = NameLength[name] => Beginning(name, n) = name
ASSUME ListingsAssumption ==
    Listings \subseteq Seq([name : DOMAIN NameLength \union {".", ".."}, is_dir : BOOLEAN])

VARIABLES
    mode,              \* "load", "poll", "draw"
    running,
    cwd, files, cursor, scroll,
    loaded             \* the path and the entries of the latest load_dir

state == <<cwd, files, cursor, scroll>>
vars == <<context, mode, running, state, loaded>>

-------------------------------------------------------------------------------
Token(name, end) == [name |-> name, end |-> end]
Root == <<Token("/", 1)>>

PathLength(path) == Last(path).end

\* The names in a path, told apart by where they end.
Denoted(path) == {token \in ToSet(path) : token.name # "/"}

WithSlash(path) ==
    IF PathLength(path) \in 2..(MAX_PATH - 1)
    THEN Append(path, Token("/", PathLength(path) + 1)) ELSE path

\* Slip: a character less than fits.
RoomLessOne(path) ==
    IF PathLength(path) < MAX_PATH THEN MAX_PATH - PathLength(path) - 1 ELSE 0

\* Slip: the room is worked out before the slash is added.
RoomBeforeSlash(path) == MAX_PATH - PathLength(path) + 1

Room(path) == MAX_PATH - PathLength(path)

\* strncat stops where the buffer ends: the path has the beginning of the name.
Joined(path, name) ==
    LET base == WithSlash(path)
        kept == IF NameLength[name] < Room(base) THEN NameLength[name] ELSE Room(base) IN
    IF kept = 0 THEN base
    ELSE Append(base, Token(Beginning(name, kept), PathLength(base) + kept))

\* Slip: a slash at the end is left for the search.
SlashLeft(path) == path

SlashDropped(path) == IF Last(path).name = "/" THEN Front(path) ELSE path

\* Back to the last slash, and over it unless it is the first.
Parent(path) ==
    LET rest == SlashDropped(path)
        base == IF Last(rest).name = "/" THEN rest ELSE Front(rest) IN
    IF Len(base) > 1 THEN Front(base) ELSE base

-------------------------------------------------------------------------------
Entry(name, is_dir) == [name |-> name, is_dir |-> is_dir]

Denied == <<Entry("<ACCESS DENIED>", FALSE)>>

\* The entries that are read: of those that are not ".", as many as there is
\* room for.
Named(answer, k) == {j \in 1..k : answer[j].name # "."}

Shown(answer) ==
    {k \in DOMAIN answer : answer[k].name # "." /\ Cardinality(Named(answer, k - 1)) < MAX_FILES}

\* cmp_entry; the order of the names of one kind is left out.
Before(a, b) == b.name # ".." /\ (a.name = ".." \/ (a.is_dir /\ ~b.is_dir))

Sorted(list) == \A i, j \in DOMAIN list : i < j => ~Before(list[j], list[i])

\* What the list may show of an answer.  The mark of an empty directory is given
\* a name and keeps the kind of the entry it is written over.
Listed(answer, entries) ==
    LET shown == Shown(answer)
        orders == Bijection(1..Cardinality(shown), shown) IN
    IF answer = Denied THEN {Denied}
    ELSE IF shown = {} THEN {<<Entry("<EMPTY>", entries[1].is_dir)>>}
    ELSE {list \in {[i \in DOMAIN order |-> answer[order[i]]] : order \in orders} : Sorted(list)}

load_dir(path, entries) ==
    /\ \E answer \in Listings \union {Denied} : files' \in Listed(answer, entries)
    /\ loaded' = [path |-> path, files |-> files']
    /\ cwd' = path
    /\ cursor' = 0 /\ scroll' = 0

Init ==
    /\ ContextInit
    /\ mode = "load" /\ running = TRUE
    /\ cwd = Root
    /\ files = <<Entry("", FALSE)>>          \* all zero
    /\ cursor = 0 /\ scroll = 0
    /\ loaded = [path |-> Root, files |-> <<>>]

FirstLoad ==
    /\ stage = "run" /\ mode = "load"
    /\ load_dir(cwd, files)
    /\ mode' = "poll"
    /\ UNCHANGED <<context, running>>

-------------------------------------------------------------------------------
Polling == stage = "run" /\ mode = "poll"

KeyUp ==
    /\ Polling /\ cursor > 0
    /\ cursor' = cursor - 1
    /\ scroll' = IF cursor - 1 < scroll THEN cursor - 1 ELSE scroll
    /\ UNCHANGED <<context, mode, running, cwd, files, loaded>>

KeyDown ==
    /\ Polling /\ cursor < Len(files) - 1
    /\ cursor' = cursor + 1
    /\ scroll' = IF cursor + 1 >= scroll + event_rows THEN cursor + 2 - event_rows ELSE scroll
    /\ UNCHANGED <<context, mode, running, cwd, files, loaded>>

Chosen == files[cursor + 1]

EnterDirectory ==
    /\ Polling
    /\ Chosen.is_dir /\ Chosen.name # ".."
    /\ load_dir(Joined(cwd, Chosen.name), files)
    /\ UNCHANGED <<context, mode, running>>

\* CROSS on "..".
GoUp ==
    /\ Polling
    /\ Chosen = Entry("..", TRUE) /\ PathLength(cwd) > 1
    /\ load_dir(Parent(cwd), files)
    /\ UNCHANGED <<context, mode, running>>

\* Slip: CIRCLE is not kept from the root.
AnyPath == TRUE

BelowRoot == cwd # Root

\* CIRCLE writes ".." over the first entry and enters it; nav_enter returns at
\* once where there is nowhere to go up to.
GoBack ==
    /\ Polling /\ BelowRoot
    /\ LET entries == [files EXCEPT ![1] = Entry("..", TRUE)] IN
       IF PathLength(cwd) > 1 THEN load_dir(Parent(cwd), entries)
       ELSE files' = entries /\ cursor' = 0 /\ UNCHANGED <<cwd, scroll, loaded>>
    /\ UNCHANGED <<context, mode, running>>

\* OPTIONS, CREATE, the system button: the other events are still handled.
KeyOptions ==
    /\ Polling
    /\ running' = FALSE
    /\ UNCHANGED <<context, mode, state, loaded>>

\* SDL_QUIT leaves the inner loop.
QuitEvent ==
    /\ Polling
    /\ running' = FALSE /\ mode' = "draw"
    /\ UNCHANGED <<context, state, loaded>>

NoMoreEvents ==
    /\ Polling
    /\ mode' = "draw"
    /\ UNCHANGED <<context, running, state, loaded>>

render_ui ==
    /\ stage = "run" /\ mode = "draw"
    /\ mode' = "poll"
    /\ stage' = IF running THEN "run" ELSE "close_pad"
    /\ UNCHANGED <<pointer, alive, up, misused, running, state, loaded>>

Next ==
    \/ OpenAndClose /\ UNCHANGED <<mode, running, state, loaded>>
    \/ FirstLoad \/ KeyUp \/ KeyDown \/ EnterDirectory \/ GoUp \/ GoBack
    \/ KeyOptions \/ QuitEvent \/ NoMoreEvents \/ render_ui

Spec == Init /\ [][Next]_vars

-------------------------------------------------------------------------------
\* The type invariant; the path fits its buffer, its tokens follow one another,
\* and no two names in it touch.
TypeOK ==
    /\ mode \in {"load", "poll", "draw"} /\ running \in BOOLEAN
    /\ PathLength(cwd) \in 1..MAX_PATH /\ cwd[1] = Root[1]
    /\ \A k \in 1..(Len(cwd) - 1) :
          /\ cwd[k].end < cwd[k + 1].end
          /\ cwd[k].name = "/" \/ cwd[k + 1].name = "/"
    /\ Len(files) \in 1..MAX_FILES
    /\ pointer \subseteq Object /\ alive \subseteq Object /\ up \subseteq Library

\* The entry the keys act on is one of those drawn, and no row below the list is
\* left blank while entries are scrolled away above it (fb_explorer.c:75 and 123
\* work out the rows in two ways).
CursorOnScreen ==
    /\ cursor < Len(files)
    /\ scroll <= cursor /\ cursor < scroll + drawn_rows
    /\ scroll > 0 => scroll + drawn_rows <= Len(files)

\* The last name is taken off the path, and nothing else.
TakesOneOff ==
    \E deepest \in Denoted(cwd) :
        /\ \A token \in Denoted(cwd) : token.end <= deepest.end
        /\ Denoted(cwd') = Denoted(cwd) \ {deepest}

ChosenFits ==
    PathLength(cwd) + (IF cwd = Root THEN 0 ELSE 1) + NameLength[Chosen.name] <= MAX_PATH

\* The name that is added is the chosen one, whole, behind the names that were there.
\* Where it does not fit the buffer is full, with no name more or with another one.
LeadsInsideIfItFits ==
    LET added == Denoted(cwd') \ Denoted(cwd) IN
    /\ Denoted(cwd) \subseteq Denoted(cwd')
    /\ \A token \in Denoted(cwd), new \in added : token.end < new.end
    /\ IF ChosenFits
       THEN added = {Token(Chosen.name, PathLength(cwd'))}
       ELSE /\ PathLength(cwd') = MAX_PATH
            /\ added = {} \/ \E name \in DOMAIN NameLength \ {Chosen.name} :
                                 added = {Token(name, MAX_PATH)}

\* Going up takes the last name off, wherever the path was cut (fb_explorer.c:45-48
\* looks for slashes in what has fitted).  Entering leads into the chosen directory
\* when its path fits; when it does not, entering leads elsewhere, perhaps to another
\* directory that exists (fb_explorer.c:50-52 does not ask what has fitted).
PathFollowsMoves ==
    [][ /\ GoUp \/ GoBack => TakesOneOff
        /\ EnterDirectory => LeadsInsideIfItFits
      ]_vars

\* What is drawn are the entries read from the directory whose path is drawn:
\* the entry that CIRCLE writes over never stays.
ShowsWhatItLoaded ==
    mode # "load" => loaded = [path |-> cwd, files |-> files]
===============================================================================
