------------------------------ MODULE MCExplorer ------------------------------
(***************************************************************************)
(* Three rows of files at most in two rows of screen, and a path of seven  *)
(* characters, which names of one to three fill in every way.  A name that *)
(* is cut is that of another directory, or "..".                           *)
(***************************************************************************)
EXTENDS Explorer

\* Names and what they begin with.
Spelling ==
    { <<"b", "bi", "bin">>, <<".", "..", "..a">>,
      <<"<", "<E", "<EM", "<EMP", "<EMPT", "<EMPTY", "<EMPTY>">> }

SpellingOf(name) == CHOOSE s \in Spelling : name \in ToSet(s)

MCNameLength ==
    [name \in UNION {ToSet(s) : s \in Spelling} |-> SelectInSeq(SpellingOf(name), LAMBDA n : n = name)]

MCBeginning(name, n) == SpellingOf(name)[n]

Dir(n) == Entry(n, TRUE)
File(n) == Entry(n, FALSE)

\* "." and ".." come first or last, and may be missing.
MCListings ==
    { <<>>, <<Dir(".")>>,
      <<Dir("."), Dir("..")>>,
      <<Dir("."), Dir(".."), File("b"), Dir("bin")>>,
      <<Dir("b"), Dir("bin"), File("b"), Dir("."), Dir("..")>>,
      <<Dir("bi"), Dir("..a"), Dir("..")>>,
      <<File("b"), Dir("..")>> }
===============================================================================
