--------------------------------- MODULE Trunc ---------------------------------
(* Assignment8/q1/trunc.c: the arguments that are numbers truncate those that are   *)
(* words, pairwise, by a pipeline of maps, filters and folds. A string is a text of  *)
(* which len characters are kept, with the number convertInt reads in all of it;      *)
(* what is concatenated is a sequence of such texts and of spaces.                    *)
EXTENDS ListOps

CONSTANTS Args,    \* strings, with number = -1 if they are none
          MaxArgs  \* bound on argc

VARIABLES args, out

vars == <<args, out>>

NULL == [text |-> "NULL"]
Space == "space"

convertInt(s) == s.number
negativeToNull(s, i) == IF i < 0 THEN s ELSE NULL
nonNegativeM(i) == i > 0
nonNegative(i) == i >= 0
nonNull(s) == s # NULL
truncate(s, i) == IF s.len > i THEN [s EXCEPT !.len = i] ELSE s
longestString(a, b) == IF a > b THEN a ELSE b

Piece(s) == IF s.len = 0 THEN <<>> ELSE <<[text |-> s.text, len |-> s.len]>>
concatenate(joined, s) ==
  (IF joined = <<>> THEN <<>> ELSE Append(joined, Space)) \o Piece(s)

main(argv) ==
  LET listOne   == list_append_array(list_create, argv)
      listTwo   == list_map1(convertInt, list_create, listOne)
      listThree == list_map2(negativeToNull, list_create, listOne, listTwo)
      listFour  == list_filter(nonNegative, list_create, listTwo)
      listFive  == list_filter(nonNull, list_create, listThree)
      listSix   == list_map2(truncate, list_create, listFive, listFour)
  IN  [words  |-> Contents(listSix),
       joined |-> list_foldl(concatenate, <<>>, listSix),
       v      |-> list_foldl(longestString, -1, listFour)]

Init == args \in UNION {[1 .. n -> Args] : n \in 0 .. MaxArgs} /\ out = <<>>
Run == out = <<>> /\ out' = main(args) /\ UNCHANGED args

Spec == Init /\ [][Run]_vars
---------------------------------------------------------------------------
Words == SelectSeq(args, LAMBDA s : s.number < 0)
Limits == LET numbers == [i \in DOMAIN args |-> args[i].number]
          IN  SelectSeq(numbers, LAMBDA n : n >= 0)

(* The i-th word comes out with no more characters than the i-th number, for as many  *)
(* as there are of both; a space goes before a word if something stands there; and     *)
(* the last line is the largest number, or -1. A negative number is taken for a word.  *)
TruncRight ==
  out # <<>> =>
    /\ DOMAIN out.words = DOMAIN Words \cap DOMAIN Limits
    /\ \A i \in DOMAIN out.words :
         /\ out.words[i].text = Words[i].text
         /\ out.words[i].len = Min({Words[i].len, Limits[i]})
    /\ LET Kept(i) == \E j \in 1 .. i - 1 : out.words[j].len > 0
           Shown(i) == (IF Kept(i) THEN <<Space>> ELSE <<>>) \o Piece(out.words[i])
       IN  out.joined = FlattenSeq([i \in DOMAIN out.words |-> Shown(i)])
    /\ out.v = Max({-1} \cup {Limits[i] : i \in DOMAIN Limits})
=============================================================================
