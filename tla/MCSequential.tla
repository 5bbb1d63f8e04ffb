------------------------------ MODULE MCSequential ------------------------------
(* The sequential programs, one at a time: the client of GenericList, IntegerSet,    *)
(* Trunc, RefCount or Ordered. No two share a variable.                              *)
EXTENDS ListsAndSets

CONSTANTS Args, MaxArgs, MaxElements, Values, Keys, MaxKeys, STATIC

VARIABLES part,  \* "list", "trunc", "refcount", "set" or "ordered"
          args, out,
          heap, value, n, head, tail, tree, cursor, phase,
          program, keys, sorted, k, log, done, printed

T == INSTANCE Trunc
R == INSTANCE RefCount
O == INSTANCE Ordered WITH argv <- keys, tree <- sorted, out <- printed, MaxArgs <- MaxKeys

ASSUME R!RefCountAssumption

truncVars == <<args, out>>
refVars == <<heap, value, n, head, tail, tree, cursor, phase>>
setVars == <<argv, rc, set, stack, created, place, shown, used>>
orderedVars == <<program, keys, sorted, k, log, done, printed>>
allVars == <<part, vars, truncVars, refVars, setVars, orderedVars>>

MCInit ==
  /\ part \in {"list", "trunc", "refcount", "set", "ordered"}
  /\ part # "trunc" => args = <<>>
  /\ part # "set" => argv = <<>>
  /\ part # "ordered" => program = "BinaryTree.c" /\ keys = <<1>>
  /\ Init /\ T!Init /\ R!Init /\ I!Init /\ O!Init

ListStep == part = "list" /\ Next /\ UNCHANGED <<part, truncVars, refVars, setVars, orderedVars>>
TruncStep == part = "trunc" /\ T!Run /\ UNCHANGED <<part, vars, refVars, setVars, orderedVars>>
RefStep == part = "refcount" /\ R!Next /\ UNCHANGED <<part, vars, truncVars, setVars, orderedVars>>
SetStep == part = "set" /\ I!Next /\ UNCHANGED <<part, vars, truncVars, refVars, orderedVars>>
OrderedStep == part = "ordered" /\ O!Next /\ UNCHANGED <<part, vars, truncVars, refVars, setVars>>

MCNext == ListStep \/ TruncStep \/ RefStep \/ SetStep \/ OrderedStep
MCSpec == MCInit /\ [][MCNext]_allVars

(* Strings of trunc: numbers, the empty string, which reads as 0, words. *)
Argument(text, len, number) == [text |-> text, len |-> len, number |-> number]
SomeArgs == {Argument("empty", 0, 0), Argument("1", 1, 1), Argument("2", 1, 2),
             Argument("-1", 2, -1), Argument("word", 4, -1)}

(* The client of the lists makes one long and keeps the others short. *)
Lengths == [x \in Lists |-> IF x = "a" THEN 3 ELSE 1]

(* Those of the modules, besides ListsAreSequences and SetOutlivesStack: the words are  *)
(* truncated; the counts are right and all is freed; the output is in order.           *)
TruncRight == T!TruncRight
CountsRight == R!CountsRight
OutputSorted == O!OutputSorted
=============================================================================
