----------------------------- MODULE MCPipeline -----------------------------
(***************************************************************************)
(* Directories for Pipeline: every directory of one or two images of the   *)
(* kinds below, every directory of three images of the kinds that can be   *)
(* in each other's way, an empty directory, one of eleven images and one   *)
(* of twenty-one.                                                          *)
(***************************************************************************)
EXTENDS Pipeline, TLC

Kinds ==
  {[suffix |-> NoSuffix, date |-> NoDate], [suffix |-> NoSuffix, date |-> 1],
   [suffix |-> NoSuffix, date |-> 2], [suffix |-> 1, date |-> NoDate],
   [suffix |-> 2, date |-> 1]}

Photo(name, kind, ratio) ==
  [name |-> name, suffix |-> kind.suffix, date |-> kind.date, ratio |-> ratio]

(* The first image is a portrait, the others are square.                   *)
Directory(kinds) ==
  [i \in DOMAIN kinds |-> Photo(i, kinds[i], IF i = 1 THEN "4:5" ELSE "1:1")]

Numbered(n) == [i \in 1..n |-> Photo(i, [suffix |-> i, date |-> NoDate], "unknown")]

(* Among three: no date, two dates, and a suffix some of them share.       *)
Mixed == {k \in Kinds : k.suffix = NoSuffix \/ k.date # NoDate}

SmallDirectories ==
  {Directory(kinds) : kinds \in UNION {[1..n -> Kinds] : n \in 1..2}}
    \cup {Directory(kinds) : kinds \in [1..3 -> Mixed]}
    \cup {<<>>, Numbered(11), Numbered(21)}

(* Runs are interchangeable.                                              *)
AnyRun == Permutations(Runs)

=============================================================================
