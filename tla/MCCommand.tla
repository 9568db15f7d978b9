----------------------------- MODULE MCCommand -----------------------------
(***************************************************************************)
(* Names of at most three of two letters are asked for; four pairs of the  *)
(* five states.  Two flags deviate from their defaults at a time, or three *)
(* of those that choose the form of the report.                            *)
(* Functions of one binary lie at small addresses: some overlap, one is in *)
(* another, a name repeats; a gap of more than one byte is large.          *)
(***************************************************************************)
EXTENDS Command

(* The letters of patterns: 3 for ^, 4 for an open parenthesis.            *)
MCRegexps == [p \in {<<3, 1>>} |-> {<<1>>, <<1, 2, 1>>, <<1, 1, 2, 2>>}]

Found(name, state) == [name |-> name, state |-> state]
MCResults ==
  {<<>>,
   <<Found(<<1>>, "added"), Found(<<1, 2, 1>>, "changed"), Found(<<2, 1>>, "removed"), Found(<<2, 2, 2>>, "identical")>>,
   <<Found(<<1, 1, 2, 2>>, "relocation-only"), Found(<<1, 2, 1>>, "removed"), Found(<<2, 1, 2, 2>>, "changed"), Found(<<2, 2>>, "added")>>}

Fn(name, pkg, addr, size, insts) == [name |-> name, pkg |-> pkg, addr |-> addr, size |-> size, insts |-> insts]
Layouts == {<<x, y, z>> \in (0..1) \X (1..4) \X (2..8) : y <= z /\ (x = 0 \/ z = 8)}
Laid ==
  {[noLayout |-> FALSE,
    table |-> <<Fn(<<1>>, 1, l[1], 4, 2), Fn(second, 2, l[2], size, 1), Fn(<<1, 2, 2>>, 3, l[3], 2, 1)>>] :
     l \in Layouts, size \in 0..2, second \in {<<1>>, <<2, 1>>}}
  \cup {[noLayout |-> FALSE, table |-> <<>>], [noLayout |-> TRUE, table |-> <<Fn(<<1>>, 1, 0, 4, 2), Fn(<<2>>, 1, 6, 1, 1)>>]}

Asked == UNION {[1..n -> 1..2] : n \in 1..3}
Default == [version |-> FALSE, top |-> 100, sortBy |-> "size", states |-> <<>>, single |-> FALSE, fns |-> <<>>,
            filters |-> <<>>, maskSP |-> FALSE, json |-> FALSE, sideBy |-> FALSE, blocks |-> FALSE,
            all |-> FALSE, color |-> "auto", cpuProf |-> FALSE, memProf |-> FALSE]
Other(flag) ==
  CASE flag = "top" -> {-1, 0, 1}
    [] flag = "sortBy" -> {"insts", "age"}
    [] flag = "states" -> {<<"changed">>, <<"added", "removed">>, <<"changed", "same">>}
    [] flag = "fns" -> {<<n>> : n \in Asked} \cup {<<<<1>>, <<2, 2>>>>, <<<<2>>, <<1, 1, 1>>>>}
    [] flag = "filters" -> {<<[regexp |-> FALSE, text |-> <<2>>]>>, <<[regexp |-> TRUE, text |-> <<4>>]>>,
                            <<[regexp |-> TRUE, text |-> <<3, 1>>], [regexp |-> FALSE, text |-> <<2, 2>>]>>}
    [] flag = "color" -> {"never", "blue"}
    [] OTHER -> {TRUE}

Flag == DOMAIN Default
Mode == {"fns", "json", "sideBy", "blocks", "all", "top", "states"}
Deviating(f, g, h) ==
  {[Default EXCEPT ![f] = x, ![g] = y, ![h] = z] : x \in Other(f), y \in Other(g), z \in Other(h)}

MCRuns ==
  [flags : UNION {Deviating(f, g, g) : f, g \in Flag} \cup UNION {Deviating(f, g, h) : f, g, h \in Mode}
           \cup UNION {Deviating("single", "fns", h) : h \in Flag},
   bin   : {[noLayout |-> FALSE, table |-> <<Fn(<<1>>, 1, 0, 4, 2), Fn(<<1, 2, 2>>, 1, 4, 2, 1), Fn(<<2, 1>>, 2, 9, 1, 1)>>]}]
  \cup [flags : Deviating("single", "top", "top"), bin : Laid]
=============================================================================
