----------------------------- MODULE Renamings -----------------------------
(***************************************************************************)
(* What fndiff.MatchRenames (src/internal/fndiff/rename.go) is given and   *)
(* what it may make of it: a one-to-one matching of removed with added     *)
(* functions decides the list.  Names are unique in the list, so a name    *)
(* stands for its pair, and a side of a pair is the name of the function   *)
(* on it.                                                                  *)
(***************************************************************************)
EXTENDS Lists, Functions

CONSTANT NoName  \* "": no rename, no function

(* A pair as Compare makes it.                                             *)
FreshPair(n, s) == [name |-> n, from |-> NoName, state |-> s,
                    old |-> IF s = "added" THEN NoName ELSE n,
                    new |-> IF s = "removed" THEN NoName ELSE n]

FreshList(ps) == /\ \A k \in DOMAIN ps : ps[k] = FreshPair(ps[k].name, ps[k].state)
                 /\ \A j, k \in DOMAIN ps : ps[j].name = ps[k].name => j = k

(* The added half of a match replaced by the pair of both halves.          *)
MergedPair(add, rem) == [name |-> add, from |-> rem, state |-> "changed", old |-> rem, new |-> add]

-----------------------------------------------------------------------------
(* The list a matching makes: its removed halves are left out, its added   *)
(* halves merged, all else and the order stay.                             *)
NamesIn(ps, s) == {ps[k].name : k \in {j \in DOMAIN ps : ps[j].state = s}}
Matchings(ps) == UNION {Injection(S, NamesIn(ps, "added")) : S \in SUBSET NamesIn(ps, "removed")}

MergedBy(f, p) == IF p.name \in Range(f)
                  THEN MergedPair(p.name, CHOOSE x \in DOMAIN f : f[x] = p.name)
                  ELSE p

KeptBy(ps, f) == {k \in DOMAIN ps : ps[k].name \notin DOMAIN f}
Renaming(ps, f) == [k \in 1..Cardinality(KeptBy(ps, f)) |-> MergedBy(f, ps[Nth(KeptBy(ps, f), k)])]
=============================================================================
