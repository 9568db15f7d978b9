------------------------------ MODULE Command ------------------------------
(***************************************************************************)
(* One run of the command (Execute and what it calls in src/main.go, the   *)
(* JSON reports in src/json.go, the reports on one binary in src/single.go)*)
(* Whatever is opened, decoded or compared may fail.  Compare returns some *)
(* pairs, and rankPairs some table of them: Comparison and Rankings have   *)
(* what they promise.  A report is a sequence of items, its layout left out*)
(***************************************************************************)
EXTENDS BinaryStats

CONSTANTS Runs,    \* the flags to run with and the binary at the old path
          Results  \* the pairs that Compare may return

Name == Seq(Nat)
Flags == [version : BOOLEAN, top : Int, sortBy : STRING, states : Seq(STRING), single : BOOLEAN, fns : Seq(Name),
          filters : Seq([regexp : BOOLEAN, text : Name]), maskSP : BOOLEAN, json : BOOLEAN, sideBy : BOOLEAN,
          blocks : BOOLEAN, all : BOOLEAN, color : STRING, cpuProf : BOOLEAN, memProf : BOOLEAN]
Pair == [name : Name, state : {"identical", "relocation-only", "changed", "added", "removed"}]
Symbol == [name : Name, pkg : Nat, addr : Nat, size : Nat, insts : Nat]
ByAddress(table) == \A j, k \in DOMAIN table : j < k => table[j].addr <= table[k].addr
NamedOnce(ps) == \A j, k \in DOMAIN ps : j # k => ps[j].name # ps[k].name

ASSUME CommandAssumption ==
  /\ smallGap \in Nat /\ pkgRollupCap \in Nat
  /\ Runs \subseteq [flags : Flags, bin : [noLayout : BOOLEAN, table : {t \in Seq(Symbol) : ByAddress(t)}]]
  /\ Results \subseteq {ps \in Seq(Pair) : NamedOnce(ps)}

VARIABLES c,      \* the flags and arguments
          bin,    \* the binary at the old path
          pairs,  \* the pairs of the comparison, later those that pass the filters
          pc,     \* where Execute is
          held,   \* what is to be released on return, the last first
          work,   \* the names, or the pairs, to report on
          at,     \* how many of them are done
          doc,    \* the reports collected for JSON
          out,    \* the items printed
          error   \* what Execute returns

commandVars == <<c, bin, pairs, pc, held, work, at, doc, out, error>>

Item(kind, about) == [kind |-> kind, about |-> about]
NoError == [why |-> "", closest |-> <<>>]
Because(why) == [NoError EXCEPT !.why = why]

(* What holds of every step that does not print, collect, take or release. *)
Frame == UNCHANGED <<c, bin>>
Goto(l) == pc' = l
Fail(e) == Goto("return") /\ error' = e
Go(l) == Goto(l) /\ UNCHANGED error
Take(r) == held' = Append(held, r)
Emit(items) == out' = out \o items
Idle == UNCHANGED <<pairs, work, at, doc>>

-----------------------------------------------------------------------------
StatesOf(s) == CASE s = "changed" -> {"changed", "relocation-only"} [] OTHER -> {s}
KnownStates == {"changed", "added", "removed"}
StateSet == IF c.states = <<>> THEN {"relocation-only"} \cup KnownStates
            ELSE UNION {StatesOf(c.states[k]) : k \in DOMAIN c.states}

ComparisonFlags == \/ c.filters # <<>> \/ c.sortBy # "size" \/ c.states # <<>> \/ c.maskSP
                   \/ c.json \/ c.sideBy \/ c.blocks \/ c.all

Rejected == \/ c.top < 0
            \/ c.sortBy \notin {"size", "insts", "spills", "slots", "name"}
            \/ ~(Range(c.states) \subseteq KnownStates)
            \/ c.single /\ ComparisonFlags
            \/ c.color \notin {"auto", "always", "never"}

CommandInit ==
  /\ \E r \in Runs : c = r.flags /\ bin = r.bin
  /\ pairs = <<>> /\ pc = "start" /\ held = <<>> /\ work = <<>> /\ at = 0
  /\ doc = <<>> /\ out = <<>> /\ error = NoError

Version == /\ pc = "start" /\ c.version
           /\ Emit(<<Item("version", <<>>)>>)
           /\ Go("return")
           /\ Frame /\ Idle /\ UNCHANGED held

Validate == /\ pc = "start" /\ ~c.version
            /\ IF Rejected THEN Fail(Because("flags")) ELSE Go("cpuprofile")
            /\ Frame /\ Idle /\ UNCHANGED <<held, out>>

(* The profile's file is created and then the profile started; either may  *)
(* fail, and the file is closed in any case.  Defects are seeded before    *)
(* the definitions they replace; no specification uses one.                *)
DefectCPUProfile ==
  /\ pc = "cpuprofile"
  /\ \/ ~c.cpuProf /\ Go("memprofile") /\ UNCHANGED held
     \/ c.cpuProf /\ held' = held \o <<"cpuProfile", "cpuFile">> /\ Go("memprofile")
     \/ c.cpuProf /\ UNCHANGED held /\ Fail(Because("profile"))
  /\ Frame /\ Idle /\ UNCHANGED out

CPUProfile ==
  /\ pc = "cpuprofile"
  /\ \/ ~c.cpuProf /\ Go("memprofile") /\ UNCHANGED held
     \/ c.cpuProf /\ held' = held \o <<"cpuFile", "cpuProfile">> /\ Go("memprofile")
     \/ c.cpuProf /\ Take("cpuFile") /\ Fail(Because("profile"))
     \/ c.cpuProf /\ UNCHANGED held /\ Fail(Because("profile"))
  /\ Frame /\ Idle /\ UNCHANGED out

MemProfile == /\ pc = "memprofile"
              /\ IF c.memProf THEN Take("heapProfile") ELSE UNCHANGED held
              /\ Go("old")
              /\ Frame /\ Idle /\ UNCHANGED out

Open(here, r, next) ==
  /\ pc = here
  /\ \/ Take(r) /\ Go(next)
     \/ UNCHANGED held /\ Fail(Because("open"))
  /\ Frame /\ Idle /\ UNCHANGED out

DefectOpenNew == /\ pc = "new"
                 /\ \/ Take("new") /\ Go("compare")
                    \/ UNCHANGED held /\ pc' = "exited" /\ error' = Because("open")
                 /\ Frame /\ Idle /\ UNCHANGED out

OpenOld == Open("old", "old", IF c.single THEN "single" ELSE "new")
OpenNew == Open("new", "new", "compare")

Compare ==
  /\ pc = "compare"
  /\ \/ pairs' \in Results /\ Go("raw")
     \/ UNCHANGED pairs /\ Fail(Because("compare"))
  /\ Frame /\ UNCHANGED <<held, work, at, doc, out>>

(* The raw object files are opened for the renderer of blocks alone.       *)
DefectRaw == /\ pc = "raw"
             /\ IF c.blocks /\ c.all THEN Go("objOld") ELSE Go("select")
             /\ Frame /\ Idle /\ UNCHANGED <<held, out>>

Raw == /\ pc = "raw"
       /\ IF c.blocks /\ (c.all \/ c.fns # <<>>) THEN Go("objOld") ELSE Go("select")
       /\ Frame /\ Idle /\ UNCHANGED <<held, out>>
OpenObjOld == Open("objOld", "objOld", "objNew")
OpenObjNew == Open("objNew", "objNew", "select")

(* --fn reports on the names, else the filters apply.                      *)
Select ==
  /\ pc = "select"
  /\ IF c.fns # <<>> THEN work' = c.fns /\ UNCHANGED pairs /\ Go(IF c.json THEN "jsonNames" ELSE "names")
     ELSE IF Compiles(c.filters) THEN pairs' = FilterPairs(pairs, c.filters) /\ UNCHANGED work /\ Go("summary")
     ELSE UNCHANGED <<pairs, work>> /\ Fail(Because("filter"))
  /\ Frame /\ UNCHANGED <<held, at, doc, out>>

-----------------------------------------------------------------------------
(* What rankPairs may return: no more than asked for, of the states asked  *)
(* for, none of the identical, none twice.                                 *)
Tables(ps) ==
  LET eligible == {k \in DOMAIN ps : ps[k].state \in StateSet}
  IN  {[k \in DOMAIN t |-> ps[t[k]]] :
         t \in {s \in BoundedSeq(eligible, Least(c.top, Cardinality(eligible))) : IsInjective(s)}}

Summary ==
  /\ pc = "summary"
  /\ work' \in Tables(pairs)
  /\ IF c.json THEN Go("jsonAll") /\ UNCHANGED out
     ELSE Emit(<<Item("summary", pairs)>>) /\ Go(IF c.all THEN "all" ELSE "return")
  /\ Frame /\ UNCHANGED <<pairs, held, at, doc>>

Left == at < Len(work)
Current == work[at + 1]
Step == at' = at + 1
OneSided(p) == p.state \in {"added", "removed"}
Blocked(p) == p.state \in {"changed", "relocation-only"} /\ c.blocks
Noted(p) == CASE p.state = "identical" -> <<Item("identical", <<p>>)>>
              [] OneSided(p) -> <<Item("one-sided", <<p>>)>>
              [] OTHER -> <<>>
Diffed(p) == IF p.state = "identical" THEN <<>>
             ELSE <<Item(IF Blocked(p) THEN "blocks" ELSE IF c.sideBy THEN "sideBySide" ELSE "diff", <<p>>)>>

(* writeFunc, and the body of writeAll, which sees no identical pairs: the *)
(* note comes before what may fail, a listing or blocks decoded anew.      *)
WriteFunc(p) ==
  /\ \/ Emit(Noted(p) \o Diffed(p)) /\ Step /\ Go(pc)
     \/ (OneSided(p) \/ Blocked(p)) /\ Emit(Noted(p)) /\ UNCHANGED at /\ Fail(Because("decode"))
  /\ Frame /\ UNCHANGED <<pairs, held, work, doc>>

WriteAll == pc = "all" /\ Left /\ WriteFunc(Current)

NotFound(ps, name) == [why |-> "name", closest |-> ClosestNames(ps, name, 3)]

(* executeFuncs.                                                           *)
WriteName ==
  /\ pc = "names" /\ Left
  /\ LET found == MatchFuncs(pairs, Current)
     IN  CASE found = <<>> -> /\ Fail(NotFound(pairs, Current))
                              /\ Frame /\ UNCHANGED <<pairs, held, work, at, doc, out>>
           [] Len(found) = 1 -> WriteFunc(found[1])
           [] OTHER -> /\ Emit(<<Item("matches", found)>>) /\ Step /\ Go(pc)
                       /\ Frame /\ UNCHANGED <<pairs, held, work, doc>>

-----------------------------------------------------------------------------
(* funcReport, by whether it has the pair's statistics and its script.     *)
FuncReport(p, stats, diff) ==
  LET code == p.state \notin {"identical", "relocation-only"}
  IN  [pair |-> p, stats |-> stats /\ code, diff |-> diff /\ code]

(* A script is asked of each pair in turn, and listings may fail.          *)
Collect(ps, stats, diff) ==
  /\ \/ /\ doc' = doc \o [k \in DOMAIN ps |-> FuncReport(ps[k], ps[k] \in stats, diff)]
        /\ Step /\ Go(pc) /\ UNCHANGED out
     \/ diff /\ (\E k \in DOMAIN ps : OneSided(ps[k])) /\ Fail(Because("decode")) /\ UNCHANGED <<at, doc, out>>
  /\ Frame /\ UNCHANGED <<pairs, held, work>>

JSONAll == pc = "jsonAll" /\ Left /\ Collect(<<Current>>, {Current}, c.all)

JSONName ==
  /\ pc = "jsonNames" /\ Left
  /\ LET found == MatchFuncs(pairs, Current)
         sole == Len(found) = 1
     IN  IF found = <<>>
         THEN Fail(NotFound(pairs, Current)) /\ Frame /\ UNCHANGED <<pairs, held, work, at, doc, out>>
         ELSE Collect(found, {p \in Range(found) : sole \/ p.state = "changed"}, sole)

Encode == /\ pc \in {"jsonAll", "jsonNames"} /\ ~Left
          /\ Emit(<<Item("json", doc)>>)
          /\ Go("return")
          /\ Frame /\ Idle /\ UNCHANGED held

-----------------------------------------------------------------------------
(* One binary: writeFuncListings, or writeStats, whose first lines are out *)
(* before the functions are decoded.                                       *)
Single == /\ pc = "single"
          /\ IF c.fns # <<>> THEN work' = c.fns /\ Go("listings") ELSE UNCHANGED work /\ Go("stats")
          /\ Frame /\ UNCHANGED <<pairs, held, at, doc, out>>

WriteListing ==
  /\ pc = "listings" /\ Left
  /\ LET found == MatchFuncs(Funcs(bin.table), Current)
     IN  \/ found = <<>> /\ Fail(NotFound(Funcs(bin.table), Current)) /\ UNCHANGED <<at, out>>
         \/ Len(found) = 1 /\ Fail(Because("decode")) /\ UNCHANGED <<at, out>>
         \/ /\ found # <<>> /\ Step /\ Go(pc)
            /\ Emit(<<Item(IF Len(found) = 1 THEN "listing" ELSE "matches", found)>>)
  /\ Frame /\ UNCHANGED <<pairs, held, work, doc>>

StatsHead(b) == [text |-> TextBytes(b), padding |-> Padding(b)]
StatsTables(b) == [insts    |-> Total(Funcs(b.table), "insts"),
                   packages |-> Packages(Funcs(b.table)),
                   largest  |-> Largest(Funcs(b.table), c.top)]

WriteStats ==
  /\ pc = "stats"
  /\ \/ /\ Emit(<<Item("statsHead", <<StatsHead(bin)>>), Item("statsTables", <<StatsTables(bin)>>)>>)
        /\ Go("return")
     \/ bin.table # <<>> /\ Emit(<<Item("statsHead", <<StatsHead(bin)>>)>>) /\ Fail(Because("decode"))
  /\ Frame /\ Idle /\ UNCHANGED held

EndText == /\ pc \in {"all", "names", "listings"} /\ ~Left
           /\ Go("return")
           /\ Frame /\ Idle /\ UNCHANGED <<held, out>>

(* What was deferred, the last first.                                      *)
Release == /\ pc = "return" /\ held # <<>>
           /\ held' = Front(held)
           /\ Frame /\ Idle /\ UNCHANGED <<pc, out, error>>

Exit == /\ pc = "return" /\ held = <<>>
        /\ Goto("exited")
        /\ Frame /\ Idle /\ UNCHANGED <<held, out, error>>

CommandNext ==
  \/ Version \/ Validate \/ CPUProfile \/ MemProfile \/ OpenOld \/ OpenNew \/ Compare
  \/ Raw \/ OpenObjOld \/ OpenObjNew \/ Select \/ Summary \/ WriteAll \/ WriteName
  \/ JSONAll \/ JSONName \/ Encode \/ Single \/ WriteListing \/ WriteStats \/ EndText
  \/ Release \/ Exit

CommandSpec == CommandInit /\ [][CommandNext]_commandVars /\ WF_commandVars(CommandNext)
-----------------------------------------------------------------------------
Order == <<"cpuFile", "cpuProfile", "heapProfile", "old", "new", "objOld", "objNew">>
Place(r) == CHOOSE k \in DOMAIN Order : Order[k] = r

(* What is held was taken in the order of Execute, so a profile is stopped *)
(* before its file is closed and binaries are unmapped before the heap     *)
(* profile; reports are of pairs at hand.                                  *)
CommandTypeOK ==
  /\ held \in Seq(Range(Order))
  /\ \A j, k \in DOMAIN held : j < k => Place(held[j]) < Place(held[k])
  /\ at \in 0..Len(work)
  /\ \A k \in DOMAIN doc : doc[k].pair \in Range(pairs) /\ (doc[k].diff => doc[k].stats)
  /\ (error # NoError) => pc \in {"return", "exited"}

(* What a run without error prints, all of it: the answers to the names in *)
(* the order given, an exact name winning over longer ones; the summary and*)
(* with --all the pairs of the table.  JSON has the scripts that the text  *)
(* shows, and statistics of what the text gives them for.                  *)
Answer(ps, name, Sole(_)) ==
  IF \E k \in DOMAIN ps : ps[k].name = name
  THEN Sole(CHOOSE p \in Range(ps) : p.name = name)
  ELSE LET found == Containing(ps, name)
       IN  IF Len(found) = 1 THEN Sole(found[1]) ELSE <<Item("matches", found)>>

Section(p) ==
  CASE p.state = "identical" -> <<Item("identical", <<p>>)>>
    [] c.blocks /\ p.state \in {"changed", "relocation-only"} -> <<Item("blocks", <<p>>)>>
    [] OTHER -> (IF OneSided(p) THEN <<Item("one-sided", <<p>>)>> ELSE <<>>)
                \o <<Item(IF c.sideBy THEN "sideBySide" ELSE "diff", <<p>>)>>

InJSON(item) ==
  LET script == item.kind \in {"diff", "sideBySide", "blocks"}
      Entry(p) == [pair  |-> p,
                   stats |-> (script \/ p.state = "changed") /\ p.state # "relocation-only",
                   diff  |-> script /\ p.state # "relocation-only"]
  IN  IF item.kind = "one-sided" THEN <<>> ELSE [k \in DOMAIN item.about |-> Entry(item.about[k])]

Answers(ps, Sole(_)) == Flat([k \in DOMAIN c.fns |-> Answer(ps, c.fns[k], Sole)])
InJSONAll(items) == Flat([k \in DOMAIN items |-> InJSON(items[k])])
Document ==
  IF c.fns # <<>>
  THEN Flat([k \in DOMAIN c.fns |-> InJSONAll(Answer(pairs, c.fns[k], Section))])
  ELSE [k \in DOMAIN work |-> LET code == work[k].state # "relocation-only"
                              IN  [pair |-> work[k], stats |-> code, diff |-> code /\ c.all]]

Report ==
  IF c.version THEN <<Item("version", <<>>)>>
  ELSE IF c.single /\ c.fns = <<>>
  THEN <<Item("statsHead", <<StatsHead(bin)>>), Item("statsTables", <<StatsTables(bin)>>)>>
  ELSE IF c.single THEN Answers(Funcs(bin.table), LAMBDA f : <<Item("listing", <<f>>)>>)
  ELSE IF c.json THEN <<Item("json", Document)>>
  ELSE IF c.fns # <<>> THEN Answers(pairs, Section)
  ELSE <<Item("summary", pairs)>> \o IF c.all THEN Flat([k \in DOMAIN work |-> Section(work[k])]) ELSE <<>>

(* At any time what is printed is the beginning of that report: a run fails*)
(* if and only if something is missing, JSON is printed whole or not at    *)
(* all, and a comparison flag is never ignored for want of a second binary *)
(* (README.md:104, "Flags that only make sense for a comparison ... are    *)
(* rejected").  Of diffs in JSON it follows json.go:66-68 and the code;    *)
(* json.go:35-37 has them only for --fn on a changed function.             *)
ReportsAreWhole ==
  /\ out # <<>> => IsPrefix(out, Report)
  /\ pc = "exited" => (error = NoError) = (out # <<>> /\ out = Report)
  /\ out # <<>> /\ c.single /\ ~c.version =>
       [c EXCEPT !.single = FALSE, !.fns = <<>>, !.top = 0, !.color = "auto", !.cpuProf = FALSE, !.memProf = FALSE]
         = [version |-> FALSE, top |-> 0, sortBy |-> "size", states |-> <<>>, single |-> FALSE, fns |-> <<>>,
            filters |-> <<>>, maskSP |-> FALSE, json |-> FALSE, sideBy |-> FALSE, blocks |-> FALSE,
            all |-> FALSE, color |-> "auto", cpuProf |-> FALSE, memProf |-> FALSE]

(* Nothing is decoded from a binary that is not mapped: a listing needs the*)
(* side it lists, blocks need the two object files, which are opened under *)
(* a condition of their own, far from the renderer's.                      *)
SideOf(p) == CASE p.state = "added" -> {"new"} [] p.state = "removed" -> {"old"} [] OTHER -> {}
Needs(item) == CASE item.kind = "blocks" -> {"objOld", "objNew"}
                 [] item.kind \in {"diff", "sideBySide"} -> SideOf(item.about[1])
                 [] item.kind \in {"listing", "statsTables"} -> {"old"}
                 [] OTHER -> {}

ReadsAreMapped ==
  [][/\ pc = "compare" => {"old", "new"} \subseteq Range(held)
     /\ \A k \in (Len(out) + 1)..Len(out') : Needs(out'[k]) \subseteq Range(held)
     /\ \A k \in (Len(doc) + 1)..Len(doc') : doc'[k].diff => SideOf(doc'[k].pair) \subseteq Range(held)]_commandVars

(* An unknown name is answered with the known names nearest to it, at most *)
(* three, none that differs in more than half, none nearer left out.       *)
KnownTo(b, ps) == IF c.single THEN Funcs(b.table) ELSE ps
SuggestionsAreNearest ==
  error.why = "name" =>
    LET known == KnownTo(bin, pairs)
    IN  AreNearest(error.closest, work[at + 1], {known[k].name : k \in DOMAIN known}, 3)

(* Padding counts each address between functions that none of them covers, *)
(* once, also where symbols overlap; it is large in runs of over 64 bytes  *)
(* that no function, be it empty, divides.                                 *)
Printed(kind) == out # <<>> /\ out[Len(out)].kind = kind

PaddingIsUncovered ==
  Printed("statsHead") /\ bin.table # <<>> =>
    LET fs == Range(Funcs(bin.table))
        free == {a \in Min({f.addr : f \in fs})..Max({EndOf(f) : f \in fs}) :
                   /\ \A f \in fs : a \notin f.addr..(EndOf(f) - 1)
                   /\ \E f \in fs : a < f.addr}
        large == {a \in free : \E first \in free :
                    /\ a \in first..(first + smallGap)
                    /\ first..(first + smallGap) \subseteq free
                    /\ \A f \in fs : f.addr \notin (first + 1)..(first + smallGap)}
    IN  Padding(bin) = IF bin.noLayout THEN [align |-> 0, large |-> 0]
                       ELSE [align |-> Cardinality(free \ large), large |-> Cardinality(large)]

(* The packages account for the text and the instructions, but for those   *)
(* beyond the cap, which are no larger; so do the largest functions.  What *)
(* the functions leave uncovered is accounted for as padding.              *)
StatsAccountForText ==
  /\ PaddingIsUncovered
  /\ Printed("statsTables") =>
       LET fs == Funcs(bin.table)
           tables == StatsTables(bin)
           listed == {tables.packages[k].pkg : k \in DOMAIN tables.packages}
           rest == {k \in DOMAIN fs : fs[k].pkg \notin listed}
           Rest(field) == SumOf([k \in DOMAIN fs |-> IF k \in rest THEN fs[k][field] ELSE 0])
       IN  /\ Total(tables.packages, "size") + Rest("size") = StatsHead(bin).text
           /\ Total(tables.packages, "insts") + Rest("insts") = tables.insts
           /\ Total(tables.packages, "funcs") + Cardinality(rest) = Len(fs)
           /\ rest # {} => Len(tables.packages) = pkgRollupCap
           /\ \A k \in rest, l \in DOMAIN tables.packages : Share(fs, fs[k].pkg, "size") <= tables.packages[l].size
           /\ Len(tables.largest) = Least(c.top, Len(fs))
           /\ \A f \in Range(fs) \ Range(tables.largest), g \in Range(tables.largest) : f.size <= g.size

(* Every run ends, whatever fails, and holds nothing then: no mapping, no  *)
(* profile left unfinished.                                                *)
ExitsReleased == <>[](pc = "exited" /\ held = <<>>)
=============================================================================
