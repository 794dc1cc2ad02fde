------------------------------- MODULE ChopDb -------------------------------
(***************************************************************************)
(* The chop commands that share a database: sample, disasm, count,         *)
(* annotate and search.  A command is a sequence of statements, each of    *)
(* them atomic (a transaction, or a statement outside of one), and may be  *)
(* killed between two of them.  Rows are named by what they stand for      *)
(* instead of by a row id: a function is <<module, number>>, a block       *)
(* <<module, function, place>>, an instruction its block and address.      *)
(* Scores are kept in units of 1 / Scale of the sampled share of a total.  *)
(***************************************************************************)
EXTENDS FlowGraph, TLC

CONSTANTS
  Users,        \* object files, for every module its functions, and what the
                \* user does with them: a script of commands, and their options
  Layout,       \* [pid -> [lines, bias]]: the lines of /proc/<pid>/maps, and for
                \* every module what its addresses are moved by
  Scale,        \* unit of the scores: a multiple of every block's size
  NoTarget,     \* target of a search without one
  SampleBound   \* bound: samples

ASSUME BoundAssumption ==
  SampleBound \in Nat /\ Scale \in Nat \ {0} /\ NoTarget \in Nat
ASSUME CodeAssumption ==
  \A user \in Users :
    /\ IsFiniteSet(DOMAIN user.objects)
    /\ \A m \in DOMAIN user.objects :
         /\ user.objects[m] \in Seq(Range(user.objects[m]))
         /\ \A f \in DOMAIN user.objects[m] : Assembled(user.objects[m][f])

VARIABLES
  objects, form, \* the object files, and what the user does
  db,            \* the tables
  command,       \* the command that runs
  todo,          \* the statements it has still to execute
  search,        \* Search: queue_, visited_, covered_, paths_, coverage_
  sampled,       \* the process that is being sampled
  history,       \* partial: modules whose disasm was killed; reused: a process
                 \* was sampled twice; counted: a count has ended and nothing
                 \* changed since; searched: functions of unlimited searches
  script         \* the commands the user will still type: a choice for each
vars == <<objects, form, db, command, todo, search, sampled, history, script>>

Pids == DOMAIN Layout
Modules == DOMAIN objects
Functions(m) == DOMAIN objects[m]
Code(m, f) == objects[m][f]
Graph(m, f) == link_blocks(Code(m, f))

NoPid == 0
NoSearch == [funcs |-> {}, queue |-> {}, visited |-> <<>>, covered |-> <<>>,
             paths |-> <<>>, coverage |-> 0]

Init ==
  /\ \E user \in Users : objects = user.objects /\ form = user.form
  /\ db = [tables |-> {}, map |-> <<>>, sample |-> <<>>,
           module |-> {}, func |-> {}, block |-> {}, inst |-> {}, edge |-> {},
           inst_annot |-> {}, block_annot |-> <<>>, func_annot |-> <<>>,
           module_annot |-> <<>>, path |-> <<>>]
  /\ command = "none" /\ todo = <<>> /\ search = NoSearch /\ sampled = NoPid
  /\ history = [partial |-> {}, reused |-> FALSE, counted |-> FALSE, searched |-> {}]
  /\ script = form.script

\* PRAGMA locking_mode = EXCLUSIVE: one command at a time.
Begin(c) ==
  /\ command = "none" /\ script # <<>> /\ c \in Head(script)
  /\ command' = c /\ script' = Tail(script)
-----------------------------------------------------------------------------
(* chop sample.                                                            *)

\* parse_maps: sscanf leaves the path of the line before to an anonymous one.
Anonymous == ""
pathOf(lines, k) ==
  LET named == {j \in DOMAIN lines : j <= k /\ lines[j].path # Anonymous}
  IN  IF named = {} THEN Anonymous ELSE lines[Max(named)].path
insert_maps(pid) ==
  LET lines == Layout[pid].lines
  IN  [k \in DOMAIN lines |-> [pid |-> pid, path |-> pathOf(lines, k), perm |-> lines[k].perm,
                               begin |-> lines[k].begin, end |-> lines[k].end]]

StartSample(pid) ==
  /\ Begin("sample")
  /\ sampled' = pid
  /\ db' = [db EXCEPT !.tables = @ \cup {"sample"}, !.map = @ \o insert_maps(pid)]
  /\ history' = [history EXCEPT !.counted = FALSE,
                                !.reused = @ \/ \E r \in Range(db.map) : r.pid = pid]
  /\ UNCHANGED <<objects, form, todo, search>>

MappedIn(pid) == DOMAIN Layout[pid].bias \cap Modules
Loaded(pid, m, addr) == addr + Layout[pid].bias[m]

\* objdump lists an address of a module once: its functions share none.
AddrsOf(insts) == {inst.addr : inst \in Range(insts)}
Addresses(m) == UNION {AddrsOf(Code(m, f)) : f \in Functions(m)}
ASSUME AddressAssumption ==
  \A user \in Users : \A m \in DOMAIN user.objects :
    \A f \in DOMAIN user.objects[m] : \A g \in DOMAIN user.objects[m] :
      f # g => AddrsOf(user.objects[m][f]) \cap AddrsOf(user.objects[m][g]) = {}

\* The kernel's mappings do not overlap and are listed in order. An instruction is
\* in a mapping of its module, which was linked at a fixed address (and not moved)
\* or is mapped above its addresses.
Has(line, ip) == line.begin <= ip /\ ip < line.end
ASSUME LayoutAssumption ==
  \A pid \in Pids :
    LET lines == Layout[pid].lines
        bias  == Layout[pid].bias
    IN  /\ lines \in Seq(Range(lines))
        /\ \A k \in DOMAIN lines :
             /\ lines[k].begin \in Nat /\ lines[k].end \in Nat /\ lines[k].begin < lines[k].end
             /\ \A l \in DOMAIN lines : k < l => lines[k].end <= lines[l].begin
        /\ \A user \in Users : \A m \in DOMAIN bias \cap DOMAIN user.objects :
             LET addrs == UNION {AddrsOf(user.objects[m][f]) : f \in DOMAIN user.objects[m]}
             IN  /\ bias[m] \in Nat /\ (bias[m] = 0 \/ \A addr \in addrs : addr < bias[m])
                 /\ \A addr \in addrs : \E k \in DOMAIN lines :
                      lines[k].path = m /\ m # Anonymous /\ Has(lines[k], addr + bias[m])

\* `at' is where the program was: not a column of the table.
Sample(m, f, i) ==
  /\ command = "sample" /\ Len(db.sample) < SampleBound
  /\ m \in MappedIn(sampled) /\ i \in Reached(Code(m, f))
  /\ LET addr == Code(m, f)[i].addr
     IN  db' = [db EXCEPT !.sample = Append(@,
                  [pid |-> sampled, ip |-> Loaded(sampled, m, addr), at |-> <<m, f, addr>>])]
  /\ UNCHANGED <<objects, form, command, todo, search, sampled, history, script>>

EndSample ==
  /\ command = "sample"
  /\ command' = "none" /\ sampled' = NoPid
  /\ UNCHANGED <<objects, form, db, todo, search, history, script>>
-----------------------------------------------------------------------------
(* chop disasm.                                                            *)

\* The modules of the command line, or those with code in the map table (but for
\* [vdso] and the like, and what -ignore names).
find_modules == {r.path : r \in {r \in Range(db.map) : r.perm = "r-xp"}} \cap Modules
Named(ms) == IF ms = {} THEN find_modules ELSE ms

\* A module that is found is not parsed again.
StartDisasm(ms) ==
  /\ Begin("disasm")
  /\ ms # {} \/ "sample" \in db.tables
  /\ db' = [db EXCEPT !.tables = @ \cup {"cfg"}]
  /\ todo' = [k \in 1 .. Cardinality(Named(ms) \ db.module) |->
                <<"module", SetToSeq(Named(ms) \ db.module)[k]>>]
  /\ history' = [history EXCEPT !.counted = FALSE]
  /\ UNCHANGED <<objects, form, search, sampled>>

InstsOf(m, f, k) ==
  {[block |-> <<m, f, k>>, addr |-> inst.addr] : inst \in Range(Graph(m, f)[k])}
get_edges(m, f) ==
  {[from |-> <<m, f, e[1]>>, to |-> <<m, f, e[2]>>] : e \in Edges(Code(m, f))}

\* Module::save_db, Function::save_db: the functions of a module, of each of them
\* every block and its instructions, then its edges.
AfterSaved(s) ==
  LET later == {h \in DOMAIN Graph(s[2], s[3]) : h > s[4]}
  IN  CASE s[1] = "module" -> [f \in Functions(s[2]) |-> <<"func", s[2], f>>]
        [] s[1] = "func"   -> << <<"block", s[2], s[3], 1>> >>
        [] s[1] = "block"  -> << <<"insts", s[2], s[3], s[4]>> >>
        [] s[1] = "insts"  -> IF later = {} THEN << <<"edges", s[2], s[3]>> >>
                              ELSE << <<"block", s[2], s[3], Min(later)>> >>
        [] s[1] = "edges"  -> <<>>
Saved(s) ==
  CASE s[1] = "module" -> [db EXCEPT !.module = @ \cup {s[2]}]
    [] s[1] = "func"   -> [db EXCEPT !.func = @ \cup {<<s[2], s[3]>>}]
    [] s[1] = "block"  -> [db EXCEPT !.block = @ \cup {<<s[2], s[3], s[4]>>}]
    [] s[1] = "insts"  -> [db EXCEPT !.inst = @ \cup InstsOf(s[2], s[3], s[4])]
    [] s[1] = "edges"  -> [db EXCEPT !.edge = @ \cup get_edges(s[2], s[3])]
-----------------------------------------------------------------------------
(* chop count and chop annotate.                                           *)

FuncOf(block) == <<block[1], block[2]>>
annot(table, key) == IF key \in DOMAIN table THEN table[key] ELSE [count |-> 0, score |-> 0]
countOf(table, keys) == MapThenSumSet(LAMBDA k : table[k].count, keys)
scoreOf(table, keys) == MapThenSumSet(LAMBDA k : table[k].score, keys)

\* _module_map.offset: a module whose addresses lie in the row is not moved.
offset(m, r) ==
  LET inMap(addr) == r.begin <= addr /\ addr <= r.end
  IN  IF inMap(Min(Addresses(m))) /\ inMap(Max(Addresses(m))) THEN 0 ELSE r.begin

\* _sample_grouped: the samples of a module at an address, once for every row
\* of the map table that covers them (BETWEEN has both ends), with the offset of
\* one of these rows, the first or the last.
covering(m, s) ==
  {k \in DOMAIN db.map : LET r == db.map[k]
                         IN  r.path = m /\ r.pid = s.pid /\ r.begin <= s.ip /\ s.ip <= r.end}
taken(rows) == IF form.last THEN Max(rows) ELSE Min(rows)
sample_grouped(m, addr) ==
  Cardinality({k \in (DOMAIN db.map) \X (DOMAIN db.sample) :
     LET s == db.sample[k[2]]
     IN  /\ k[1] \in covering(m, s)
         /\ s.ip - offset(m, db.map[taken(covering(m, s))]) = addr})

\* Every instruction at a sampled address gets a row, whatever its module.
count_insts(m) ==
  {[inst |-> i, module |-> m, count |-> sample_grouped(m, i.addr)] :
     i \in {i \in db.inst : sample_grouped(m, i.addr) > 0}}

OfAnyModule(row) == TRUE  \* mutant: the rows of other modules are not left out
OfItsModule(row) == row.inst.block[1] = row.module

count_blocks ==
  LET rows == {row \in db.inst_annot : OfItsModule(row)}
  IN  [b \in {row.inst.block : row \in rows} |->
         [count |-> MapThenSumSet(LAMBDA row : row.count, {row \in rows : row.inst.block = b}),
          score |-> 0]]
count_funcs ==
  LET blocks == DOMAIN db.block_annot
  IN  [g \in {FuncOf(b) : b \in blocks} |->
         [count |-> countOf(db.block_annot, {b \in blocks : FuncOf(b) = g}), score |-> 0]]
count_modules ==
  LET funcs == DOMAIN db.func_annot
  IN  [m \in {g[1] : g \in funcs} |->
         [count |-> countOf(db.func_annot, {g \in funcs : g[1] = m}), score |-> 0]]

StartCount ==
  /\ Begin("count")
  /\ todo' = CASE db.tables # {"sample", "cfg"} -> <<>>
               [] db.module = {} -> << <<"pre">> >>
               [] OTHER ->
                    << <<"pre">> >>
                    \o [k \in 1 .. Cardinality(db.module) |-> <<"count_insts", SetToSeq(db.module)[k]>>]
                    \o << <<"clear", "block_annot">>, <<"count_blocks">>,
                          <<"clear", "func_annot">>, <<"count_funcs">>,
                          <<"clear", "module_annot">>, <<"count_modules">> >>
  /\ history' = [history EXCEPT !.counted = FALSE]
  /\ UNCHANGED <<objects, form, db, search, sampled>>

StartAnnotate ==
  /\ Begin("annotate")
  /\ todo' = IF "cfg" \notin db.tables THEN <<>>
             ELSE << <<"score_blocks">> >> \o (IF form.normalize THEN << <<"norm_blocks">> >> ELSE <<>>)
                  \o << <<"score_funcs">>, <<"score_modules">> >>
  /\ UNCHANGED <<objects, form, db, search, sampled, history>>

Counted(s) ==
  CASE s[1] = "pre"           -> [db EXCEPT !.inst_annot = {}]
    [] s[1] = "count_insts"   -> [db EXCEPT !.inst_annot = @ \cup count_insts(s[2])]
    [] s[1] = "clear"         -> [db EXCEPT ![s[2]] = <<>>]
    [] s[1] = "count_blocks"  -> [db EXCEPT !.block_annot = count_blocks]
    [] s[1] = "count_funcs"   -> [db EXCEPT !.func_annot = count_funcs]
    [] s[1] = "count_modules" -> [db EXCEPT !.module_annot = count_modules]

size(b) == Cardinality({i \in db.inst : i.block = b})
Scored(s) ==
  LET rescored(table, score(_)) == [k \in DOMAIN table |-> [table[k] EXCEPT !.score = score(k)]]
      ofFunc(g) == {b \in DOMAIN db.block_annot : FuncOf(b) = g}
      ofModule(m) == {g \in DOMAIN db.func_annot : g[1] = m}
  IN CASE s[1] = "score_blocks" ->
            [db EXCEPT !.block_annot = rescored(@, LAMBDA b : Scale * db.block_annot[b].count)]
       [] s[1] = "norm_blocks" ->
            [db EXCEPT !.block_annot = rescored(@, LAMBDA b : db.block_annot[b].score \div size(b))]
       [] s[1] = "score_funcs" ->
            [db EXCEPT !.func_annot = rescored(@, LAMBDA g : scoreOf(db.block_annot, ofFunc(g)))]
       [] s[1] = "score_modules" ->
            [db EXCEPT !.module_annot = rescored(@, LAMBDA m : scoreOf(db.func_annot, ofModule(m)))]
-----------------------------------------------------------------------------
(* chop search.  A path [target, nodes, score] goes from the block a back  *)
(* edge leads to, to the block it comes from.                              *)

blocksOf(g) == {b \in db.block : FuncOf(b) = g}
next(b) == {e.to : e \in {e \in db.edge : e.from = b}}
score(b) == annot(db.block_annot, b).score

\* A block is loaded with one instruction for every row it has in inst_annot.
loadedSize(b) ==
  MapThenSumSet(LAMBDA i : Max({1, Cardinality({row \in db.inst_annot : row.inst = i})}),
                {i \in db.inst : i.block = b})
num_ins(nodes) == MapThenSumSet(loadedSize, Range(nodes))

get_backedges(g) ==
  {e \in db.edge : FuncOf(e.from) = g /\ e.to[3] <= e.from[3]}
make_loop(g) ==
  LET numbers == {b[3] : b \in blocksOf(g)}
  IN  [from |-> <<g[1], g[2], Max(numbers)>>, to |-> <<g[1], g[2], Min(numbers)>>]
backedges(g) ==
  get_backedges(g) \cup (IF get_backedges(g) = {} \/ form.fullfunc THEN {make_loop(g)} ELSE {})

\* search_global, search_module, search_function; no other type.
Selected(scope) ==
  LET hot(g) == form.hot => annot(db.func_annot, g).score > 0
  IN  CASE scope[1] = "global"   -> {g \in db.func : hot(g) /\ \E i \in db.inst : FuncOf(i.block) = g}
        [] scope[1] = "module"   -> {g \in db.func : hot(g) /\ g[1] = scope[2]}
        [] scope[1] = "function" -> {g \in db.func : g = <<scope[2], scope[3]>>}
        [] OTHER                 -> {}

\* A function without blocks has no loop to make: the command fails.
StartSearch(scope) ==
  /\ Begin("search")
  /\ LET funcs == Selected(scope)
         broken == \E g \in funcs : blocksOf(g) = {}
     IN  search' = IF "cfg" \notin db.tables \/ broken THEN NoSearch
                   ELSE [NoSearch EXCEPT !.funcs = funcs,
                           !.queue = {[target |-> e.from, nodes |-> <<e.to>>, score |-> 0] :
                                        e \in UNION {backedges(g) : g \in funcs}}]
  /\ UNCHANGED <<objects, form, db, todo, sampled, history>>

OfSameSize(p, q) == Len(p) = Len(q)  \* mutant: the nodes are not compared
SamePath(p, q) == Range(p) = Range(q)
found_path(nodes) == \E p \in Range(search.paths) : SamePath(p, nodes)

times(table, b) == IF b \in DOMAIN table THEN table[b] ELSE 0
more(table, blocks) == [b \in blocks |-> times(table, b) + 1] @@ table

heur(nodes) ==
  MapThenSumSet(LAMBDA b : IF times(search.covered, b) > form.reps THEN 0 ELSE score(b), Range(nodes))
expand_path(path, b) ==
  LET nodes == Append(path.nodes, b)
  IN  [path EXCEPT !.nodes = nodes, !.score = heur(nodes)]
\* Path::trend, of a path no longer than its history.
pruned(path) ==
  num_ins(path.nodes) >= form.ins /\ path.score < form.cutoff * num_ins(path.nodes)

scoredPath(nodes) ==
  [search EXCEPT !.paths = Append(@, nodes), !.covered = more(@, Range(nodes)),
                 !.coverage = @ + MapThenSumSet(score, Range(nodes) \ DOMAIN search.covered)]

\* Progress::infty.
complete ==
  \/ form.target # NoTarget /\ Len(search.paths) >= form.target
  \/ form.coverage # NoTarget /\ search.coverage >= form.coverage

\* Search::next takes a path with the best score.
SearchNext ==
  /\ command = "search" /\ todo = <<>> /\ search.queue # {} /\ ~complete
  /\ \E path \in search.queue :
       LET u == Last(path.nodes)
           visits == times(search.visited, u) + 1
           rest == [search EXCEPT !.queue = @ \ {path}, !.visited = more(@, {u})]
           expanded == {expand_path(path, v) : v \in next(u) \ Range(path.nodes)}
       IN /\ \A other \in search.queue : other.score <= path.score
          /\ search' =
               CASE u = path.target /\ ~found_path(path.nodes) ->
                      [scoredPath(path.nodes) EXCEPT !.queue = rest.queue, !.visited = rest.visited]
                 [] u # path.target /\ (form.target = NoTarget \/ visits <= form.target) ->
                      [rest EXCEPT !.queue = @ \cup {p \in expanded : ~pruned(p)}]
                 [] OTHER -> rest
  /\ UNCHANGED <<objects, form, db, command, todo, sampled, history, script>>

\* Each path that find_by_hash does not find is saved, a row and then its nodes.
SearchEnd ==
  /\ command = "search" /\ todo = <<>> /\ search # NoSearch
  /\ search.queue = {} \/ complete \/ form.timeout
  /\ todo' = Append([k \in DOMAIN search.paths |-> <<"path", search.paths[k]>>], <<"end">>)
  /\ UNCHANGED <<objects, form, db, command, search, sampled, history, script>>

find_by_hash(nodes) == \E p \in Range(db.path) : SamePath(nodes, p)
Written(s) ==
  CASE s[1] = "path"      -> IF find_by_hash(s[2]) THEN db ELSE [db EXCEPT !.path = Append(@, <<>>)]
    [] s[1] = "path_node" -> [db EXCEPT !.path[Len(db.path)] = s[2]]
    [] s[1] = "end"       -> db
AfterWritten(s) ==
  IF s[1] = "path" /\ ~find_by_hash(s[2]) THEN << <<"path_node", s[2]>> >> ELSE <<>>
-----------------------------------------------------------------------------
Execute(s) ==
  CASE command = "disasm"   -> Saved(s)
    [] command = "count"    -> Counted(s)
    [] command = "annotate" -> Scored(s)
    [] command = "search"   -> Written(s)

AfterThat(s) ==
  CASE command = "disasm" -> AfterSaved(s)
    [] command = "search" -> AfterWritten(s)
    [] OTHER              -> <<>>

\* A search without a target, a cutoff or a timeout ends when it has seen all.
Unlimited == form.target = NoTarget /\ form.coverage = NoTarget /\ form.cutoff = 0 /\ ~form.timeout

Statement ==
  /\ todo # <<>>
  /\ db' = Execute(Head(todo)) /\ todo' = AfterThat(Head(todo)) \o Tail(todo)
  /\ history' = [history EXCEPT
       !.counted = @ \/ Head(todo)[1] = "count_modules",
       !.searched = @ \cup (IF Head(todo)[1] = "end" /\ Unlimited THEN search.funcs ELSE {})]
  /\ search' = IF Head(todo)[1] = "end" THEN NoSearch ELSE search
  /\ UNCHANGED <<objects, form, command, sampled, script>>

EndCommand ==
  /\ command \notin {"none", "sample"} /\ todo = <<>> /\ search = NoSearch
  /\ command' = "none"
  /\ UNCHANGED <<objects, form, db, todo, search, sampled, history, script>>

\* A disasm that is killed leaves a part of a module.
Kill ==
  /\ form.kill /\ command # "none" /\ (todo # <<>> \/ search # NoSearch)
  /\ command' = "none" /\ todo' = <<>> /\ search' = NoSearch
  /\ history' = [history EXCEPT !.partial =
       @ \cup (IF command = "disasm" /\ Head(todo)[1] # "module" THEN {Head(todo)[2]} ELSE {})]
  /\ UNCHANGED <<objects, form, db, sampled, script>>

Terminated == command = "none" /\ script = <<>> /\ UNCHANGED vars

Next ==
  \/ \E pid \in Pids : StartSample(pid)
  \/ \E m \in Modules : \E f \in Functions(m) : \E i \in DOMAIN Code(m, f) : Sample(m, f, i)
  \/ EndSample
  \/ \E ms \in {{}} \cup {{m} : m \in Modules} : StartDisasm(ms)
  \/ StartCount
  \/ StartAnnotate
  \/ \E scope \in form.scopes : StartSearch(scope)
  \/ SearchNext
  \/ SearchEnd
  \/ Statement
  \/ EndCommand
  \/ Kill
  \/ Terminated

Spec == Init /\ [][Next]_vars
-----------------------------------------------------------------------------
(* Properties.                                                             *)

\* The modules that are in the database as a whole.
Complete ==
  {m \in db.module \ history.partial : ~\E k \in DOMAIN todo : command = "disasm" /\ todo[k][2] = m}

\* The stored graph is the function's: an instruction that can be reached is in
\* exactly one block, and wherever it may go on is the next instruction of its
\* block or the first of a block an edge leads to; only what follows the last
\* block is not in the graph (disasm: build_blocks, link_blocks, save_db).
GraphCovers ==
  \A m \in Complete : \A f \in Functions(m) :
    LET insts == Code(m, f)
        holding(i) == {b \in blocksOf(<<m, f>>) : [block |-> b, addr |-> insts[i].addr] \in db.inst}
        first(b) == Min({inst.addr : inst \in {inst \in db.inst : inst.block = b}})
        last(b) == Max({inst.addr : inst \in {inst \in db.inst : inst.block = b}})
        final(b) == \A c \in blocksOf(<<m, f>>) : c[3] <= b[3]
    IN  \A i \in Reached(insts) :
          /\ Cardinality(holding(i)) = 1
          /\ \A j \in Flow(insts, i) : \A b \in holding(i), c \in holding(j) :
               \/ b = c /\ j = i + 1
               \/ /\ last(b) = insts[i].addr /\ first(c) = insts[j].addr
                  /\ final(b) \/ [from |-> b, to |-> c] \in db.edge

\* Modules whose samples the query can tell: in no process are their instructions
\* in several mappings, in one that begins elsewhere than the module does, or where
\* a row of theirs ends.
Legible(m) ==
  \A pid \in Pids :
    LET lines == Layout[pid].lines
        bias  == Layout[pid].bias
    IN  /\ m \in DOMAIN bias => \E k \in DOMAIN lines :
             /\ bias[m] \in {0, lines[k].begin}
             /\ \A addr \in Addresses(m) : Has(lines[k], addr + bias[m])
        /\ \A r \in Range(insert_maps(pid)) : r.path = m =>
             \A n \in MappedIn(pid) : \A addr \in Addresses(n) : Loaded(pid, n, addr) # r.end

\* The counts of a block, a function and a module are those of its samples.
CountsOf(ms) ==
  LET where == [s \in DOMAIN db.sample |-> db.sample[s].at]
      samples(test(_)) == Cardinality({s \in DOMAIN where : test(where[s])})
  IN  /\ \A b \in {b \in db.block : b[1] \in ms} :
           annot(db.block_annot, b).count =
             samples(LAMBDA at : [block |-> b, addr |-> at[3]] \in db.inst /\ FuncOf(at) = FuncOf(b))
      /\ \A g \in {g \in db.func : g[1] \in ms} :
           annot(db.func_annot, g).count = samples(LAMBDA at : FuncOf(at) = g)
      /\ \A m \in ms :
           annot(db.module_annot, m).count = samples(LAMBDA at : at[1] = m)

\* What a count leaves is where the program was: the samples of a block, a
\* function and a module are its own, although another module has instructions
\* with the same addresses, and whatever else is mapped, unless a process was
\* sampled twice (its maps are then there twice), a disasm was killed or the
\* module is not legible (count: group_samples, count_*).
CountsExact ==
  history.counted /\ ~history.reused => CountsOf({m \in Complete : Legible(m)})

\* docs/database_layout.md: "Number of samples in this function", and in this basic
\* block, of every module.
CountsShown ==
  history.counted /\ ~history.reused => CountsOf(Complete)

\* Paths along the edges of a function that come to no block twice.
Walks(m, f) ==
  LET blocks == DOMAIN Graph(m, f)
  IN  {p \in SeqOf(blocks, Cardinality(blocks)) \ {<<>>} :
         /\ IsInjective(p)
         /\ \A k \in 1 .. Len(p) - 1 : <<p[k], p[k + 1]>> \in Edges(Code(m, f))}

\* What closes a loop: the back edges, and the way from the last block to the
\* first of a function without any or with -fullfunc.
Closing(m, f) ==
  LET blocks == DOMAIN Graph(m, f)
      back == {e \in Edges(Code(m, f)) : e[2] <= e[1]}
  IN  back \cup (IF back = {} \/ form.fullfunc THEN {<<Max(blocks), Min(blocks)>>} ELSE {})

\* The loops of a function that a search must find.
Loops(m, f) == {p \in Walks(m, f) : <<Last(p), p[1]>> \in Closing(m, f)}
BlocksAt(g, places) == {<<g[1], g[2], k>> : k \in places}

\* A search without limits stores every loop of the functions it was given and
\* nothing else, up to the order of the blocks, each of them once, although
\* it is repeated, or was killed before (search: Search::next, find_by_hash).
PathsExact ==
  /\ \A g \in history.searched : g[1] \in Complete =>
       {Range(p) : p \in {p \in Range(db.path) : p # <<>> /\ FuncOf(p[1]) = g}} =
       {BlocksAt(g, Range(p)) : p \in Loops(g[1], g[2])}
  /\ \A k, l \in DOMAIN db.path : db.path[k] # <<>> /\ Range(db.path[k]) = Range(db.path[l]) => k = l
-----------------------------------------------------------------------------
(* What holds between the statements of a disasm, for the proofs.          *)

Columns == {"tables", "map", "sample", "module", "func", "block", "inst", "edge",
            "inst_annot", "block_annot", "func_annot", "module_annot", "path"}
Commands == {"none", "sample", "disasm", "count", "annotate", "search"}

Disassembling(s) ==
  \/ \E m \in Modules : s = <<"module", m>>
  \/ \E m \in Modules : \E f \in Functions(m) : s = <<"func", m, f>> \/ s = <<"edges", m, f>>
  \/ \E m \in Modules : \E f \in Functions(m) : \E k \in DOMAIN Graph(m, f) :
       s = <<"block", m, f, k>> \/ s = <<"insts", m, f, k>>
Counting(s) ==
  \/ s[1] \in {"pre", "count_insts", "count_blocks", "count_funcs", "count_modules"}
  \/ s[1] = "clear" /\ s[2] \in {"block_annot", "func_annot", "module_annot"}
Scoring(s) == s[1] \in {"score_blocks", "norm_blocks", "score_funcs", "score_modules"}
Storing(s) == s[1] \in {"path", "path_node", "end"}

\* Every command executes its own statements.
OfCommand(s) ==
  CASE command = "disasm"   -> Disassembling(s)
    [] command = "count"    -> Counting(s)
    [] command = "annotate" -> Scoring(s)
    [] command = "search"   -> Storing(s)
    [] OTHER                -> FALSE
Mapped == db.map \in Seq(Range(db.map))
Searching == search.paths \in Seq(Range(search.paths)) /\ "paths" \in DOMAIN search
Listed == todo \in Seq(Range(todo)) /\ \A s \in Range(todo) : OfCommand(s)
Typed ==
  /\ \E user \in Users : objects = user.objects
  /\ db = [t \in Columns |-> db[t]]
  /\ command \in Commands /\ "partial" \in DOMAIN history
  /\ Mapped /\ Searching /\ Listed

\* The statements that will store a block, its instructions, and the edges.
StoresBlock(s, m, f, k) ==
  \/ s = <<"func", m, f>>
  \/ \E j \in DOMAIN Graph(m, f) : \/ j <= k /\ s = <<"block", m, f, j>>
                                   \/ j < k /\ s = <<"insts", m, f, j>>
StoresInsts(s, m, f, k) ==
  \/ s = <<"func", m, f>>
  \/ \E j \in DOMAIN Graph(m, f) : j <= k /\ s \in {<<"block", m, f, j>>, <<"insts", m, f, j>>}
StoresEdges(s, m, f) ==
  \/ s \in {<<"func", m, f>>, <<"edges", m, f>>}
  \/ \E j \in DOMAIN Graph(m, f) : s \in {<<"block", m, f, j>>, <<"insts", m, f, j>>}

\* What a module that was not left in the middle lacks, is still to be stored.
Saving ==
  \A m \in db.module \ history.partial : \A f \in Functions(m) :
    /\ \A k \in DOMAIN Graph(m, f) :
         /\ <<m, f, k>> \in db.block \/ \E s \in Range(todo) : StoresBlock(s, m, f, k)
         /\ InstsOf(m, f, k) \subseteq db.inst \/ \E s \in Range(todo) : StoresInsts(s, m, f, k)
    /\ get_edges(m, f) \subseteq db.edge \/ \E s \in Range(todo) : StoresEdges(s, m, f)

\* Nothing is stored but what is in a module.
Sound ==
  /\ db.module \subseteq Modules
  /\ \A b \in db.block : \E m \in Modules : \E f \in Functions(m) : \E k \in DOMAIN Graph(m, f) : b = <<m, f, k>>
  /\ \A i \in db.inst : \E m \in Modules : \E f \in Functions(m) : \E k \in DOMAIN Graph(m, f) : i \in InstsOf(m, f, k)

\* A module is finished before the next one is begun.
OneByOne ==
  command = "disasm" => \A i \in DOMAIN todo : \A j \in DOMAIN todo :
    i < j /\ todo[j][1] # "module" => todo[i][1] # "module" /\ todo[i][2] = todo[j][2]

DisasmInv == Typed /\ Saving /\ Sound /\ OneByOne
-----------------------------------------------------------------------------
(* What holds of the tables and of a search, for the proofs.               *)

\* A function in the tables is of a module there, and so is what a disasm still
\* has to store, but for the modules it has not begun.
Linked ==
  /\ \A g \in db.func : \E m \in db.module : \E f \in Functions(m) : g = <<m, f>>
  /\ \A e \in db.edge : \E m \in Modules : \E f \in Functions(m) : e \in get_edges(m, f)
  /\ command = "disasm" => \A s \in Range(todo) : s[1] = "module" \/ s[2] \in db.module

\* Counts and scores are no less than zero, and only blocks with instructions have them.
Rated ==
  /\ db.sample \in Seq(Range(db.sample))
  /\ IsFiniteSet(db.inst) /\ IsFiniteSet(db.inst_annot)
  /\ \A row \in db.inst_annot : row.inst \in db.inst /\ row.count \in Nat
  /\ \A b \in DOMAIN db.block_annot :
       db.block_annot[b] \in [count : Nat, score : Nat] /\ \E i \in db.inst : i.block = b

\* Nodes that are a loop; nothing is known of those of a part of a module.
Looping(nodes) ==
  /\ nodes # <<>> /\ nodes \in Seq(Range(nodes))
  /\ LET g == FuncOf(nodes[1])
     IN  g[1] \in history.partial \/ \E p \in Loops(g[1], g[2]) : Range(nodes) = BlocksAt(g, Range(p))

\* A path of the queue goes from a block that a back edge leads to, on the way
\* to where that comes from.
NodesOf(g, p) == [k \in DOMAIN p |-> <<g[1], g[2], p[k]>>]
Walking(path) ==
  /\ {"target", "nodes", "score"} \subseteq DOMAIN path
  /\ path.nodes # <<>> /\ path.nodes \in Seq(Range(path.nodes))
  /\ LET g == FuncOf(path.nodes[1])
     IN  /\ g \in search.funcs
         /\ \/ g[1] \in history.partial
            \/ \E p \in Walks(g[1], g[2]) : \E e \in Closing(g[1], g[2]) :
                 path.nodes = NodesOf(g, p) /\ p[1] = e[2] /\ path.target = <<g[1], g[2], e[1]>>

\* A loop is found, or the first part of it is in the queue.
Within(g, p) ==
  \/ \E nodes \in Range(search.paths) : Range(nodes) = BlocksAt(g, Range(p))
  \/ \E path \in search.queue : \E k \in 1 .. Len(p) :
       path.nodes = NodesOf(g, SubSeq(p, 1, k)) /\ path.target = <<g[1], g[2], Last(p)>>
Seeking ==
  /\ {"funcs", "queue", "paths"} \subseteq DOMAIN search
  /\ command # "search" => search = NoSearch
  /\ search.funcs \subseteq db.func
  /\ \A path \in search.queue : Walking(path)
  /\ \A nodes \in Range(search.paths) : Looping(nodes)
  /\ Unlimited => \A g \in search.funcs :
       g[1] \in history.partial \/ \A p \in Loops(g[1], g[2]) : Within(g, p)

\* What was found is stored or will be; only after its row come its nodes.
Writing ==
  command = "search" /\ todo # <<>> =>
    /\ Unlimited => search.queue = {}
    /\ \A nodes \in Range(search.paths) :
         find_by_hash(nodes) \/ <<"path", nodes>> \in Range(todo) \/ <<"path_node", nodes>> \in Range(todo)
    /\ \A s \in Range(todo) : s[1] = "end" \/ Looping(s[2])
    /\ \A i \in DOMAIN todo :
         /\ todo[i][1] = "end" => i = Len(todo)
         /\ todo[i][1] = "path_node" =>
              i = 1 /\ db.path # <<>> /\ Last(db.path) = <<>> /\ ~find_by_hash(todo[1][2])

\* The paths in the table.
PathsStored ==
  /\ db.path \in Seq(Range(db.path)) /\ "searched" \in DOMAIN history
  /\ \A p \in Range(db.path) : p = <<>> \/ Looping(p)
  /\ \A k \in DOMAIN db.path : \A l \in DOMAIN db.path :
       db.path[k] # <<>> /\ Range(db.path[k]) = Range(db.path[l]) => k = l
  /\ \A g \in history.searched :
       /\ g \in db.func
       /\ g[1] \in history.partial \/
            \A p \in Loops(g[1], g[2]) : \E q \in Range(db.path) : Range(q) = BlocksAt(g, Range(p))

PathsInv == DisasmInv /\ Linked /\ Rated /\ Seeking /\ Writing /\ PathsStored
-----------------------------------------------------------------------------
(* What holds of a count, for the proofs.                                  *)

\* The rows of the map table are mappings of the processes that were sampled, each
\* of them once until a process is sampled twice.
Located ==
  /\ "reused" \in DOMAIN history /\ "counted" \in DOMAIN history
  /\ \A r \in Range(db.map) : \E pid \in Pids : r \in Range(insert_maps(pid))
  /\ ~history.reused => \A k \in DOMAIN db.map : \A l \in DOMAIN db.map : db.map[k] = db.map[l] => k = l
  /\ command = "sample" => sampled \in Pids /\ Range(insert_maps(sampled)) \subseteq Range(db.map)

\* A sample is of an instruction of a module, where the process has it.
DrawnFrom(s) ==
  \E pid \in Pids : \E m \in MappedIn(pid) : \E f \in Functions(m) : \E i \in Reached(Code(m, f)) :
    /\ s = [pid |-> pid, ip |-> Loaded(pid, m, Code(m, f)[i].addr), at |-> <<m, f, Code(m, f)[i].addr>>]
    /\ Range(insert_maps(pid)) \subseteq Range(db.map)
Drawn == \A s \in Range(db.sample) : DrawnFrom(s)

\* The rows of functions have a count and are of functions that there are; those of
\* modules have one, too.
Recounted ==
  /\ \A g \in DOMAIN db.func_annot :
       /\ "count" \in DOMAIN db.func_annot[g] /\ db.func_annot[g].count \in Nat
       /\ \E m \in Modules : \E f \in Functions(m) : g = <<m, f>>
  /\ \A m \in DOMAIN db.module_annot : "count" \in DOMAIN db.module_annot[m]

\* The samples of a module, a function and a block.
InModule(m) == {s \in DOMAIN db.sample : db.sample[s].at[1] = m}
InFunction(g) == {s \in DOMAIN db.sample : FuncOf(db.sample[s].at) = g}
InBlockOf(b) ==
  {s \in InFunction(FuncOf(b)) : [block |-> b, addr |-> db.sample[s].at[3]] \in db.inst}

\* The modules whose counts are known, and what their rows then are.
Stored == IF history.reused THEN {} ELSE {m \in db.module \ history.partial : Legible(m)}
BlocksExact ==
  \A m \in Stored : \A f \in Functions(m) : \A k \in DOMAIN Graph(m, f) :
    annot(db.block_annot, <<m, f, k>>).count = Cardinality(InBlockOf(<<m, f, k>>))
FuncsExact ==
  \A m \in Stored : \A f \in Functions(m) :
    annot(db.func_annot, <<m, f>>).count = Cardinality(InFunction(<<m, f>>))
ModulesExact ==
  \A m \in Stored : annot(db.module_annot, m).count = Cardinality(InModule(m))

\* The statements of a count are executed in this order.
Turn(s) ==
  CASE s[1] = "pre"           -> 1
    [] s[1] = "count_insts"   -> 2
    [] s[1] = "clear"         -> IF s[2] = "block_annot" THEN 3 ELSE IF s[2] = "func_annot" THEN 5 ELSE 7
    [] s[1] = "count_blocks"  -> 4
    [] s[1] = "count_funcs"   -> 6
    [] s[1] = "count_modules" -> 8
    [] OTHER                  -> 9
InTurn ==
  /\ \A i \in DOMAIN todo : \A j \in DOMAIN todo :
       i < j => Turn(todo[i]) <= Turn(todo[j]) /\ Turn(todo[i]) < 8
  /\ \A s \in Range(todo) :
       /\ Turn(s) < 4 => <<"count_blocks">> \in Range(todo)
       /\ Turn(s) < 6 => <<"count_funcs">> \in Range(todo)
  /\ <<"pre">> \in Range(todo) => \A m \in db.module : <<"count_insts", m>> \in Range(todo)

\* The statements that are alone in a count have no arguments.
Spelled(s) == s[1] \in {"pre", "count_blocks", "count_funcs", "count_modules"} => s = << s[1] >>

\* Between the statements of a count: the rows of the instructions are those of the
\* modules that were counted, and then the tables of blocks and functions follow.
Progress ==
  command = "count" /\ <<"count_modules">> \in Range(todo) =>
    /\ InTurn /\ ~history.counted
    /\ <<"pre">> \notin Range(todo) =>
         /\ \A row \in db.inst_annot : row \in count_insts(row.module)
         /\ \A m \in db.module : <<"count_insts", m>> \in Range(todo) \/ count_insts(m) \subseteq db.inst_annot
    /\ <<"count_blocks">> \notin Range(todo) => BlocksExact
    /\ <<"count_funcs">> \notin Range(todo) => FuncsExact

\* After a count, until a sample or a disasm.
Finished ==
  /\ command = "count" => \A s \in Range(todo) : Spelled(s)
  /\ history.counted =>
       /\ command \notin {"sample", "disasm"} /\ (command = "count" => todo = <<>>)
       /\ BlocksExact /\ FuncsExact /\ ModulesExact

CountsInv == PathsInv /\ Located /\ Drawn /\ Recounted /\ Progress /\ Finished
=============================================================================
