------------------------------ MODULE CsTrace ------------------------------
(***************************************************************************)
(* The valgrind tool behind chop-trace-mem (tools/valgrind/chopstix).      *)
(*                                                                         *)
(* It works at two times.  When valgrind translates a block of code,       *)
(* cs_instrument walks over its statements, collects the memory accesses   *)
(* in a queue of N_EVENTS entries and puts calls of helpers into the block *)
(* whenever the queue is flushed; when the block runs, the helpers decide  *)
(* by the address of the access whether to trace and print it.  The        *)
(* program is any sequence of blocks; the statements and their outcomes    *)
(* (guards, exits) are chosen while a block is instrumented.               *)
(***************************************************************************)
EXTENDS Naturals, Sequences

CONSTANTS
  Begins, Ends,  \* breakpoint_begin, breakpoint_end: they may have a common address
  Others,        \* addresses of instructions without a mark
  Data,          \* addresses of loads; a program may read its own code
  Stored,        \* those of Data that the other accesses use
  Indices,       \* the list given with -indices
  MaxTraces,     \* -max-traces
  NoLimit,       \* -max-traces is not given
  N_EVENTS,      \* entries of events[] (4 in the code)
  MaxBlock,      \* bound: statements of a block
  Budget         \* bound: statements of the program

Marks == Begins \cup Ends
Code == Marks \cup Others

ASSUME CodeAssumption == Others \cap Marks = {} /\ Stored \subseteq Data
ASSUME NatAssumption == N_EVENTS \in Nat \ {0} /\ MaxBlock \in Nat /\ Budget \in Nat /\ Indices \in Seq(Nat)
ASSUME LimitAssumption == MaxTraces \in Nat \/ MaxTraces = NoLimit

VARIABLES
  loc,       \* "translate", "run", "stopped" (VG_(exit)) or "panic" (tl_assert)
  events,    \* events[0 .. events_used - 1]
  out,       \* the translated block: statements and calls of the helpers
  enabled, num_traces, cindice,
  begun,     \* "# Begin trace index" lines
  due,       \* history: accesses of the region the program has attempted and the
             \* tool has not printed yet, in program order
  early,     \* history: lines printed that are not the next access due
  region,    \* history: whether it is in an execution of the region to trace
  executions,\* history: executions of the region that have begun
  strayed,   \* history: code with an access to data at a mark was translated
  budget

tool    == <<enabled, num_traces, cindice, begun>>
history == <<due, early, region, executions, strayed>>
vars == <<loc, events, out, budget, tool, history>>

Init ==
  /\ loc = "translate" /\ events = <<>> /\ out = <<>>
  /\ enabled = FALSE /\ num_traces = 0 /\ cindice = 0
  /\ begun = {} /\ due = <<>> /\ early = <<>> /\ region = FALSE /\ executions = 0
  /\ strayed = FALSE
  /\ budget = Budget
-----------------------------------------------------------------------------
(* Translation: cs_instrument.                                             *)

\* IMark; WrTmp of a Load or a Dirty that reads; Store or a Dirty that writes;
\* a CAS or a Dirty that modifies; LoadG, StoreG, LL, SC and Exit.  The
\* statements without accesses change nothing.  `on' is whether the access will
\* be made: the value of the guard, of a Dirty's too, and whether a CAS or an SC
\* will store; or whether the exit will be taken.
Guarded == {"loadG", "storeG"}
Statement ==
  [tag : {"mark"}, addr : Code, on : {TRUE}] \cup
  [tag : {"load"}, addr : Data, on : BOOLEAN] \cup
  [tag : {"ll"}, addr : Stored, on : {TRUE}] \cup
  [tag : Guarded \cup {"store", "modify", "sc"}, addr : Stored, on : BOOLEAN] \cup
  [tag : {"exit"}, addr : {CHOOSE a \in Code : TRUE}, on : BOOLEAN]

\* Only the guards of LoadG and StoreG are given to the calls of the helpers.
Reported(s) == s.tag \in Guarded => s.on
Event(kind, s) == [kind |-> kind, addr |-> s.addr, on |-> Reported(s), guarded |-> s.tag \in Guarded]
Last(seq) == seq[Len(seq)]

\* flushEvents: a call per event, in order.
HelperCall(e) == [tag |-> "call", kind |-> e.kind, addr |-> e.addr, on |-> e.on]
Calls(queue) == [i \in DOMAIN queue |-> HelperCall(queue[i])]

\* addEvent_Ir and the others: a full queue is flushed first.  `q' is the
\* queue and the block so far.
Flush(q) == [events |-> <<>>, out |-> q.out \o Calls(q.events)]
Add(q, e) ==
  LET r == IF Len(q.events) = N_EVENTS THEN Flush(q) ELSE q
  IN  [r EXCEPT !.events = Append(@, e)]

\* addEvent_Dw: a write to the address of the read just before becomes one
\* modification.
MergesAny(q, s) ==  \* mutant: the guard of the read is not looked at
  /\ q.events # <<>>
  /\ Last(q.events).kind = "read" /\ Last(q.events).addr = s.addr
Merges(q, s) ==
  /\ q.events # <<>>
  /\ Last(q.events).kind = "read" /\ Last(q.events).addr = s.addr
  /\ ~Last(q.events).guarded
AddWrite(q, s) ==
  IF Merges(q, s)
    THEN [q EXCEPT !.events[Len(q.events)].kind = "modify"]
    ELSE Add(q, Event("write", s))

\* The events of a statement, before the statement itself.
EventsOf(q, s) ==
  CASE s.tag = "mark"                      -> Add(q, Event("instr", s))
    [] s.tag \in {"load", "loadG", "ll"}   -> Add(q, Event("read", s))
    [] s.tag = "storeG"                    -> Add(q, Event("write", s))
    [] s.tag \in {"store", "sc"}           -> AddWrite(q, s)
    [] s.tag = "modify"                    -> AddWrite(Add(q, Event("read", s)), s)
    [] s.tag = "exit"                      -> Flush(q)
FlushAfter(q, s) == IF s.tag = "ll" THEN Flush(q) ELSE q

\* A load-linked is flushed before the statement, as its event is.
Translate(q, s) ==
  LET r == FlushAfter(EventsOf(q, s), s)
  IN  [r EXCEPT !.out = Append(@, s)]

Strays(s) == s.tag \notin {"mark", "exit"} /\ s.addr \in Marks

Statements == Len(SelectSeq(out, LAMBDA s : s.tag # "call"))
Instrument(s) ==
  /\ loc = "translate" /\ budget > 0 /\ Statements < MaxBlock
  /\ budget' = budget - 1
  /\ LET q == Translate([events |-> events, out |-> out], s)
     IN  events' = q.events /\ out' = q.out
  /\ strayed' = (strayed \/ Strays(s))
  /\ UNCHANGED <<loc, tool, due, early, region, executions>>

\* At the end of the block the rest is flushed.
EndBlock ==
  /\ loc = "translate" /\ out # <<>>
  /\ LET q == Flush([events |-> events, out |-> out])
     IN  events' = q.events /\ out' = q.out
  /\ loc' = "run"
  /\ UNCHANGED <<budget, tool, history>>
-----------------------------------------------------------------------------
(* Execution: trace_enabled and the helpers.                               *)

in_list(n) == \E i \in DOMAIN Indices : Indices[i] = n
Listed(n) == Indices = <<>> \/ in_list(n)

\* VG_(exit): the traces asked for have been made.
StopsAt(addr) ==
  /\ addr \in Ends
  /\ \/ enabled /\ MaxTraces # NoLimit /\ num_traces >= MaxTraces
     \/ Indices # <<>> /\ num_traces >= Len(Indices)

\* tl_assert(enabled == 0): the region is entered again inside itself.
Panics(addr) == addr \in Begins \ Ends /\ enabled

CountListed == IF enabled' THEN cindice + 1 ELSE cindice  \* mutant: traced executions only
CountAll == cindice + 1
trace_enabled(addr) ==
  /\ enabled' = CASE addr \in Begins -> Listed(cindice)
                  [] addr \in Ends \ Begins -> FALSE
                  [] OTHER -> enabled
  /\ IF addr \in Begins
       THEN /\ cindice' = CountAll
            /\ num_traces' = IF enabled' THEN num_traces + 1 ELSE num_traces
            /\ begun' = IF enabled' THEN begun \cup {cindice} ELSE begun
       ELSE UNCHANGED <<cindice, num_traces, begun>>

\* trace_instr, trace_load, trace_store and trace_modify (which prints "W").
Letter(kind) == CASE kind = "instr" -> "I" [] kind = "read" -> "R" [] OTHER -> "W"
Report(line) ==
  IF due # <<>> /\ Head(due).line = line
    THEN due' = Tail(due) /\ UNCHANGED early
    ELSE early' = Append(early, line) /\ UNCHANGED due

Call ==
  /\ loc = "run" /\ out # <<>> /\ Head(out).tag = "call"
  /\ LET c == Head(out)
     IN  IF ~c.on THEN out' = Tail(out) /\ UNCHANGED <<loc, tool, due, early>>
         ELSE IF StopsAt(c.addr) \/ Panics(c.addr)
           THEN /\ loc' = IF StopsAt(c.addr) THEN "stopped" ELSE "panic"
                /\ out' = <<>> /\ UNCHANGED <<tool, due, early>>
           ELSE /\ trace_enabled(c.addr)
                /\ IF enabled' THEN Report(<<Letter(c.kind), c.addr>>) ELSE UNCHANGED <<due, early>>
                /\ out' = Tail(out) /\ UNCHANGED loc
  /\ UNCHANGED <<events, budget, region, executions, strayed>>
-----------------------------------------------------------------------------
(* The program's own statements.  `due' gets what a reader of the trace    *)
(* expects of them: instructions, reads and writes of the executions to be *)
(* traced, a read and the write of the same place that follows it at once  *)
(* in the same block being one modification.  An access is expected if it  *)
(* is attempted: only a LoadG or StoreG whose guard is false is no attempt *)
(* (an SC or CAS that fails, or a Dirty's guard, is one).                  *)

Closed(seq) == IF seq = <<>> THEN seq ELSE [seq EXCEPT ![Len(seq)].open = FALSE]
Expect(line, open) ==
  IF early # <<>> /\ Head(early) = line
    THEN early' = Tail(early) /\ due' = Closed(due)
    ELSE due' = Append(Closed(due), [line |-> line, open |-> open]) /\ UNCHANGED early

Performs == loc = "run" /\ out # <<>> /\ out' = Tail(out)
Expecting(line, open) ==
  IF region THEN Expect(line, open) ELSE UNCHANGED <<due, early>>

Mark ==
  /\ Performs /\ Head(out).tag = "mark"
  /\ LET a == Head(out).addr
     IN  /\ region' = CASE a \in Begins -> Listed(executions)
                        [] a \in Ends \ Begins -> FALSE
                        [] OTHER -> region
         /\ executions' = IF a \in Begins THEN executions + 1 ELSE executions
         /\ IF region' THEN Expect(<<"I", a>>, FALSE)
                       ELSE due' = Closed(due) /\ UNCHANGED early
  /\ UNCHANGED <<loc, events, budget, tool, strayed>>

Read ==
  /\ Performs /\ Head(out).tag \in {"load", "loadG", "ll"}
  /\ LET s == Head(out)
     IN  IF Reported(s) THEN Expecting(<<"R", s.addr>>, s.tag = "load")
                 ELSE due' = Closed(due) /\ UNCHANGED early
  /\ UNCHANGED <<loc, events, budget, tool, region, executions, strayed>>

Write ==
  /\ Performs /\ Head(out).tag \in {"store", "storeG", "sc", "modify"}
  /\ LET s == Head(out)
     IN  IF ~Reported(s)
           THEN due' = Closed(due) /\ UNCHANGED early
         ELSE IF /\ s.tag \in {"store", "sc"} /\ due # <<>>
                 /\ Last(due).line = <<"R", s.addr>> /\ Last(due).open
           THEN due' = [due EXCEPT ![Len(due)] = [line |-> <<"W", s.addr>>, open |-> FALSE]]
                /\ UNCHANGED early
         ELSE Expecting(<<"W", s.addr>>, FALSE)
  /\ UNCHANGED <<loc, events, budget, tool, region, executions, strayed>>

\* A side exit that is taken leaves the block.
Exit ==
  /\ loc = "run" /\ out # <<>> /\ Head(out).tag = "exit"
  /\ out' = IF Head(out).on THEN <<>> ELSE Tail(out)
  /\ due' = Closed(due)
  /\ UNCHANGED <<loc, events, budget, tool, early, region, executions, strayed>>

BlockDone ==
  /\ loc = "run" /\ out = <<>>
  /\ loc' = "translate"
  /\ due' = Closed(due)
  /\ UNCHANGED <<events, out, budget, tool, early, region, executions, strayed>>

Terminated ==
  /\ loc \in {"stopped", "panic"} \/ (loc = "translate" /\ budget = 0)
  /\ UNCHANGED vars

Next ==
  \/ \E s \in Statement : Instrument(s)
  \/ EndBlock \/ Call \/ Mark \/ Read \/ Write \/ Exit \/ BlockDone \/ Terminated

Spec == Init /\ [][Next]_vars
-----------------------------------------------------------------------------
(* Properties.                                                             *)

\* Although accesses are reported in batches, through a queue that is flushed
\* at four occasions and merges pairs, the lines printed are at any moment the
\* accesses the traced executions have attempted, in program order: none too
\* early (but a load-linked, reported just before it runs), none of another
\* execution, and none left out once a block has been left, on whichever side.
\* It is so until code that accesses data at a begin or end address is
\* translated: trace_load, trace_store and trace_modify give the address of the
\* data to trace_enabled.
LogExact ==
  ~strayed =>
    /\ early = <<>> \/ /\ out # <<>> /\ Head(out).tag = "ll" /\ due = <<>>
                       /\ early = << <<"R", Head(out).addr>> >>
    /\ loc = "translate" /\ out = <<>> => due = <<>>

\* When a block has been left, the traces are those of the listed executions
\* among those the program has begun, as long as no data at a mark is accessed;
\* whatever the program accesses, they never exceed -max-traces (one is always
\* made).
ListedBegun == loc = "translate" /\ out = <<>> => begun = {n \in 0 .. executions - 1 : Listed(n)}
IndicesKept ==
  /\ ~strayed => ListedBegun
  /\ MaxTraces # NoLimit => num_traces <= IF MaxTraces = 0 THEN 1 ELSE MaxTraces
=============================================================================
