----------------------------- MODULE AccessLog -----------------------------
(***************************************************************************)
(* The two binary logs of a traced run: trace.bin (-access-trace), written *)
(* through TraceBuffer (trace/buffer.cpp) and read by chop-detrace         *)
(* (tools/detrace.c), and memory_trace.bin (-memory-access-trace), written *)
(* through MemBuffer (trace/membuffer.cpp) and read by chop-detrace-mem    *)
(* (tools/detrace-mem.c).  Both buffers live in the traced process: they   *)
(* reach the file when they are full, when the last trace is stopped, or   *)
(* in the destructors of a program that exits.  The tracer (Tracer) ends a *)
(* program it is done with by SIGKILL.                                     *)
(***************************************************************************)
EXTENDS Integers, SequencesExt

CONSTANTS
  BufSize,    \* TraceBuffer::buf_size
  MemBufSize, \* records that fit in a MemBuffer
  MaxTraces,  \* -max-traces
  Indexed,    \* -indices: the tracer may be done before the limit
  Page, Pc,   \* pages and instructions of the program
  CodePages,  \* those of Page in an executable region
  Stores,     \* those of Pc that write
  Budget      \* bound: faults and traces

ASSUME SizeAssumption == BufSize \in Nat \ {0} /\ MemBufSize \in Nat \ {0}
ASSUME LimitAssumption == MaxTraces \in Nat /\ Budget \in Nat /\ Indexed \in BOOLEAN
ASSUME PageAssumption == Page \subseteq Nat /\ CodePages \subseteq Page /\ Stores \subseteq Pc

VARIABLES
  buf, file,   \* TraceBuffer and trace.bin
  mbuf, mfile, \* MemBuffer and memory_trace.bin, sequences of records
  traceId, tracing,
  ended,       \* "no", "exit" (destructors run) or "killed"
  emitted,     \* all that was ever written to TraceBuffer
  memitted,    \* every fault that was reported to MemBuffer
  listing,     \* what the user is to see of the run
  budget

log  == <<buf, file, emitted>>
mlog == <<mbuf, mfile, memitted>>
vars == <<log, mlog, traceId, tracing, ended, listing, budget>>

Invocation == -3
Begin == -1
End   == -2

Init ==
  /\ buf = <<>> /\ file = <<>> /\ mbuf = <<>> /\ mfile = <<>>
  /\ traceId = 0 /\ tracing = FALSE /\ ended = "no"
  /\ emitted = <<>> /\ memitted = <<>> /\ listing = <<>>
  /\ budget = Budget
-----------------------------------------------------------------------------
(* TraceBuffer.                                                            *)

\* TraceBuffer::write for several words: one after the other, the buffer goes
\* to the file before the word that does not fit.
Put(b, word) ==
  IF Len(b.buf) = BufSize THEN [buf |-> <<word>>, file |-> b.file \o b.buf]
  ELSE [b EXCEPT !.buf = Append(@, word)]

\* stop_trace flushes once the limit is reached, with no limit every time.
FlushAfter(id) == id > MaxTraces  \* mutant: off by one
FlushAt(id) == id >= MaxTraces

Write(words, flush) ==
  LET after == FoldLeft(Put, [buf |-> buf, file |-> file], words)
  IN  /\ buf' = IF flush THEN <<>> ELSE after.buf
      /\ file' = IF flush THEN after.file \o after.buf ELSE after.file
      /\ emitted' = emitted \o words

\* MemBuffer::write: a write right after the read of the same instruction and
\* address takes its place in the buffer.
Record(pc, p, kind) == [pc |-> pc, page |-> p, kind |-> kind, code |-> p \in CodePages]
Merges(r) == mbuf # <<>> /\ r.kind = "write" /\ Last(mbuf) = [r EXCEPT !.kind = "read"]

NoteLate(r) ==  \* mutant: the record is lost that does not fit
  IF Len(mbuf) = MemBufSize
    THEN mbuf' = <<>> /\ mfile' = mfile \o mbuf
    ELSE mbuf' = Append(mbuf, r) /\ UNCHANGED mfile
Note(r) ==
  IF Merges(r)
    THEN mbuf' = Append(Front(mbuf), r) /\ UNCHANGED mfile
    ELSE IF Len(mbuf) = MemBufSize
           THEN mbuf' = <<r>> /\ mfile' = mfile \o mbuf
           ELSE mbuf' = Append(mbuf, r) /\ UNCHANGED mfile
-----------------------------------------------------------------------------
(* The library.                                                            *)

Spend == budget > 0 /\ budget' = budget - 1

StartTrace(isNewInvocation) ==
  /\ ended = "no" /\ ~tracing
  /\ MaxTraces > 0 => traceId < MaxTraces
  /\ Spend
  /\ Write(IF isNewInvocation THEN <<Invocation, Begin>> ELSE <<Begin>>, FALSE)
  /\ tracing' = TRUE
  /\ listing' = Append(listing, [trace |-> traceId, page |-> Begin])
  /\ UNCHANGED <<mlog, traceId, ended>>

\* record_segv: the first fault of an access, taken for a read of data or for a
\* write of code (save_code_read is never called) ...
FirstKind(p) == IF p \in CodePages THEN "write" ELSE "read"
ReadFault(pc, p) ==
  /\ ended = "no" /\ tracing
  /\ Spend
  /\ Write(<<p>>, FALSE)
  /\ Note(Record(pc, p, FirstKind(p)))
  /\ memitted' = Append(memitted, [pc |-> pc, page |-> p, again |-> FALSE])
  /\ listing' = Append(listing, [trace |-> traceId, page |-> p])
  /\ UNCHANGED <<traceId, tracing, ended>>

\* ... and the second fault of a store, when it is tried again with its page
\* readable; it is not in trace.bin.
WriteFault ==
  /\ ended = "no" /\ tracing /\ Last(listing).page # Begin
  /\ ~Last(memitted).again /\ Last(memitted).pc \in Stores
  /\ Note(Record(Last(memitted).pc, Last(memitted).page, "write"))
  /\ memitted' = Append(memitted, [Last(memitted) EXCEPT !.again = TRUE])
  /\ UNCHANGED <<log, traceId, tracing, ended, listing, budget>>

StopTrace ==
  /\ ended = "no" /\ tracing
  /\ Write(<<End>>, FlushAt(traceId + 1))
  /\ traceId' = traceId + 1 /\ tracing' = FALSE
  /\ UNCHANGED <<mlog, ended, listing, budget>>

\* The program exits: the destructors write the buffers back.
Exit ==
  /\ ended = "no" /\ ended' = "exit"
  /\ file' = file \o buf /\ buf' = <<>>
  /\ mfile' = mfile \o mbuf /\ mbuf' = <<>>
  /\ UNCHANGED <<emitted, memitted, traceId, tracing, listing, budget>>

\* The tracer is done: Tracer::start sends SIGKILL.
Kill ==
  /\ ended = "no" /\ ~tracing
  /\ (MaxTraces > 0 /\ traceId >= MaxTraces) \/ Indexed
  /\ ended' = "killed"
  /\ UNCHANGED <<log, mlog, traceId, tracing, listing, budget>>

Finished == ended # "no" /\ UNCHANGED vars

Next ==
  \/ \E new \in BOOLEAN : StartTrace(new)
  \/ \E pc \in Pc, p \in Page : ReadFault(pc, p)
  \/ WriteFault \/ StopTrace \/ Exit \/ Kill \/ Finished

Spec == Init /\ [][Next]_vars
-----------------------------------------------------------------------------
(* chop-detrace: the lines it prints, with the number of the trace.        *)

PrintedEarly(out, word) ==  \* mutant: counts the traces at their begin
  IF word = Begin THEN [id |-> out.id + 1,
                        lines |-> Append(out.lines, [trace |-> out.id + 1, page |-> Begin])]
  ELSE IF word = End THEN out
  ELSE [out EXCEPT !.lines = Append(@, [trace |-> out.id, page |-> word])]
Printed(out, word) ==
  IF word = End THEN [out EXCEPT !.id = @ + 1]
  ELSE [out EXCEPT !.lines = Append(@, [trace |-> out.id, page |-> word])]
Reading(words) == FoldLeft(Printed, [id |-> 0, lines |-> <<>>], words)
Detrace(words) == Reading(words).lines

\* chop-detrace-mem: the line of a record.  MemBuffer::start_trace and stop_trace
\* are never called: its cases -1 and -2 do not occur.
MemLine(r) == [space |-> IF r.code THEN "I" ELSE "D",
               kind |-> IF r.kind = "read" THEN "R" ELSE "W", pc |-> r.pc, page |-> r.page]
-----------------------------------------------------------------------------
(* Properties.                                                             *)

\* However the run ends once the tracer is done, trace.bin is complete.
NothingLost ==
  ended # "no" => file = emitted

\* When the program exits, chop-detrace-mem lists every load and every store
\* that faulted, in order, wherever a buffer ended: data is read by the first fault
\* and written by the second, code is written by both; the line of the read
\* that a store is first taken for may be missing.
LineOfFault(f) ==
  [space |-> IF f.page \in CodePages THEN "I" ELSE "D",
   kind |-> IF f.again \/ f.page \in CodePages THEN "W" ELSE "R", pc |-> f.pc, page |-> f.page]
WithAccess(seq, l) == IF l.pc \in Stores => l.kind = "W" THEN Append(seq, l) ELSE seq
Accesses(lines) == FoldLeft(WithAccess, <<>>, lines)
MemLines(records) == [i \in DOMAIN records |-> MemLine(records[i])]
LinesOfFaults(faults) == [i \in DOMAIN faults |-> LineOfFault(faults[i])]
NoAccessLost ==
  ended = "exit" => Accesses(MemLines(mfile)) = Accesses(LinesOfFaults(memitted))

\* chop-detrace attributes every page of a run to the trace it was accessed in.
WithPage(seq, l) == IF l.page # Invocation THEN Append(seq, l) ELSE seq
Pages(lines) == FoldLeft(WithPage, <<>>, lines)
PagesAttributed ==
  ended = "exit" => Pages(Detrace(file)) = listing
-----------------------------------------------------------------------------
(* The inductive invariant, which TLC checks and AccessLogProof proves.    *)

Word      == Page \cup {Invocation, Begin, End}
MemRecord == [pc : Pc, page : Page, kind : {"read", "write"}, code : BOOLEAN]
Fault     == [pc : Pc, page : Page, again : BOOLEAN]
TraceLine == [trace : Nat, page : Word]
TypeOK ==
  /\ buf \in Seq(Word) /\ file \in Seq(Word) /\ emitted \in Seq(Word)
  /\ mbuf \in Seq(MemRecord) /\ mfile \in Seq(MemRecord) /\ memitted \in Seq(Fault)
  /\ Len(buf) <= BufSize /\ Len(mbuf) <= MemBufSize
  /\ traceId \in Nat /\ tracing \in BOOLEAN /\ ended \in {"no", "exit", "killed"}
  /\ listing \in Seq([trace : Nat, page : Page \cup {Begin}]) /\ budget \in Nat

\* What was written is in the file or in the buffer, which is empty at the limit
\* and after an exit.
WrittenBack ==
  /\ file \o buf = emitted
  /\ ended = "exit" => buf = <<>> /\ mbuf = <<>>
  /\ ended = "killed" => ~tracing /\ (~Indexed => traceId >= MaxTraces)
  /\ ~tracing /\ traceId >= MaxTraces => buf = <<>>

\* chop-detrace keeps pace with the library.
Attributed ==
  /\ Reading(emitted).id = traceId
  /\ Pages(Reading(emitted).lines) = listing

\* A merged record has taken the place of one whose line is left out: that of a
\* store, never that of code, whose records are writes.
Recorded ==
  /\ Accesses(MemLines(mfile \o mbuf)) = Accesses(LinesOfFaults(memitted))
  /\ mbuf # <<>> /\ Last(mbuf).code => Last(mbuf).kind = "write"
  /\ tracing => listing # <<>>
  /\ listing # <<>> /\ Last(listing).page \in Page => memitted # <<>>

IInv == TypeOK /\ WrittenBack /\ Attributed /\ Recorded
=============================================================================
