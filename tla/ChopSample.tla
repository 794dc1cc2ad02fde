----------------------------- MODULE ChopSample -----------------------------
(***************************************************************************)
(* `chop sample' (client/sample.cpp): the start, in which the program is   *)
(* created, stopped in its main module and put under a perf event; the     *)
(* main loop that polls the ring buffer, drains it and stores the samples; *)
(* the thread that waits for the program to end; the thread of -timeout.   *)
(* The main thread and the waiting thread share one Process object, whose  *)
(* pid_ and status_ no lock protects (core/process.cpp).                   *)
(***************************************************************************)
EXTENDS PerfRing

VARIABLES
  attached,  \* -pid: a running process is sampled, there is no waiting thread
  running,   \* the atomic that ends the main loop
  pid,       \* pid_: the program's or "none" (-1)
  status,    \* status_, as the WIF macros tell values apart
  at,        \* place of the main thread and of the waiting thread
  found,     \* what waitpid gave each of them
  timer,     \* the thread of -timeout, "wanted" before it starts
  child,     \* the sampled program
  exitkill,  \* it has PTRACE_O_EXITKILL
  rows       \* samples in the database

fixed       == <<attached, exitkill>>
processVars == <<pid, status, found, child>>
threadVars  == <<fixed, running, at, timer, rows>>
vars == <<kernelVars, readerVars, processVars, threadVars>>

Thread == {"main", "watcher"}
Dead == {"exited", "killed", "term"}
Stops == {"trapped", "stopped"}   \* by SIGTRAP in execvp, by another signal
In(w, place) == at[w] = place
Go(w, place) == at' = [at EXCEPT ![w] = place]

\* The process has returned from run_sample or has called exit(), "aborted"
\* when that was in the start.
Over == at["main"] \in {"done", "failed", "aborted"}

Init ==
  /\ RingInit
  /\ attached \in BOOLEAN
  /\ timer \in IF attached THEN {"wanted"} ELSE {"none", "wanted"}
  /\ at = [main |-> "setup", watcher |-> "none"]
  /\ running = TRUE /\ pid = "none" /\ status = "zero"
  /\ found = [w \in Thread |-> "none"]
  /\ child = (IF attached THEN "running" ELSE "none") /\ exitkill = FALSE
  /\ rows = <<>>
-----------------------------------------------------------------------------
(* The start.  A check that fails calls exit(): the kernel kills a stopped *)
(* program with the option and lets go any other.                          *)

Abort ==
  /\ Go("main", "aborted")
  /\ child' = IF child \in Stops \cup {"held"} THEN IF exitkill THEN "killed" ELSE "released"
              ELSE child
  /\ UNCHANGED <<fixed, running, timer, rows, pid, status, found, kernelVars, readerVars>>

Proceed(place) ==
  /\ Go("main", place)
  /\ UNCHANGED <<fixed, running, timer, rows, processVars, kernelVars, readerVars>>

\* The database, the events by name and the processor.
SetUp == In("main", "setup") /\ (Proceed("fork") \/ Abort)

\* copy() for -pid, else the first half of exec_wait().
Fork ==
  /\ In("main", "fork")
  /\ \/ /\ pid' = "child"
        /\ child' = IF attached THEN child ELSE "born"
        /\ Go("main", IF attached THEN "events" ELSE "options")
        /\ UNCHANGED <<fixed, running, timer, rows, status, found, kernelVars, readerVars>>
     \/ ~attached /\ Abort

\* Without a look at its result; it fails unless the program has stopped by now.
SetOptions ==
  /\ In("main", "options")
  /\ exitkill' = (child \in Stops)
  /\ Go("main", "early")
  /\ UNCHANGED <<attached, running, timer, rows, processVars, kernelVars, readerVars>>

\* waitpid(WNOHANG) at the end of exec_wait() takes what there is to take;
\* ready() begins with wait(0).
EarlyWait ==
  /\ In("main", "early")
  /\ status' = IF child \in Stops \cup Dead THEN child ELSE status
  /\ child' = IF child \in Stops THEN "held" ELSE IF child \in Dead THEN "reaped" ELSE child
  /\ Go("main", "waitpid")
  /\ UNCHANGED <<fixed, running, timer, rows, pid, found, kernelVars, readerVars>>

Ready ==
  /\ In("main", "check")
  /\ IF status = "trapped" THEN Proceed("steps") ELSE Abort

\* step_to_main_module: no such module in the map, and SIGKILL ...
NoModule ==
  /\ In("main", "steps") /\ status = "trapped"
  /\ child' = IF child = "held" THEN "killed" ELSE child
  /\ Go("main", "aborted")
  /\ UNCHANGED <<fixed, running, timer, rows, pid, status, found, kernelVars, readerVars>>

\* ... one step and its wait(0); signals of the program are dropped ...
Step ==
  /\ In("main", "steps") /\ child = "held"
  /\ \E how \in Dead \cup {"stopped"} :
       /\ status' = how
       /\ child' = IF how \in Dead THEN "reaped" ELSE "held"
       /\ pid' = IF how \in {"exited", "term"} THEN "none" ELSE pid
  /\ UNCHANGED <<threadVars, found, kernelVars, readerVars>>
StepFails == In("main", "steps") /\ status # "trapped" /\ child # "held" /\ Abort

\* ... until the pc is in the module. The pc of a dead program is not set:
\* it may be anything.
Reached ==
  /\ In("main", "steps") /\ (child = "held" \/ status # "trapped")
  /\ Proceed("session")

\* insert_session and insert_maps, with -pid after the events.
Insert ==
  /\ In("main", "session")
  /\ \/ ~attached /\ Proceed("events")
     \/ /\ attached /\ timer' = "asleep"
        /\ Go("main", "loop")
        /\ UNCHANGED <<fixed, running, rows, processVars, kernelVars, readerVars>>
     \/ Abort

\* setup_events: an event of a dead program cannot be opened, others may fail to;
\* a group that is open is enabled, and then its ring mapped, or not.
Openable == child \in {"running", "held"}
SetupEvents ==
  /\ In("main", "events")
  /\ Abort \/ (Openable /\ Proceed(IF attached THEN "session" ELSE "cont"))

\* cont() clears status_; then the threads start.
Cont ==
  /\ In("main", "cont")
  /\ IF child = "held"
       THEN /\ status' = "zero" /\ child' = "running"
            /\ at' = [main |-> "loop", watcher |-> "start"]
            /\ timer' = IF timer = "wanted" THEN "asleep" ELSE timer
            /\ UNCHANGED <<fixed, running, rows, pid, found, kernelVars, readerVars>>
       ELSE Abort

Start == SetUp \/ Fork \/ SetOptions \/ EarlyWait \/ Ready \/ NoModule \/ Step
         \/ StepFails \/ Reached \/ Insert \/ SetupEvents \/ Cont
-----------------------------------------------------------------------------
(* The main loop.                                                          *)

Loop ==
  /\ In("main", "loop")
  /\ Go("main", IF running THEN "poll" ELSE "stop")
  /\ UNCHANGED <<fixed, running, timer, rows, processVars, kernelVars, readerVars>>

\* poll(0) is true whether or not there are data, unless a signal interrupts it.
Poll ==
  /\ In("main", "poll")
  /\ Go("main", "drain") \/ Go("main", "loop")
  /\ UNCHANGED <<fixed, running, timer, rows, processVars, kernelVars, readerVars>>

Drain ==
  /\ In("main", "drain")
  /\ ReadStep
  /\ UNCHANGED <<processVars, threadVars>>

\* One transaction stores what one call of sample() returned.
Commit ==
  /\ In("main", "drain") /\ Drained
  /\ rows' = rows \o samples /\ samples' = <<>>
  /\ Go("main", "loop")
  /\ UNCHANGED <<fixed, running, timer, processVars, kernelVars,
                 tail, todo, copied, got, numLost>>

\* After the loop: abandon() or the test of active().
Stop ==
  /\ In("main", "stop")
  /\ pid' = IF attached THEN "none" ELSE pid
  /\ Go("main", IF ~attached /\ pid = "child" THEN "kill" ELSE "destroy")
  /\ UNCHANGED <<fixed, running, timer, rows, status, found, child,
                 kernelVars, readerVars>>

\* kill(pid_, SIGKILL): pid_ is read again and may be -1 by now, which is every
\* other process of the user; the program is dead then.
Kill ==
  /\ In("main", "kill")
  /\ child' = IF pid = "child" /\ child \in {"running", "held"} \cup Stops
                THEN "killed" ELSE child
  /\ Go("main", "destroy")
  /\ UNCHANGED <<fixed, running, timer, rows, pid, status, found,
                 kernelVars, readerVars>>

\* ~Process
Destroy ==
  /\ In("main", "destroy")
  /\ Go("main", IF pid = "child" THEN "waitpid" ELSE "done")
  /\ UNCHANGED <<fixed, running, timer, rows, processVars, kernelVars, readerVars>>
-----------------------------------------------------------------------------
(* Process::wait(0), by either thread. The kernel takes the child away     *)
(* from all waiters before the one that got it has its status.             *)

WatcherStarts ==
  /\ In("watcher", "start") /\ ~Over
  /\ Go("watcher", IF pid = "child" THEN "waitpid" ELSE "clear")
  /\ UNCHANGED <<fixed, running, timer, rows, processVars, kernelVars, readerVars>>

Waitpid(w) ==
  /\ In(w, "waitpid") /\ ~Over
  /\ \/ /\ child \in Dead \cup Stops
        /\ found' = [found EXCEPT ![w] = child]
        /\ child' = IF child \in Stops THEN "held" ELSE "reaped"
        /\ Go(w, "store")
     \/ /\ child = "reaped"                                       \* ECHILD
        /\ found' = [found EXCEPT ![w] = "error"]
        /\ Go(w, "exited") /\ UNCHANGED child
  /\ UNCHANGED <<fixed, running, timer, rows, pid, status, kernelVars, readerVars>>

StoreStatus(w) ==
  /\ In(w, "store") /\ ~Over
  /\ status' = found[w]
  /\ Go(w, "exited")
  /\ UNCHANGED <<fixed, running, timer, rows, pid, found, child,
                 kernelVars, readerVars>>

\* WIFEXITED is also true of the zero that cont() left.
ExitedOrStopped == status \in {"zero", "exited", "stopped"}      \* mutant
Exited == status \in {"zero", "exited"}

TestExited(w) ==
  /\ In(w, "exited") /\ ~Over
  /\ pid' = IF Exited THEN "none" ELSE pid
  /\ Go(w, "signaled")
  /\ UNCHANGED <<fixed, running, timer, rows, status, found, child,
                 kernelVars, readerVars>>

Signaled == status \in {"killed", "term"}
\* The main thread waits in ready(), while it is alone, and in ~Process.
AfterWait == IF running THEN "check" ELSE "done"
ReturnedSilently(w) == IF w = "main" THEN AfterWait ELSE "done"  \* mutant: running is not cleared
Returned(w) == IF w = "main" THEN AfterWait ELSE "clear"

\* Without a signal, checkx(pid != -1) ends the process whichever thread it is.
TestSignaled(w) ==
  /\ In(w, "signaled") /\ ~Over
  /\ pid' = IF status = "term" THEN "none" ELSE pid
  /\ IF ~Signaled /\ found[w] = "error" THEN Go("main", "failed") ELSE Go(w, Returned(w))
  /\ UNCHANGED <<fixed, running, timer, rows, status, found, child,
                 kernelVars, readerVars>>

Wait(w) == Waitpid(w) \/ StoreStatus(w) \/ TestExited(w) \/ TestSignaled(w)
-----------------------------------------------------------------------------
(* The other threads, and the program.                                     *)

WatcherEnds ==
  /\ In("watcher", "clear") /\ ~Over
  /\ running' = FALSE
  /\ Go("watcher", "done")
  /\ UNCHANGED <<fixed, timer, rows, processVars, kernelVars, readerVars>>

Timeout ==
  /\ timer = "asleep" /\ ~Over
  /\ timer' = "done" /\ running' = FALSE
  /\ UNCHANGED <<fixed, at, rows, processVars, kernelVars, readerVars>>

\* What there is to store before the ring is mapped goes nowhere.
Buffering == at["main"] \notin {"setup", "fork", "events"} /\ ~Over
Sampled ==
  /\ child = "running" /\ Buffering
  /\ \E type \in {"sample", "other"} : Store(type)
  /\ UNCHANGED <<processVars, threadVars>>

\* Until execvp the program is a copy of chop, which may fail there.
ChildExecs ==
  /\ child = "born" /\ ~Over
  /\ child' \in {"trapped"} \cup Dead
  /\ UNCHANGED <<pid, status, found, threadVars, kernelVars, readerVars>>

ChildEnds ==
  /\ ~Over
  /\ \/ child = "running" /\ child' \in Dead
     \/ child \in Stops \cup {"held"} /\ child' = "killed"
  /\ UNCHANGED <<pid, status, found, threadVars, kernelVars, readerVars>>

\* A signal for a traced program stops it until its tracer lets it go on.
ChildStops ==
  /\ child \in {"born", "running"} /\ ~attached /\ ~Over
  /\ child' = "stopped"
  /\ UNCHANGED <<pid, status, found, threadVars, kernelVars, readerVars>>

Finished == Over /\ UNCHANGED vars

MainStep == Start \/ Loop \/ Poll \/ Drain \/ Commit \/ Stop \/ Kill \/ Destroy
            \/ Wait("main")
WatcherStep == WatcherStarts \/ Wait("watcher") \/ WatcherEnds

Next == \/ MainStep \/ WatcherStep \/ Timeout
        \/ Sampled \/ ChildExecs \/ ChildEnds \/ ChildStops \/ Finished

Spec == Init /\ [][Next]_vars

\* The scheduler runs every thread that can run, the copy of chop until execvp
\* too, and time passes; some step of the program is its first in main.
FairSpec == Spec /\ WF_vars(MainStep) /\ WF_vars(WatcherStep) /\ WF_vars(Timeout)
                 /\ WF_vars(ChildExecs)
-----------------------------------------------------------------------------
(* Properties.                                                             *)

Status == {"zero", "exited", "killed", "term", "stopped", "trapped"}

InStart == {"setup", "fork", "options", "early", "check", "steps", "session", "events", "cont"}
InWait  == {"waitpid", "store", "exited", "signaled"}

ThreadTypes ==
  /\ attached \in BOOLEAN /\ running \in BOOLEAN /\ exitkill \in BOOLEAN
  /\ pid \in {"child", "none"} /\ status \in Status
  /\ at["main"] \in InStart \cup InWait \cup {"loop", "poll", "drain", "stop", "kill", "destroy",
                                             "done", "failed", "aborted"}
  /\ at["watcher"] \in InWait \cup {"none", "start", "clear", "done"}
  /\ DOMAIN at = Thread
  /\ found \in [Thread -> (Status \ {"zero"}) \cup {"none", "error"}]
  /\ timer \in {"none", "wanted", "asleep", "done"}
  /\ child \in Dead \cup Stops \cup {"none", "born", "running", "held", "reaped", "released"}

TypeOK ==
  /\ ThreadTypes
  /\ head \in Nat /\ tail \in 0 .. head /\ Avail <= Size
  /\ missed \in Nat /\ taken \in 0 .. MaxTaken
  /\ records \in Seq([type : DOMAIN Length, value : Nat])
  /\ todo \in Seq([op : {"header", "read", "skip"}, len : Nat])
  /\ copied \in BOOLEAN

\* However the copies wrap and the kernel goes on storing, the n-th sample that
\* reaches the database or is about to has the words of the n-th sample the
\* kernel stored: none is torn, read twice or left out by the reader.
SamplesIntact ==
  LET all == rows \o samples
      nth(n) == CHOOSE r \in SampleRecords :
                  Cardinality({q \in SampleRecords : q <= r}) = n
  IN /\ Len(all) <= Cardinality(SampleRecords)
     /\ \A n \in DOMAIN all : all[n] = Tail(Words(nth(n), "sample"))

\* Between two records, num_lost() and the losses still in the ring or not yet
\* stored are, with the records stored, all there have been: the warning at the
\* end is right about what was read by then.
LostAccounted ==
  todo = <<>> /\ got = <<>> =>
    taken = numLost + LostIn(Unread) + missed
            + Cardinality({r \in DOMAIN records : records[r].type # "lost"})

\* The reader never finds a record incomplete: `No data available' of
\* read_buffer, which ends chop, is never said.
NeverStarved == In("main", "drain") => ~Starving

\* Whatever the threads do to pid_ and status_ behind each other's backs, and
\* also when one of them ends chop with an error, the program that chop started
\* is dead and waited for in the end (the check left as a comment in ~Process),
\* but for a start that has failed.
NoChildLeft == Over /\ ~attached => child = "reaped" \/ at["main"] = "aborted"

\* ready() waits for a stop that the wait of exec_wait() has already taken: the
\* program came as far as execvp before chop came there.
Hung == running /\ In("main", "waitpid") /\ child = "held"

\* chop sample with -timeout ends, and a program that does not run yet is sampled
\* or chop ends, as it does once the program has ended, unless chop hangs.
SamplingEnds ==
  /\ timer # "none" ~> Over \/ Hung
  /\ ~attached /\ child # "running" ~> Over \/ Hung \/ child = "running"
-----------------------------------------------------------------------------
(* The inductive invariant.                                                *)

\* What is copied is there, so that data_tail does not pass data_head.
Reading ==
  copied => ToRead /\ Head(todo).len <= Avail

\* Without a program of its own chop waits for nothing.
AttachedWaitsNot ==
  attached => /\ at["watcher"] = "none"
              /\ at["main"] = "destroy" => pid = "none"
              /\ at["main"] \notin InWait \cup {"kill", "failed", "options", "early", "check", "steps",
                                               "cont"}

\* No other thread runs before the program does; then main has left the start.
\* Nothing has been waited for before the program is there.
StartsAlone ==
  /\ at["main"] \in InStart \cup (IF running THEN InWait ELSE {}) =>
       running /\ at["watcher"] = "none" /\ timer \in {"none", "wanted"}
  /\ at["main"] \in {"stop", "kill", "destroy"} => ~running
  /\ at["main"] \in {"setup", "fork"} => status = "zero" /\ \A w \in Thread : found[w] = "none"

\* pid_, status_ and what waitpid gave say that the program has been waited for
\* only when it has; the zero of cont() is read only after a status, or ECHILD.
ReapedWhenSaid ==
  /\ pid = "none" => child = "reaped" \/ at["main"] \in {"setup", "fork", "aborted"}
  /\ status \in Dead => child = "reaped"
  /\ \A w \in Thread :
       /\ In(w, "store") => found[w] \in Dead \cup Stops
       /\ In(w, "store") /\ found[w] \in Dead => child = "reaped"
       /\ found[w] = "error" => child = "reaped"
       /\ In(w, "exited") /\ found[w] # "error" => status # "zero"

\* The main loop has a program.  The main thread passes its kill only with a
\* dead one, and its wait with one that it, or the other thread, has waited for.
DeadAtTheEnd ==
  /\ at["main"] \in {"loop", "poll", "drain", "stop", "kill"} =>
       child \notin {"none", "born", "released"}
  /\ ~running /\ at["main"] \in {"destroy", "waitpid"} => child \in Dead \cup {"reaped"}
  /\ ~running /\ at["main"] \in {"store", "exited", "signaled"} => child = "reaped"
  /\ at["main"] \in {"done", "failed"} => child = "reaped"

IInv ==
  /\ TypeOK /\ Reading
  /\ AttachedWaitsNot /\ StartsAlone
  /\ ~attached => ReapedWhenSaid /\ DeadAtTheEnd
(* What the ring holds and where in it the reader is: the invariant behind  *)
(* NeverStarved and SamplesIntact.                                          *)

At(p) == ring[p % Size]
LengthOf(r) == Length[records[r].type]

\* At p, behind the r-th record, the next begins, or r is the last.
Following(p, r) == IF p < head THEN At(p) = <<r + 1, 1>> ELSE r = Len(records)

\* Each word that is left has the rest of its record after it.
Whole ==
  /\ ring \in [0 .. Size - 1 -> Nat \X Nat]
  /\ \A p \in tail .. head - 1 :
       LET r == At(p)[1]
           i == At(p)[2]
       IN /\ r \in DOMAIN records /\ i \in 1 .. LengthOf(r)
          /\ \A k \in 1 .. LengthOf(r) - i : p + k < head /\ At(p + k) = <<r, i + k>>
          /\ Following(p + LengthOf(r) - i + 1, r)

\* The words with which the parts of a layout begin.
Starts == [sample |-> <<2, 2 + HeaderCount, 3 + HeaderCount, 5 + HeaderCount, SampleLen + 1>>,
           lost   |-> <<2, 3, 4, LostLen + 1>>,
           other  |-> <<2, OtherLen + 1>>]

\* The reader is at the k-th part of the r-th record.
Within(r, k) ==
  LET type == records[r].type
      n == Starts[type][k]
  IN /\ k \in DOMAIN Starts[type]
     /\ todo = SubSeq(Layout(type), k, Len(Layout(type)))
     /\ IF n <= LengthOf(r) THEN tail < head /\ At(tail) = <<r, n>> ELSE Following(tail, r)
     /\ got # <<>> /\ got[1] = <<r, 1>>
     /\ type = "sample" =>
          got = [i \in 1 .. n - 1 + (IF copied THEN Head(todo).len ELSE 0) |-> <<r, i>>]

\* The samples up to the r-th record have been delivered, each as it was stored.
Before(r) == {q \in SampleRecords : q <= r}
Delivered(r) ==
  LET all == rows \o samples
  IN /\ Len(all) = Cardinality(Before(r))
     /\ \A n \in DOMAIN all :
          \E q \in Before(r) : all[n] = Tail(Words(q, "sample")) /\ Cardinality(Before(q)) = n

\* Between two records, at a header, or within a record.
InStep ==
  \/ /\ todo = <<>> /\ got = <<>>
     /\ \E r \in 0 .. Len(records) : Following(tail, r) /\ Delivered(r)
  \/ /\ todo = <<Header>>
     /\ \E r \in DOMAIN records :
          /\ tail < head /\ At(tail) = <<r, 1>> /\ Delivered(r - 1)
          /\ got = IF copied THEN <<<<r, 1>>>> ELSE <<>>
  \/ \E r \in DOMAIN records : \E k \in 1 .. 5 : Within(r, k) /\ Delivered(r - 1)

SampleTypes ==
  got \in Seq(Nat \X Nat) /\ samples \in Seq(Seq(Nat \X Nat)) /\ rows \in Seq(Seq(Nat \X Nat))

RingInv == SampleTypes /\ Whole /\ InStep

\* The records that have been read to their end are those up to this one.
Past == IF got # <<>> THEN got[1][1] - 1 ELSE IF tail < head THEN At(tail)[1] - 1 ELSE Len(records)

\* Of a lost record the header is read, and then the number, its third word.
NumberRead ==
  got # <<>> /\ todo # <<Header>> /\ TypeOf(got[1]) = "lost" =>
    LET r == got[1][1]
    IN got = IF copied \/ todo = <<>> \/ Head(todo) = Skip(0) THEN <<<<r, 1>>, <<r, 3>>>>
             ELSE <<<<r, 1>>>>

\* The kernel has stored or noted each loss, and num_lost_ has what was read.
Kept == {r \in DOMAIN records : records[r].type # "lost"}
Losses ==
  /\ taken = missed + LostIn(DOMAIN records) + Cardinality(Kept)
  /\ numLost = LostIn(1 .. Past)
  /\ NumberRead
=============================================================================
