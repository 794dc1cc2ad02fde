------------------------------ MODULE PerfRing ------------------------------
(* The ring buffer of a perf event: the kernel stores records in it, and   *)
(* Event::sample takes them out with read_buffer and skip_buffer (core/    *)
(* event.cpp). Lengths are in words of 8 bytes. A word is <<r, i>>: the    *)
(* i-th word of the r-th record; what it says is known from the record.    *)
(* The actions are those of the two users of the ring; ChopSample says     *)
(* when they run.                                                          *)
EXTENDS Integers, Sequences, FiniteSets, FiniteSetsExt

CONSTANTS Size,      \* of the data area, a power of two
          Counters,  \* events of the group: values of a sample (nr)
          OtherLen,  \* of a record that is neither a sample nor a loss
          MaxTaken   \* bound: records the kernel has to store

ASSUME RingAssumption ==
  /\ Size \in Nat \ {0} /\ Counters \in Nat \ {0}
  /\ OtherLen \in Nat \ {0} /\ MaxTaken \in Nat

VARIABLES
  ring,     \* kernel: the words of the data area
  head,     \* data_head, never wrapped
  records,  \* history: the records stored, the r-th is of type and value
  missed,   \* records not stored since the last one that was
  taken,    \* history: records there have been to store
  tail,     \* data_tail, never wrapped
  todo,     \* reads and skips left of the record that is being read
  copied,   \* the first of them is copied, data_tail not yet updated
  got,      \* words read of this record
  samples,  \* Event::sample's result so far
  numLost   \* num_lost_

kernelVars == <<ring, head, records, missed, taken>>
readerVars == <<tail, todo, copied, got, samples, numLost>>

HeaderCount == 3            \* Sample::header_count: ip, pid and tid, time
SampleLen == 1 + HeaderCount + 1 + 2 + Counters
LostLen   == 3              \* header, id, lost
Length == [sample |-> SampleLen, lost |-> LostLen, other |-> OtherLen]

RingInit ==
  /\ ring = [c \in 0 .. Size - 1 |-> <<0, 0>>]
  /\ head = 0 /\ tail = 0 /\ records = <<>> /\ missed = 0 /\ taken = 0
  /\ todo = <<>> /\ copied = FALSE /\ got = <<>> /\ samples = <<>> /\ numLost = 0

\* avail()
Avail == head - tail
-----------------------------------------------------------------------------
(* The kernel. A record that does not fit is counted; before the next that *)
(* does, the count is stored as a record of its own.                       *)

Words(r, type) == [i \in 1 .. Length[type] |-> <<r, i>>]

Store(type) ==
  /\ taken < MaxTaken /\ taken' = taken + 1
  /\ LET n == Len(records)
         new == [type |-> type, value |-> IF type = "sample" THEN taken' ELSE 0]
         loss == [type |-> "lost", value |-> missed]
         added == IF missed = 0 THEN <<new>> ELSE <<loss, new>>
         words == IF missed = 0 THEN Words(n + 1, type)
                                ELSE Words(n + 1, "lost") \o Words(n + 2, type)
         at(c) == ((c - head) % Size) + 1
     IN IF Avail + Len(words) > Size
          THEN missed' = missed + 1 /\ UNCHANGED <<ring, head, records>>
          ELSE /\ missed' = 0
               /\ records' = records \o added
               /\ ring' = [c \in DOMAIN ring |->
                             IF at(c) <= Len(words) THEN words[at(c)] ELSE ring[c]]
               /\ head' = head + Len(words)
  /\ UNCHANGED readerVars
-----------------------------------------------------------------------------
(* The reader.                                                             *)

Header  == [op |-> "header", len |-> 1]
Read(n) == [op |-> "read", len |-> n]
Skip(n) == [op |-> "skip", len |-> n]

\* Event::sample after the header, for each type of record.
LostLayoutSwapped == <<Read(1), Skip(1), Skip(LostLen - 3)>>   \* mutant
LostLayout == <<Skip(1), Read(1), Skip(LostLen - 3)>>
OtherLayoutHeader == <<Skip(OtherLen)>>               \* mutant: header again
OtherLayout == <<Skip(OtherLen - 1)>>
Layout(type) ==
  CASE type = "sample" -> <<Read(HeaderCount), Read(1), Read(2), Read(Counters)>>
    [] type = "lost"   -> LostLayout
    [] OTHER           -> OtherLayout

TypeOf(word) == records[word[1]].type

\* What follows the first of todo: the header says what is to come.
After(words) == IF Head(todo).op = "header" THEN Layout(TypeOf(words[1])) ELSE Tail(todo)

\* read_buffer's two copies: to the end of the data area, then from its start.
Part(n) == Min({Size - (tail % Size), n})
CopyBeginning(n) == [i \in 1 .. Part(n) |-> ring[(tail % Size) + i - 1]]
CopyLeftoverNext(n) == [i \in 1 .. n - Part(n) |-> ring[i % Size]]  \* mutant
CopyLeftover(n) == [i \in 1 .. n - Part(n) |-> ring[i - 1]]

BeginRecord ==
  /\ todo = <<>> /\ got = <<>> /\ Avail >= 1
  /\ todo' = <<Header>>
  /\ UNCHANGED <<tail, copied, got, samples, numLost, kernelVars>>

ToRead == todo # <<>> /\ Head(todo).op # "skip"

\* check(avail() >= sz) in read_buffer fails; NeverStarved says that it does not.
Starving == ToRead /\ ~copied /\ Avail < Head(todo).len

Copy ==
  /\ ToRead /\ ~copied /\ Avail >= Head(todo).len
  /\ got' = got \o CopyBeginning(Head(todo).len) \o CopyLeftover(Head(todo).len)
  /\ copied' = TRUE
  /\ UNCHANGED <<tail, todo, samples, numLost, kernelVars>>

Advanced(n) == tail + n

Advance ==
  /\ copied /\ copied' = FALSE
  /\ tail' = Advanced(Head(todo).len)
  /\ todo' = After(got)
  /\ UNCHANGED <<got, samples, numLost, kernelVars>>

\* skip_buffer stops at the head.
SkipPart ==
  /\ todo # <<>> /\ Head(todo).op = "skip"
  /\ tail' = Min({tail + Head(todo).len, head})
  /\ todo' = Tail(todo)
  /\ UNCHANGED <<copied, got, samples, numLost, kernelVars>>

\* The number in a word: only the third of a lost record is the count.
Number(word) == IF TypeOf(word) = "lost" /\ word[2] = 3 THEN records[word[1]].value ELSE 0

EndRecord ==
  /\ todo = <<>> /\ got # <<>>
  /\ got' = <<>>
  /\ samples' = IF TypeOf(got[1]) = "sample" THEN Append(samples, Tail(got)) ELSE samples
  /\ numLost' = IF TypeOf(got[1]) = "lost" THEN numLost + Number(got[2]) ELSE numLost
  /\ UNCHANGED <<tail, todo, copied, kernelVars>>

ReadStep == BeginRecord \/ Copy \/ Advance \/ SkipPart \/ EndRecord

\* for (;;) in Event::sample ends
Drained == todo = <<>> /\ got = <<>> /\ Avail < 1
-----------------------------------------------------------------------------
Unread == {ring[p % Size][1] : p \in tail .. head - 1}
LostIn(R) == MapThenSumSet(LAMBDA r : records[r].value,
                           {r \in R : records[r].type = "lost"})
SampleRecords == {r \in DOMAIN records : records[r].type = "sample"}
=============================================================================
