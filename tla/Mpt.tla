-------------------------------- MODULE Mpt --------------------------------
(***************************************************************************)
(* chop-trace2mpt (tools/trace2mpt.c): the files of one trace become a     *)
(* code file (.mpt) and a data file (.mps); the memory map saved with the  *)
(* trace says which page belongs to which.  A page is named by its         *)
(* address, counted in pages; a line of the map is [lo, hi, perm, path].   *)
(***************************************************************************)
EXTENDS Integers, Sequences

CONSTANT MaxAddress    \* --max-address, 0: none

Kind(line) == IF "x" \in line.perm THEN "code"
              ELSE IF "r" \in line.perm THEN "data" ELSE "unknown"

\* parseMemorySegments: a segment per line, and one more that is never set.
Segments(lines) == [i \in 0 .. Len(lines) - 1 |->
                      [start |-> lines[i + 1].lo, end |-> lines[i + 1].hi, type |-> Kind(lines[i + 1])]]
SegmentCount(lines) == Len(lines) + 1

\* findSegment: the index of the segment, -1 for NULL, and -2 where the search
\* reads a segment that is not there: its unsigned indices fall below 0 for an
\* address below all segments, and reach the unset segment for one above.
findSegmentOff(address, segments, count) ==  \* mutant: the upper half from mid
  LET search[start \in 0 .. count, end \in -1 .. count] ==
        LET mid == (start + end) \div 2
        IN  IF end < 0 \/ mid \notin DOMAIN segments THEN -2
            ELSE IF start >= end THEN -1
            ELSE IF address >= segments[mid].start /\ address < segments[mid].end THEN mid
            ELSE IF address >= segments[mid].end THEN search[mid + 1, end]
            ELSE search[start, mid - 1]
  IN  search[0, count - 1]
findSegment(address, segments, count) ==
  LET search[start \in 0 .. count, end \in -1 .. count] ==
        LET mid == (start + end) \div 2
        IN  IF end < 0 THEN -2
            ELSE IF start > end THEN -1
            ELSE IF mid \notin DOMAIN segments THEN -2
            ELSE IF address >= segments[mid].start /\ address < segments[mid].end THEN mid
            ELSE IF address >= segments[mid].end THEN search[mid + 1, end]
            ELSE search[start, mid - 1]
  IN  search[0, count - 1]

\* The pages above --max-address are to be left out; the two comparisons with
\* the default address exclude each other.
Skipped(address, default) ==
  /\ MaxAddress # 0 /\ address >= MaxAddress
  /\ default < address /\ default >= address + 1

\* trace2mpt: the pages of both files, or none when the default address is not
\* in a page of code; `wild' if a search leaves its array.
Mpt(lines, default, pages) ==
  LET segments == Segments(lines)
      read     == {p \in pages : ~Skipped(p, default)}
      found(p) == findSegment(p, segments, SegmentCount(lines))
      wild     == \E p \in read : found(p) = -2
      of(type) == {p \in read : found(p) \in DOMAIN segments /\ segments[found(p)].type = type}
      whole    == ~wild /\ default \in of("code")
  IN  [wild |-> wild, code |-> IF whole THEN of("code") ELSE {}, data |-> IF whole THEN of("data") ELSE {}]
=============================================================================
