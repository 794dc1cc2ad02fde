----------------------------- MODULE MemoryMap -----------------------------
(***************************************************************************)
(* Which pages a trace protects and saves: the start of the traced program *)
(* (Process::exec, Tracer::init, track_mmap), the memory map the support   *)
(* library keeps (Memory, src/trace/memory.cpp), the pages of a trace and  *)
(* their conversion by chop-trace2mpt.                                     *)
(*                                                                         *)
(* Addresses are counted in pages.  The address space is a function from   *)
(* pages to what is mapped there; /proc/self/maps has a line for every     *)
(* maximal run of equal pages.  map_[] is an array whose slots survive     *)
(* from one update to the next, their paths included.                      *)
(***************************************************************************)
EXTENDS Mpt, SequencesExt

CONSTANTS
  Pages,        \* page addresses, an interval
  Image,        \* what execvp maps: a mapping per page
  Loads,        \* mappings the loader may make: [lo, hi, perm, path]
  Unmaps,       \* what it may unmap of them, whole mappings or parts
  Needed,       \* those of them that load libcxtrace and libc
  Free,         \* pages the program maps and unmaps for its data
  Rights,       \* what it may do with them
  Used,         \* pages the program uses in a trace
  Entry,        \* the page of the region of interest
  ReservedSets, \* pages of the reserved symbols of libc: one set per libc
  Forms,        \* command lines: [code, unprotect : BOOLEAN]
  RegionsMax,   \* REGIONS_MAX (1023): the last slot of map_[], res_[] and prot_[]
  CallBound,    \* bound: system calls of the start
  TraceBound    \* bound: traces, and changes of the data between them

Nowhere == [perm |-> {}, path |-> "none"]

ASSUME LoadAssumption == Needed \subseteq Loads /\ Entry \in Used /\ Free \cup Used \subseteq Pages
ASSUME ImageAssumption == DOMAIN Image = Pages
ASSUME BoundAssumption == RegionsMax \in Nat /\ CallBound \in Nat /\ TraceBound \in Nat

VARIABLES
  form, reserved,    \* the command line; libc_addrs[], sorted and unique
  phase,             \* where tracer and program are
  call,              \* the system call the child is stopped in
  space,             \* the address space
  restrict_map, res, \* of the tracer; res_[] of the library
  map, siz, prot,    \* map_[], siz_, prot_[]
  rights,            \* the access each page has
  accessed, saved,   \* pages the program has used in this trace, page files
  maps, out,         \* the map file of the trace; what chop-trace2mpt made of it
  mismatched,        \* history: track_mmap erased an entry it had not found
  misnamed,          \* history: pages update left out for an old path of their slot
  budget

library == <<res, map, siz, prot, rights>>
trace   == <<accessed, saved, maps, out>>
vars == <<form, reserved, phase, call, space, restrict_map, library, trace, mismatched, misnamed, budget>>

Ended == {"failed", "aborted", "dead", "corrupt"}
Zero  == [lo |-> 0, hi |-> 0, perm |-> {}, path |-> ""]
Span(r) == r.lo .. r.hi - 1
Mapped(s) == {p \in Pages : s[p] # Nowhere}
As(r) == [perm |-> r.perm, path |-> r.path]

Init ==
  /\ form \in Forms
  /\ reserved \in IF form.unprotect THEN {{}} ELSE ReservedSets
  /\ phase = "fork" /\ call = "none"
  /\ space = Image /\ restrict_map = <<>> /\ res = <<>>
  /\ map = [i \in 0 .. RegionsMax |-> Zero] /\ siz = 0 /\ prot = <<>>
  /\ rights = [p \in Pages |-> {}]
  /\ accessed = {} /\ saved = {} /\ maps = <<>> /\ out = [wild |-> FALSE, code |-> {}, data |-> {}]
  /\ mismatched = FALSE /\ misnamed = {} /\ budget = CallBound
-----------------------------------------------------------------------------
(* The start of the program.                                               *)

\* Process::exec and ready: the child stops with SIGTRAP in execvp, or
\* something fails and the tracer with it.
Exec ==
  /\ phase = "fork"
  /\ phase' \in {"entry", "failed"}
  /\ UNCHANGED <<form, reserved, call, space, restrict_map, library, trace, mismatched, misnamed, budget>>

Calls == [tag : {"mmap"}, region : Loads] \cup [tag : {"munmap"}, region : Unmaps] \cup {[tag |-> "other"]}
\* The loader maps the segments of its libraries in the order of addresses.
Possible(c) ==
  CASE c.tag = "mmap"   -> /\ Span(c.region) \cap Mapped(space) = {}
                           /\ c.region \in Needed =>
                                \A r \in Needed : r.lo < c.region.lo => Span(r) \subseteq Mapped(space)
    [] c.tag = "munmap" -> Span(c.region) \subseteq Mapped(space)
    [] OTHER            -> TRUE

\* track_mmap stops the child at the begin and at the end of every system call.
EnterCall(c) ==
  /\ phase = "entry" /\ budget > 0 /\ Possible(c)
  /\ budget' = budget - 1
  /\ call' = c /\ phase' = "exit"
  /\ UNCHANGED <<form, reserved, space, restrict_map, library, trace, mismatched, misnamed>>

\* remove_if and erase of one element, from the first that is left over.
Without(r) ==
  LET kept == SelectSeq(restrict_map, LAMBDA m : Span(m) # Span(r))
  IN  kept \o SubSeq(restrict_map, Len(kept) + 2, Len(restrict_map))

\* Without a match erase(end()) is undefined: the build crashes, or the last
\* element goes.
Forget(r) ==
  IF \E i \in DOMAIN restrict_map : Span(restrict_map[i]) = Span(r)
    THEN /\ restrict_map' = Without(r) /\ phase' = "entry" /\ UNCHANGED mismatched
    ELSE /\ mismatched' = TRUE
         /\ \/ phase' = "failed" /\ UNCHANGED restrict_map
            \/ restrict_map # <<>> /\ restrict_map' = Front(restrict_map) /\ phase' = "entry"

Keep(r) == restrict_map' = Append(restrict_map, r) /\ phase' = "entry" /\ UNCHANGED mismatched

LeaveCall ==
  /\ phase = "exit"
  /\ CASE call.tag = "mmap" ->
            /\ space' = [p \in Pages |-> IF p \in Span(call.region) THEN As(call.region) ELSE space[p]]
            /\ Keep(call.region)
       [] call.tag = "munmap" ->
            /\ space' = [p \in Pages |-> IF p \in Span(call.region) THEN Nowhere ELSE space[p]]
            /\ Forget(call.region)
       [] OTHER -> phase' = "entry" /\ UNCHANGED <<space, restrict_map, mismatched>>
  /\ call' = "none"
  /\ UNCHANGED <<form, reserved, library, trace, misnamed, budget>>

\* A stop that is not the expected one ends the tracer.
Disturbed ==
  /\ phase \in {"entry", "exit", "steps", "constructed"}
  /\ phase' = "failed"
  /\ UNCHANGED <<form, reserved, call, space, restrict_map, library, trace, mismatched, misnamed, budget>>

Loaded == \A r \in Needed : \A p \in Span(r) : space[p] = As(r)

\* The constructor of the library raises SIGUSR1 when its handlers, its buffers
\* and its stack are there ...
Notify ==
  /\ phase = "entry" /\ Loaded
  /\ phase' = "notified"
  /\ UNCHANGED <<form, reserved, call, space, restrict_map, library, trace, mismatched, misnamed, budget>>

\* ... for the tracer to write its map and then to let the constructor go on ...
WriteMap ==
  /\ phase = "notified"
  /\ phase' \in {"steps", "failed"}
  /\ UNCHANGED <<form, reserved, call, space, restrict_map, library, trace, mismatched, misnamed, budget>>

\* ... which reads it: too many lines end the program.
ReadMap ==
  /\ phase = "steps"
  /\ IF Len(restrict_map) <= RegionsMax
       THEN res' = restrict_map /\ phase' = "constructed"
       ELSE phase' = "aborted" /\ UNCHANGED res
  /\ UNCHANGED <<form, reserved, call, space, restrict_map, map, siz, prot, rights, trace, mismatched, misnamed, budget>>

\* The tracer steps to the main module.
StepToMain ==
  /\ phase = "constructed"
  /\ phase' = "idle" /\ budget' = TraceBound
  /\ rights' = [p \in Pages |-> space[p].perm]
  /\ UNCHANGED <<form, reserved, call, space, restrict_map, res, map, siz, prot, trace, mismatched, misnamed>>
-----------------------------------------------------------------------------
(* Memory::update.                                                         *)

LineAt(s, p) ==
  [lo |-> p, hi |-> CHOOSE q \in p + 1 .. p + Cardinality(Pages) :
                      /\ \A k \in p .. q - 1 : k \in Pages /\ s[k] = s[p]
                      /\ q \notin Pages \/ s[q] # s[p],
   perm |-> s[p].perm, path |-> s[p].path]
Lines(s) ==
  LET first == {p \in Mapped(s) : p - 1 \notin Pages \/ s[p - 1] # s[p]}
  IN  [i \in 1 .. Cardinality(first) |->
         LineAt(s, CHOOSE p \in first : Cardinality({k \in first : k < p}) = i - 1)]

\* parse_region: an anonymous line has no path, so sscanf reads what an earlier
\* line has left behind the newline (which becomes an empty path) or, when that
\* is a blank, nothing: then the path of the slot stays.
Parsed(u, line, residue) ==
  IF line.path # "" \/ residue THEN line ELSE [line EXCEPT !.path = u.map[u.n].path]

\* filter_perm with "r*-" or "r*-,r-x", filter_region, protect_bits.
FilterPerm(perm) == ("r" \in perm /\ "x" \notin perm) \/ (form.code /\ perm = {"r", "x"})
FilterRegion(reg) == FilterPerm(reg.perm) /\ reg.path \notin {"cxtrace", "ld", "[v"}
ProtectBits(perm) == IF perm = {"r", "w", "x"} THEN {"r"} ELSE {}

Current(u) == u.map[u.n - 1]
\* Nothing tests the slots that cuts and splits fill: behind the last one the
\* next member of the object is overwritten.
Place(u, slot, region) ==
  IF slot <= RegionsMax THEN [u EXCEPT !.map[slot] = region] ELSE [u EXCEPT !.fate = "corrupt"]

\* A restricted mapping that begins in the region just entered is cut out of
\* it; after a cut in the middle only the part above it is looked at again.
CutLess(u, r) == Place(u, u.n - 1, [Current(u) EXCEPT !.hi = r.lo])  \* mutant: what lies above is lost
CutInside(u, r) ==
  LET c == Current(u)
  IN  [Place(Place(u, u.n - 1, [c EXCEPT !.hi = r.lo]), u.n, [c EXCEPT !.lo = r.hi]) EXCEPT !.n = @ + 1]
CutNothing(u, r) == u  \* mutant: a mapping at the front is taken for one at the end
CutFront(u, r) ==
  LET cut == Place(u, u.n - 1, [Current(u) EXCEPT !.lo = r.hi])
  IN  IF Current(u).hi = r.hi THEN [cut EXCEPT !.n = @ - 1] ELSE cut
Begins(u, r) == r.lo >= Current(u).lo /\ r.lo < Current(u).hi
Cut(u, r) ==
  IF u.fate # "ok" \/ ~Begins(u, r) THEN u
  ELSE IF Current(u).lo = r.lo THEN CutFront(u, r)
  ELSE IF Current(u).hi = r.hi THEN Place(u, u.n - 1, [Current(u) EXCEPT !.hi = r.lo])
  ELSE CutInside(u, r)
Carve(u) == FoldLeft(Cut, u, res)

\* The text of libc and libpthread is cut at the reserved pages.  The loop ends
\* when none of them is left, with the rest of the region down to one page, and
\* skips a slot of map_[] when the last piece ends with the region.
AfterReserved(p) == CHOOSE q \in p .. p + Cardinality(Pages) :
                      q \notin reserved /\ \A k \in p .. q - 1 : k \in reserved
Stale == <<>>
Pieces(lo, hi) ==
  LET next(s) == {q \in reserved : q > s}
      least(s) == CHOOSE q \in next(s) : \A k \in next(s) : q <= k
      from[s \in lo .. hi + Cardinality(Pages)] ==
        IF s >= hi \/ next(s) = {} THEN << <<s, s + 1>> >>
        ELSE IF least(s) > hi THEN << <<s, hi>>, Stale >>
        ELSE << <<s, least(s)>> >> \o from[AfterReserved(least(s))]
  IN  from[AfterReserved(lo)]
SplitText(u) ==
  LET c == Current(u)
      pieces == Pieces(c.lo, c.hi)
      piece(slot) == pieces[slot - u.n + 2]
      after == u.n - 1 + Len(pieces)
      text  == [slot \in DOMAIN u.map |->
                  IF slot - u.n + 2 \in DOMAIN pieces /\ piece(slot) # Stale
                    THEN [c EXCEPT !.lo = piece(slot)[1], !.hi = piece(slot)[2]]
                    ELSE u.map[slot]]
  IN  [u EXCEPT !.n = after, !.map = text, !.fate = IF after > RegionsMax THEN "corrupt" ELSE @]
IsText(reg) == reg.path = "libc" /\ "x" \in reg.perm

\* A line of /proc/self/maps.  The slot is written before the line is filtered
\* out, and the slot after the last region keeps its path when it is cleared.
Enter(u, reg) ==
  LET entered == [u EXCEPT !.n = @ + 1]
      carved  == IF reg.path = "" THEN Carve(entered) ELSE entered
  IN  IF carved.fate = "ok" /\ IsText(Current(carved)) THEN SplitText(carved) ELSE carved
Register(u, reg) == IF reg.path # "cxtrace" THEN [u EXCEPT !.prot = Append(@, reg)] ELSE u
Clear(u) ==
  IF u.n > RegionsMax \/ Len(u.prot) > RegionsMax THEN [u EXCEPT !.fate = "corrupt"]
  ELSE [u EXCEPT !.map[u.n].lo = 0, !.map[u.n].hi = 0]
Astray(line, reg) == line.path = "" /\ (reg.path = "cxtrace" \/ IsText(reg))
Line(u, line, residue) ==
  LET reg   == Parsed(u, line, residue)
      slot  == [Place(u, u.n, reg) EXCEPT !.lost = @ \cup (IF Astray(line, reg) THEN Span(line) ELSE {})]
  IN  IF u.fate # "ok" THEN u
      ELSE IF u.n >= RegionsMax THEN [u EXCEPT !.fate = "aborted"]
      ELSE Clear(IF FilterRegion(reg) THEN Enter(slot, reg) ELSE Register(slot, reg))

\* What update may leave behind, whatever the buffer of lines holds.
Fresh == [map |-> map, n |-> 0, prot |-> <<>>, fate |-> "ok", lost |-> {}]
Anonymous(lines) == {i \in DOMAIN lines : lines[i].path = ""}
Updates(lines) ==
  {FoldLeft(LAMBDA u, i : Line(u, lines[i], i \in residues), Fresh, [i \in DOMAIN lines |-> i])
     : residues \in SUBSET Anonymous(lines)}
-----------------------------------------------------------------------------
(* The traces.                                                             *)

Regions(u) == [i \in 1 .. u.n |-> u.map[i - 1]]
\* mprotect of the regions in order, the last one counts: with their own rights
\* or protected.
Changed(regions, own) ==
  [p \in Pages |->
     LET over == {i \in DOMAIN regions : p \in Span(regions[i])}
     IN  IF over = {} THEN rights[p]
         ELSE LET perm == regions[CHOOSE i \in over : \A j \in over : j <= i].perm
              IN  IF own THEN perm ELSE ProtectBits(perm)]

\* mprotect fails when the end precedes the begin, as when a mapping that was
\* cut out reaches beyond the region, or when a page is not mapped (any more).
Protectable(region) == region.lo <= region.hi /\ Span(region) \subseteq Mapped(space)

\* The tracer copies the map, then calls the library: update, which ends the
\* program when there are too many regions, and protect_all, which ends it when
\* mprotect fails.
StartTrace ==
  /\ phase = "idle" /\ budget > 0 /\ budget' = budget - 1
  /\ maps' = Lines(space)
  /\ \E u \in Updates(maps') :
       /\ map' = u.map /\ siz' = u.n /\ prot' = u.prot /\ misnamed' = u.lost
       /\ IF u.fate # "ok" THEN phase' = u.fate /\ UNCHANGED rights
          ELSE IF \A i \in 1 .. u.n : Protectable(Regions(u)[i])
                 THEN rights' = Changed(Regions(u), FALSE) /\ phase' = "tracing"
                 ELSE phase' = "aborted" /\ UNCHANGED rights
  /\ accessed' = {} /\ saved' = {} /\ out' = [wild |-> FALSE, code |-> {}, data |-> {}]
  /\ UNCHANGED <<form, reserved, call, space, restrict_map, res, mismatched>>

\* What the fault handler runs on: its own pages, its stack and data among
\* them, and those of the reserved symbols.
Own == {p \in Pages : \E r \in Needed : p \in Span(r) /\ r.path \in {"cxtrace", ""}}
HandlerPages == Own \cup (reserved \cap Mapped(space))
HandlerRuns == \A p \in HandlerPages : rights[p] # {}

find_region(p) == {i \in 0 .. siz - 1 : p \in Span(map[i])}
First(set) == CHOOSE i \in set : \A j \in set : i <= j

\* The program uses a page of its own; a fault goes through record_segv.
Access(p) ==
  /\ phase = "tracing" /\ space[p].perm # {} /\ p \notin Own
  /\ accessed' = accessed \cup {p}
  /\ IF rights[p] # {} THEN UNCHANGED <<phase, saved, rights>>
     ELSE IF ~HandlerRuns THEN phase' = "dead" /\ UNCHANGED <<saved, rights>>
     ELSE IF find_region(p) = {} THEN phase' = "aborted" /\ UNCHANGED <<saved, rights>>
     ELSE /\ rights' = [rights EXCEPT ![p] = map[First(find_region(p))].perm]
          /\ saved' = saved \cup {p} /\ UNCHANGED phase
  /\ UNCHANGED <<form, reserved, call, space, restrict_map, res, map, siz, prot, maps, out, mismatched, misnamed, budget>>

Restricted == UNION {Span(prot[i]) : i \in DOMAIN prot}
AtTheEnd == reserved \cup Restricted

\* unprotect_all, then the reserved pages and the regions that were not
\* selected are saved; writing a page without read permission fails and the
\* assertion ends the program.
StopTrace ==
  /\ phase = "tracing" /\ Entry \in accessed
  /\ rights' = Changed([i \in 1 .. siz |-> map[i - 1]], TRUE)
  /\ IF \A p \in AtTheEnd : "r" \in rights'[p]
       THEN saved' = saved \cup AtTheEnd /\ phase' = "saved"
       ELSE phase' = "aborted" /\ UNCHANGED saved
  /\ UNCHANGED <<form, reserved, call, space, restrict_map, res, map, siz, prot, accessed, maps, out,
                 mismatched, misnamed, budget>>

Convert ==
  /\ phase = "saved"
  /\ out' = Mpt(maps, Entry, saved)
  /\ phase' = "idle"
  /\ UNCHANGED <<form, reserved, call, space, restrict_map, library, accessed, saved, maps,
                 mismatched, misnamed, budget>>

\* Between two traces the program maps or unmaps a page of data.
Change(p, perm) ==
  /\ phase = "idle" /\ budget > 0 /\ budget' = budget - 1
  /\ space' = [space EXCEPT ![p] = IF @ = Nowhere THEN [perm |-> perm, path |-> ""] ELSE Nowhere]
  /\ rights' = [rights EXCEPT ![p] = space'[p].perm]
  /\ maps' = <<>> /\ accessed' = {} /\ saved' = {} /\ out' = [wild |-> FALSE, code |-> {}, data |-> {}]
  /\ UNCHANGED <<form, reserved, phase, call, restrict_map, res, map, siz, prot, mismatched, misnamed>>

Terminated ==
  /\ phase \in Ended \/ (phase \in {"idle", "entry"} /\ budget = 0)
  /\ UNCHANGED vars

Next ==
  \/ Exec \/ LeaveCall \/ Disturbed \/ Notify \/ WriteMap \/ ReadMap \/ StepToMain
  \/ StartTrace \/ StopTrace \/ Convert \/ Terminated
  \/ \E c \in Calls : EnterCall(c)
  \/ \E p \in Used : Access(p)
  \/ \E p \in Free, perm \in Rights : Change(p, perm)

Spec == Init /\ [][Next]_vars
-----------------------------------------------------------------------------
(* Properties.                                                             *)

RestrictedByLoader ==
  {p \in Pages : space[p].path = "" /\ \E i \in DOMAIN restrict_map : p \in Span(restrict_map[i])}
Run(p) == {q \in Pages : \A k \in (IF p < q THEN p .. q ELSE q .. p) : space[k] = space[p]}
\* A mapping that lies below one listed before it, above which the same run of
\* pages goes on with something that is not cut out.
Overlooked(r) ==
  \E j \in DOMAIN restrict_map :
    /\ \E i \in DOMAIN restrict_map : j < i /\ restrict_map[i] = r
    /\ restrict_map[j].lo > r.lo /\ restrict_map[j].lo \in Run(r.lo)
    /\ \E p \in Run(r.lo) : /\ p >= restrict_map[j].hi
                            /\ ~\E k \in 1 .. j - 1 : p \in Span(restrict_map[k])

\* The fault handler can run in every trace: its code, its stack, its data and
\* the functions of libc it calls are accessible, whatever the loader and the
\* program have mapped next to them, in every order (upwards and downwards), as
\* long as track_mmap found what it erased and the library's data is not
\* overlooked: below a mapping listed earlier that was cut out in the middle.
HandlerSafe ==
  phase = "tracing" /\ ~HandlerRuns => mismatched \/ \E r \in Needed : r.path = "" /\ Overlooked(r)

RestOfText == {p \in Pages : form.code /\ IsText(space[p]) /\ ~\E q \in reserved : q > p}
Found == {p \in Pages : space[p].perm # {} /\ p \notin Own /\ p \notin RestrictedByLoader}

\* A page the program can use is protected when the trace begins or saved when
\* it ends, but for the mappings of the loader, what lies behind the last
\* reserved page of libc's text, and the anonymous pages entered under the old
\* path of their slot; these are executable, or follow libcxtrace with nothing
\* but anonymous mappings between.
AfterLibrary == {p \in Pages : \E q \in Pages : q < p /\ space[q].path = "cxtrace"
                                /\ \A k \in q + 1 .. p : space[k].path \in {"", "none"}}
CoveredBelow ==
  phase = "tracing" /\ accessed = {} =>
    /\ \A p \in Found \ (RestOfText \cup misnamed) : rights[p] = {} \/ p \in AtTheEnd
    /\ \A p \in misnamed : "x" \in space[p].perm \/ p \in AfterLibrary

\* Every page the program used in the trace is in the converted test, in the
\* file of code or of data that the map of that trace says, but for the pages
\* CoveredBelow leaves out.
Converted ==
  /\ ~out.wild
  /\ phase = "idle" /\ maps # <<>> =>
       \A p \in accessed \ (RestrictedByLoader \cup RestOfText \cup misnamed) :
         IF "x" \in space[p].perm THEN p \in out.code \ out.data ELSE p \in out.data \ out.code
=============================================================================
