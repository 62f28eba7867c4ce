----------------------------- MODULE RegionQuery -----------------------------
(***************************************************************************)
(* hat::process::is_readable, is_writable and is_executable: a walk over   *)
(* the regions of the address space, one system query at a time, while     *)
(* other threads map, unmap and protect pages.  Linux reads the lines of   *)
(* /proc/self/maps, of which any number may be read between two changes;   *)
(* Windows asks VirtualQuery and macOS mach_vm_region about an address.    *)
(***************************************************************************)
EXTENDS AddressSpace

CONSTANTS
  Protections,  \* what other threads may make of a page
  Seams,        \* the pages at which a region starts whatever the protections
  Begins, Ends, \* where the regions asked about start and end, in bytes
  Asked,        \* the flags asked for
  MaxChanges    \* bound on the changes other threads make during a call

ASSUME RegionQueryAssumption ==
  /\ MaxChanges \in Nat
  /\ Protections \subseteq (SUBSET Flag) \cup {Unmapped}
  /\ Seams \subseteq SUBSET Page
  /\ Begins \subseteq 0 .. PageCount * PageSize
  /\ Ends \subseteq 0 .. PageCount * PageSize
  /\ Asked \subseteq Flag

VARIABLES
  lo, hi, flag,            \* the call: is every byte of [lo, hi) flagged?
  seams,
  pc, addr,                \* how far the walk has come
  found, next,             \* on Linux: in the region, and the next line's address
  answer,                  \* the value returned
  had, lacked,             \* the pages that during the call at some time had the
  holes, changed,          \* flag, lacked it, were not mapped, or were changed
  changes

query == <<platform, lo, hi, flag, seams>>
history == <<had, lacked, holes, changed, changes>>
queryVars == <<query, prot, pc, addr, found, next, answer, history>>

Has(p, layout) == layout[p] # Unmapped /\ flag \in layout[p]

\* The pages of the region asked about.
Touched == PagesOf(lo, hi)

-----------------------------------------------------------------------------
(* What the system answers *)

Joined(p) == p \in Page /\ p - 1 \in Page /\ prot[p] = prot[p - 1] /\ p \notin seams

\* The pages of the system's region that page p lies in.
RegionOf(p) == {q \in Page : IF q <= p THEN \A r \in q + 1 .. p : Joined(r)
                                       ELSE \A r \in p + 1 .. q : Joined(r)}

RegionBegin(p) == Min(RegionOf(p)) * PageSize

\* Slip: the size is not added.
SizeForgotten(p) == RegionBegin(p)

RegionEnd(p) == (Max(RegionOf(p)) + 1) * PageSize

\* The first mapped page that ends behind a, and whether there is one.
MappedFrom(a) == {p \in Page : prot[p] # Unmapped /\ (p + 1) * PageSize > a}

-----------------------------------------------------------------------------
QueryInit ==
  /\ platform \in Platforms
  /\ lo \in Begins
  /\ hi \in Ends
  /\ lo <= hi
  /\ flag \in Asked
  /\ prot \in Layouts
  /\ seams \in Seams
  /\ pc = "walk"
  /\ addr = lo
  /\ found = FALSE
  /\ next = 0
  /\ answer = FALSE
  /\ had = {p \in Page : Has(p, prot)}
  /\ lacked = Page \ had
  /\ holes = {p \in Page : prot[p] = Unmapped}
  /\ changed = {}
  /\ changes = 0

Return(value) ==
  /\ answer' = value
  /\ pc' = "done"

\* Linux: an empty region is not walked.
Empty ==
  /\ platform = "linux"
  /\ pc = "walk"
  /\ lo = hi
  /\ Return(FALSE)
  /\ UNCHANGED <<query, prot, addr, found, next, history>>

\* Slips: regions that need not be contiguous, and a first region that has to
\* start where the range does.
InsideAnyway(b, e) == found \/ (addr >= b /\ addr < e)
InsideAtBegin(b, e) == b = addr

\* The line [b, e) continues the region or starts it.
Inside(b, e) == IF found THEN b = addr ELSE addr >= b /\ addr < e

\* The callback of iter_mapped_regions on the next line.
Line ==
  /\ platform = "linux"
  /\ pc = "walk"
  /\ lo # hi
  /\ MappedFrom(next) # {}
  /\ LET p == Min(MappedFrom(next))
         b == RegionBegin(p)
         e == RegionEnd(p)
         stop == (found /\ ~ Inside(b, e)) \/ (Inside(b, e) /\ ~ Has(p, prot))
         to == IF Inside(b, e) /\ Has(p, prot) THEN e ELSE addr
     IN /\ found' = (found \/ Inside(b, e))
        /\ addr' = to
        /\ next' = e
        /\ IF ~ stop /\ to < hi /\ to >= b
           THEN UNCHANGED <<pc, answer>>
           ELSE Return(to >= hi)
  /\ UNCHANGED <<query, prot, history>>

EndOfFile ==
  /\ platform = "linux"
  /\ pc = "walk"
  /\ lo # hi
  /\ MappedFrom(next) = {}
  /\ Return(addr >= hi)
  /\ UNCHANGED <<query, prot, addr, found, next, history>>

\* One iteration on Windows: what is not committed ends the walk.
VirtualQuery ==
  /\ platform = "win32"
  /\ pc = "walk"
  /\ addr < hi
  /\ IF Has(PageOf(addr), prot)
     THEN addr' = RegionEnd(PageOf(addr)) /\ UNCHANGED <<pc, answer>>
     ELSE Return(FALSE) /\ UNCHANGED addr
  /\ UNCHANGED <<query, prot, found, next, history>>

\* One iteration on macOS: the region at the address or, in a hole, the next.
MachVmRegion ==
  /\ platform = "mac"
  /\ pc = "walk"
  /\ addr < hi
  /\ IF MappedFrom(addr) = {}
     THEN Return(FALSE) /\ UNCHANGED addr
     ELSE LET p == Min(MappedFrom(addr))
          IN IF Has(p, prot)
             THEN addr' = RegionEnd(p) /\ UNCHANGED <<pc, answer>>
             ELSE Return(FALSE) /\ UNCHANGED addr
  /\ UNCHANGED <<query, prot, found, next, history>>

\* Windows and macOS: the loop ends behind the region.
LoopEnd ==
  /\ platform \in {"win32", "mac"}
  /\ pc = "walk"
  /\ addr >= hi
  /\ Return(TRUE)
  /\ UNCHANGED <<query, prot, addr, found, next, history>>

Walk == Empty \/ Line \/ EndOfFile \/ VirtualQuery \/ MachVmRegion \/ LoopEnd

\* Another thread maps, unmaps or protects a page.
Change(p, to) ==
  /\ pc = "walk"
  /\ changes < MaxChanges
  /\ to # prot[p]
  /\ prot' = [prot EXCEPT ![p] = to]
  /\ had' = IF Has(p, prot') THEN had \cup {p} ELSE had
  /\ lacked' = IF Has(p, prot') THEN lacked ELSE lacked \cup {p}
  /\ holes' = IF to = Unmapped THEN holes \cup {p} ELSE holes
  /\ changed' = changed \cup {p}
  /\ changes' = changes + 1
  /\ UNCHANGED <<query, pc, addr, found, next, answer>>

QueryNext == Walk \/ \E p \in Page, to \in Protections : Change(p, to)

\* The call runs on its caller's thread; the other threads may do nothing.
QuerySpec == QueryInit /\ [][QueryNext]_queryVars /\ WF_queryVars(Walk)

-----------------------------------------------------------------------------
QueryTypeOK ==
  /\ platform \in Platforms /\ flag \in Asked /\ seams \in Seams
  /\ lo \in Begins /\ hi \in Ends /\ lo <= hi
  /\ prot \in [Page -> (SUBSET Flag) \cup {Unmapped}]
  /\ pc \in {"walk", "done"}
  /\ addr \in lo .. PageCount * PageSize
  /\ found \in BOOLEAN
  /\ next \in 0 .. PageCount * PageSize
  /\ answer \in BOOLEAN
  /\ had \subseteq Page /\ lacked \subseteq Page
  /\ holes \subseteq Page /\ changed \subseteq Page
  /\ changes \in 0 .. MaxChanges

\* "Returns whether the entirety of a given memory region is readable": if the
\* answer is yes, every page of the region was so at some time during the call,
\* whatever other threads did meanwhile.
YesMeansAll == pc = "done" /\ answer => Touched \subseteq had

\* What holds on all three systems: no page that was mapped throughout is passed
\* over, and only on macOS may one that was not.
YesMeansFlagged ==
  pc = "done" /\ answer =>
    \A p \in Touched : p \in had \/ (platform = "mac" /\ p \in holes)

\* If the answer is no, some page of the region was not so at some time, unless
\* the region is empty or, on Linux, was changed while it was being walked.
NoMeansSome ==
  pc = "done" /\ ~ answer =>
    \/ Touched \cap lacked # {}
    \/ platform = "linux" /\ (lo = hi \/ Touched \cap changed # {})

\* However the address space changes meanwhile, the walk ends.
Answers == <>(pc = "done")
=============================================================================
