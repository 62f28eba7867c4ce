--------------------------- MODULE MemoryProtector ---------------------------
(***************************************************************************)
(* hat::memory_protector: an object that changes the protection of a range *)
(* when it is constructed and changes it back when it is destroyed.  On    *)
(* Linux and macOS the constructor first asks for the protection of the    *)
(* page at the address and then changes the range, in two system calls;    *)
(* Windows does both in one.  One value stands for the protection of the   *)
(* whole range.                                                            *)
(*                                                                         *)
(* The objects belong to one thread that uses them as a stack, to several  *)
(* threads whose ranges share no page or that destroy those on a page last *)
(* in first out, or are used freely.                                       *)
(***************************************************************************)
EXTENDS AddressSpace, Sequences

CONSTANTS
  Guards,       \* the objects
  Flags,        \* the protections asked for
  Sizes,        \* the sizes of the ranges
  Disciplines   \* among "nested", "disjoint", "lifo", "free"

Address == 0 .. PageCount * PageSize - 1

\* The protection a failed query leaves in oldProtection.
NoProtection == {}

\* The last page is never mapped.
ASSUME MemoryProtectorAssumption ==
  /\ Flags \subseteq SUBSET Flag
  /\ Sizes \subseteq Nat
  /\ Disciplines \subseteq {"nested", "disjoint", "lifo", "free"}
  /\ \A layout \in Layouts : layout[PageCount - 1] = Unmapped

VARIABLES
  discipline, initial,   \* how the objects are used, and what the pages had at first
  guard,   \* the objects
  order    \* the objects that have been set, in that order

vars == <<platform, discipline, initial, prot, guard, order>>

-----------------------------------------------------------------------------
(* What a system call changes, and to what *)

\* Windows has no protection that allows to write and not to read.
ToSystemProt(flags) == IF "w" \in flags THEN flags \cup {"r"} ELSE flags

FastAlignDown(a) == a - (a % PageSize)
FastAlignUp(a) == FastAlignDown(a + PageSize - 1)

\* The pages of the range the caller named.
Named(a, size) == PagesOf(a, a + size)

\* The pages the library passes: on Linux it rounds the address down and the
\* size up, elsewhere the system rounds the two ends of the range.
Passed(a, size) ==
  IF platform = "linux"
  THEN PagesOf(FastAlignDown(a), FastAlignDown(a) + FastAlignUp(size))
  ELSE Named(a, size)

Mapped(pages) == \A p \in pages : prot[p] # Unmapped

\* The system calls.  mprotect works through the range until it meets a hole;
\* the others check the range first.
Changed(pages, to) ==
  LET reached == IF platform = "linux"
                 THEN {p \in pages : Mapped({q \in pages : q <= p})}
                 ELSE IF Mapped(pages) THEN pages ELSE {}
  IN [p \in Page |-> IF p \in reached THEN to ELSE prot[p]]

\* VirtualProtect refuses an empty range.
Succeeds(a, size) == Mapped(Passed(a, size)) /\ (platform = "win32" => size > 0)

\* get_page_prot: on macOS mach_vm_region answers for the next region when
\* there is none at the address.
Found(a) ==
  IF platform = "mac"
  THEN {p \in Page : p >= PageOf(a) /\ prot[p] # Unmapped
                     /\ \A q \in PageOf(a) .. p - 1 : prot[q] = Unmapped}
  ELSE {PageOf(a)} \ {p \in Page : prot[p] = Unmapped}

-----------------------------------------------------------------------------
Unused == [state |-> "unused", address |-> 0, size |-> 0, flags |-> NoProtection,
           old |-> NoProtection, set |-> FALSE]

Pages(g) == Passed(guard[g].address, guard[g].size)

\* The places in order of the objects that are still set.
Set == {k \in DOMAIN order : guard[order[k]].set}

\* The places of those whose change covers page p.
Over(p) == {k \in Set : p \in Pages(order[k])}

Holding == {g \in Guards : guard[g].set \/ guard[g].state = "constructing"}

\* Where the discipline lets an object be constructed: with the pages it
\* changes in one region, or on a hole, where construction fails.
Allowed(a, size) ==
  \/ discipline = "free"
  \/ /\ \/ prot[PageOf(a)] = Unmapped
        \/ \A p \in Passed(a, size) : prot[p] = prot[PageOf(a)]
     /\ discipline = "nested" => \A g \in Guards : guard[g].state # "constructing"
     /\ discipline = "disjoint" =>
          \A g \in Holding : Pages(g) \cap Passed(a, size) = {}

\* Where the discipline lets an object be destroyed.
InTurn(g) ==
  /\ discipline = "nested" =>
       /\ \A h \in Guards : guard[h].state # "constructing"
       /\ guard[g].set => g = order[Max(Set)]
  /\ discipline = "lifo" /\ guard[g].set => \A p \in Pages(g) : g = order[Max(Over(p))]

Init ==
  /\ platform \in Platforms
  /\ discipline \in Disciplines
  /\ initial \in Layouts
  /\ prot = initial
  /\ guard = [g \in Guards |-> Unused]
  /\ order = <<>>

\* The constructor up to the answer of get_page_prot.
Query(g, a, size, flags) ==
  /\ platform \in {"linux", "mac"}
  /\ guard[g].state = "unused"
  /\ Allowed(a, size)
  /\ guard' = [guard EXCEPT ![g] =
       [state |-> IF Found(a) = {} THEN "alive" ELSE "constructing",
        address |-> a, size |-> size, flags |-> flags,
        old |-> IF Found(a) = {} THEN NoProtection
                ELSE prot[CHOOSE p \in Found(a) : TRUE],
        set |-> FALSE]]
  /\ UNCHANGED <<platform, discipline, initial, prot, order>>

\* The call that changes the protection, and its outcome.
Protect(g) ==
  /\ guard[g].state = "constructing"
  /\ prot' = Changed(Pages(g), guard[g].flags)
  /\ LET ok == Succeeds(guard[g].address, guard[g].size)
     IN /\ guard' = [guard EXCEPT ![g].state = "alive", ![g].set = ok]
        /\ order' = IF ok THEN Append(order, g) ELSE order
  /\ UNCHANGED <<platform, discipline, initial>>

\* VirtualProtect returns the protection of the first page it changes.
VirtualProtect(g, a, size, flags) ==
  /\ platform = "win32"
  /\ guard[g].state = "unused"
  /\ Allowed(a, size)
  /\ LET ok == Succeeds(a, size)
         to == ToSystemProt(flags)
     IN /\ prot' = IF ok THEN Changed(Passed(a, size), to) ELSE prot
        /\ guard' = [guard EXCEPT ![g] =
             [state |-> "alive", address |-> a, size |-> size, flags |-> to,
              old |-> IF ok THEN prot[PageOf(a)] ELSE NoProtection, set |-> ok]]
        /\ order' = IF ok THEN Append(order, g) ELSE order
  /\ UNCHANGED <<platform, discipline, initial>>

\* Slip: the object moved from stays set.
MoveKeepsSet(g, h) ==
  /\ guard[g].state = "alive"
  /\ guard[h].state = "unused"
  /\ guard' = [guard EXCEPT ![h] = guard[g]]
  /\ order' = [k \in DOMAIN order |-> IF order[k] = g THEN h ELSE order[k]]
  /\ UNCHANGED <<platform, discipline, initial, prot>>

\* The move constructor: h takes over what g has to restore.
Move(g, h) ==
  /\ guard[g].state = "alive"
  /\ guard[h].state = "unused"
  /\ guard' = [guard EXCEPT ![h] = guard[g], ![g].set = FALSE]
  /\ order' = [k \in DOMAIN order |-> IF order[k] = g THEN h ELSE order[k]]
  /\ UNCHANGED <<platform, discipline, initial, prot>>

\* Slip: nothing is restored.
DestroyOnly(g) ==
  /\ guard[g].state = "alive"
  /\ InTurn(g)
  /\ guard' = [guard EXCEPT ![g] = [Unused EXCEPT !.state = "gone"]]
  /\ UNCHANGED <<platform, discipline, initial, prot, order>>

\* The destructor, with restore.
Destroy(g) ==
  /\ guard[g].state = "alive"
  /\ InTurn(g)
  /\ guard' = [guard EXCEPT ![g] = [Unused EXCEPT !.state = "gone"]]
  /\ IF guard[g].set
     THEN prot' = Changed(Pages(g), guard[g].old)
     ELSE UNCHANGED prot
  /\ UNCHANGED <<platform, discipline, initial, order>>

Next ==
  \E g \in Guards :
    \/ \E a \in Address, size \in Sizes, f \in Flags :
         Query(g, a, size, f) \/ VirtualProtect(g, a, size, f)
    \/ Protect(g)
    \/ \E h \in Guards : Move(g, h)
    \/ Destroy(g)

Spec == Init /\ [][Next]_vars

-----------------------------------------------------------------------------
Guard == [state : {"unused", "constructing", "alive", "gone"}, address : Address,
          size : Sizes \cup {0}, flags : SUBSET Flag, old : SUBSET Flag,
          set : BOOLEAN]

TypeOK ==
  /\ platform \in Platforms /\ discipline \in Disciplines /\ initial \in Layouts
  /\ prot \in [Page -> (SUBSET Flag) \cup {Unmapped}]
  /\ guard \in [Guards -> Guard]
  /\ order \in Seq(Guards)

\* What the newest of some objects over page p asked for; what the page had at first, if
\* there is none.
Asks(p, places) == IF places = {} THEN initial[p] ELSE guard[order[Max(places)]].flags

\* The uses that may count on what an object restores: between the query and the change
\* of an object nobody else changes its pages, or there is no between.
Orderly == discipline # "free" /\ (discipline = "lifo" => platform = "win32")

\* The objects on a page form a stack, however calls of several threads
\* interleave and however often the objects are moved: the page has what the
\* newest asked for, each will put back what the one below it asked for, and
\* the oldest what the page had at first.
Layered ==
  Orderly =>
    \A p \in Page :
      /\ prot[p] = Asks(p, Over(p))
      /\ \A k \in Over(p) : guard[order[k]].old = Asks(p, {j \in Over(p) : j < k})

Idle == \A g \in Guards : ~ guard[g].set /\ guard[g].state # "constructing"

\* Once no object is left, disciplined use has left no page changed, failed
\* constructions included.
DisciplinedRestores == Orderly /\ Idle => prot = initial

\* is_set(): "Returns true if the memory protect operation was successful".
\* As long as the object set last is set, its range has the flags asked for.
SetMeansProtected ==
  Set # {} =>
    LET g == guard[order[Max(Set)]]
    IN \A p \in Named(g.address, g.size) : prot[p] \in {g.flags, Unmapped}
=============================================================================
