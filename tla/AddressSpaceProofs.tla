-------------------------- MODULE AddressSpaceProofs --------------------------
(***************************************************************************)
(* Two components that deal with the protection of pages: memory_protector *)
(* (module MemoryProtector), whose objects put every page back to what it  *)
(* had when they are used as their discipline has it, and the queries of   *)
(* hat::process (module RegionQuery), whose yes and no hold of the pages   *)
(* whatever other threads do to them meanwhile.                            *)
(***************************************************************************)
EXTENDS MemoryProtector, RegionQuery, SequenceTheorems, WellFoundedInduction,
        NaturalsInduction, TLAPS

-----------------------------------------------------------------------------
(* Numbers *)

\* Products keep the order.
LEMMA TimesOrder ==
  ASSUME NEW d \in Nat \ {0}, NEW j \in Int, NEW k \in Int
  PROVE  /\ j * d \in Int
         /\ j <= k <=> j * d <= k * d
         /\ j < k <=> j * d < k * d
  OBVIOUS

\* A number lies in the block its quotient names, and in no other.
LEMMA Quotient ==
  ASSUME NEW d \in Nat \ {0}, NEW n \in Nat
  PROVE  /\ n \div d \in Nat
         /\ (n \div d) * d <= n /\ n < ((n \div d) + 1) * d
  OBVIOUS

\* A nonempty set of natural numbers has a least element.
LEMMA LeastElement ==
  ASSUME NEW T \in SUBSET Nat, T # {}
  PROVE  \E x \in T : \A y \in T : x <= y
  <1> DEFINE Less == {pair \in Nat \X Nat : pair[1] < pair[2]}
  <1>1. IsWellFoundedOn(Less, Nat)
    BY NatLessThanWellFounded, Zenon DEF OpToRel
  <1> HIDE DEF Less
  <1>2. PICK x \in T : \A y \in T : ~ (<<y, x>> \in Less)
    BY <1>1, WFMin, Zenon
  <1>3. ASSUME NEW y \in T PROVE x <= y
    <2>1. ~ (<<y, x>> \in Less)  BY <1>2
    <2>2. <<y, x>> \in Nat \X Nat  OBVIOUS
    <2>3. ~ (y < x)  BY <2>1, <2>2 DEF Less
    <2> QED  BY <2>3
  <1> QED  BY <1>3

\* A nonempty set of integers with an upper bound has a greatest element, and one with a
\* lower bound of 0 a least one; Max and Min are those.
LEMMA MaxFacts ==
  ASSUME NEW n \in Nat, NEW T \in SUBSET (0 .. n), T # {}
  PROVE  Max(T) \in T /\ \A y \in T : y <= Max(T)
  <1> DEFINE Bounds == {m \in Nat : \A y \in T : y <= m}
  <1>1. n \in Bounds /\ Bounds \subseteq Nat  OBVIOUS
  <1>2. PICK m \in Bounds : \A y \in Bounds : m <= y  BY <1>1, LeastElement
  <1>3. m \in T
    <2>1. SUFFICES ASSUME m \notin T PROVE FALSE  OBVIOUS
    <2>2. PICK y \in T : TRUE  OBVIOUS
    <2>3. \A z \in T : z <= m - 1  BY <1>2, <2>1
    <2>4. m - 1 \in Nat  BY <2>2, <2>3, <1>2
    <2> QED  BY <1>2, <2>3, <2>4
  <1> QED  BY <1>2, <1>3 DEF Max

LEMMA MinFacts ==
  ASSUME NEW T \in SUBSET Nat, T # {}
  PROVE  Min(T) \in T /\ \A y \in T : Min(T) <= y
  BY LeastElement DEF Min

LEMMA MaxIs ==
  ASSUME NEW T \in SUBSET Int, NEW k \in T, \A y \in T : y <= k
  PROVE  Max(T) = k
  <1>1. \E x \in T : \A y \in T : x >= y  OBVIOUS
  <1>2. PICK m : m = Max(T)  OBVIOUS
  <1>3. m \in T /\ \A y \in T : m >= y  BY <1>1, <1>2 DEF Max
  <1>4. m \in Int /\ k \in Int /\ m >= k /\ m <= k  BY <1>3
  <1>5. m = k  BY <1>4
  <1> QED  BY <1>2, <1>5

-----------------------------------------------------------------------------
(* Pages and what the system calls do to them *)

LEMMA PageFacts ==
  ASSUME NEW a \in Address
  PROVE  PageOf(a) \in Page /\ a \in Nat
  <1>1. a \in Nat /\ a < PageCount * PageSize  BY AddressSpaceAssumption DEF Address
  <1>2. PageOf(a) \in Nat /\ PageOf(a) * PageSize <= a
    BY <1>1, AddressSpaceAssumption, Quotient DEF PageOf
  <1>3. PageOf(a) * PageSize < PageCount * PageSize
    BY <1>1, <1>2, AddressSpaceAssumption
  <1>4. PageOf(a) < PageCount  BY <1>2, <1>3, AddressSpaceAssumption, TimesOrder
  <1> QED  BY <1>1, <1>2, <1>4, AddressSpaceAssumption DEF Page

\* A range that is not empty lies on the page of its first byte.
LEMMA FirstPage ==
  ASSUME NEW a \in Address, NEW size \in Nat, size > 0
  PROVE  PageOf(a) \in Named(a, size)
  <1>1. PageOf(a) \in Page /\ a \in Nat  BY PageFacts
  <1>2. PageOf(a) * PageSize <= a /\ a < (PageOf(a) + 1) * PageSize
    BY <1>1, AddressSpaceAssumption, Quotient DEF PageOf
  <1>3. PageOf(a) * PageSize \in Int  BY <1>1, AddressSpaceAssumption, TimesOrder DEF Page
  <1>4. PageOf(a) * PageSize < a + size /\ a < a + size  BY <1>1, <1>2, <1>3
  <1> QED  BY <1>1, <1>2, <1>4 DEF Named, PagesOf

LEMMA EmptyRange ==
  ASSUME NEW a \in Address
  PROVE  Named(a, 0) = {}
  BY PageFacts DEF Named, PagesOf

LEMMA PassedPages ==
  ASSUME NEW a, NEW size
  PROVE  Passed(a, size) \subseteq Page
  BY DEF Passed, Named, PagesOf

LEMMA FlagsMapped == ~ (Unmapped \subseteq Flag)
  BY DEF Unmapped, Flag

LEMMA ChangedFacts ==
  ASSUME NEW pages \in SUBSET Page, NEW to \in SUBSET Flag,
         prot \in [Page -> (SUBSET Flag) \cup {Unmapped}]
  PROVE  /\ Changed(pages, to) \in [Page -> (SUBSET Flag) \cup {Unmapped}]
         /\ \A p \in Page : Changed(pages, to)[p] = Unmapped <=> prot[p] = Unmapped
         /\ \A p \in Page \ pages : Changed(pages, to)[p] = prot[p]
         /\ Mapped(pages) => \A p \in pages : Changed(pages, to)[p] = to
         /\ platform # "linux" /\ ~Mapped(pages) => Changed(pages, to) = prot
  <1> DEFINE reached == IF platform = "linux"
                        THEN {p \in pages : Mapped({q \in pages : q <= p})}
                        ELSE IF Mapped(pages) THEN pages ELSE {}
  <1>1. Changed(pages, to) = [p \in Page |-> IF p \in reached THEN to ELSE prot[p]]
    BY DEF Changed
  <1>2. reached \subseteq pages  OBVIOUS
  <1>3. \A p \in reached : prot[p] # Unmapped
    <2>1. CASE platform = "linux"
      <3>1. ASSUME NEW p \in reached PROVE prot[p] # Unmapped
        <4>1. p \in pages /\ Mapped({q \in pages : q <= p})  BY <2>1, <3>1
        <4>2. p \in {q \in pages : q <= p}
          <5>1. p \in Int  BY <4>1, AddressSpaceAssumption DEF Page
          <5> QED  BY <4>1, <5>1
        <4> QED  BY <4>1, <4>2 DEF Mapped
      <3> QED  BY <3>1
    <2>2. CASE platform # "linux"  BY <2>2 DEF Mapped
    <2> QED  BY <2>1, <2>2
  <1>4. Mapped(pages) => reached = pages
    <2>1. Mapped(pages) => \A p : Mapped({q \in pages : q <= p})  BY DEF Mapped
    <2> QED  BY <2>1
  <1>5. platform # "linux" /\ ~Mapped(pages) => reached = {}  OBVIOUS
  <1> HIDE DEF reached
  <1>6. to # Unmapped  BY FlagsMapped
  <1>7. \A p \in Page : Changed(pages, to)[p] = IF p \in reached THEN to ELSE prot[p]
    BY <1>1
  <1>8. Changed(pages, to) \in [Page -> (SUBSET Flag) \cup {Unmapped}]  BY <1>1
  <1>9. reached = {} => Changed(pages, to) = prot  BY <1>1
  <1> QED  BY <1>2, <1>3, <1>4, <1>5, <1>6, <1>7, <1>8, <1>9

\* What the query finds is a mapped page.
LEMMA FoundFacts ==
  ASSUME NEW a \in Address
  PROVE  /\ \A p \in Found(a) : p \in Page /\ prot[p] # Unmapped
         /\ prot[PageOf(a)] # Unmapped => Found(a) = {PageOf(a)}
         /\ platform # "mac" /\ prot[PageOf(a)] = Unmapped => Found(a) = {}
  <1>1. PageOf(a) \in Page  BY PageFacts
  <1>2. CASE platform # "mac"  BY <1>1, <1>2 DEF Found
  <1>3. CASE platform = "mac"
    <2>1. Page \subseteq Int  BY AddressSpaceAssumption DEF Page
    <2>2. ASSUME prot[PageOf(a)] # Unmapped PROVE Found(a) = {PageOf(a)}
      <3>1. PageOf(a) \in Found(a)
        <4>1. \A n \in Int : n .. n - 1 = {} /\ n >= n  OBVIOUS
        <4> QED  BY <1>1, <1>3, <2>1, <2>2, <4>1 DEF Found
      <3>2. ASSUME NEW p \in Found(a) PROVE p = PageOf(a)
        <4>1. p \in Page /\ p >= PageOf(a) /\ \A q \in PageOf(a) .. p - 1 : prot[q] = Unmapped
          BY <1>3 DEF Found
        <4>2. \A n, m \in Int : m >= n /\ m # n => n \in n .. m - 1  OBVIOUS
        <4>3. p # PageOf(a) => PageOf(a) \in PageOf(a) .. p - 1  BY <1>1, <2>1, <4>1, <4>2
        <4> QED  BY <2>2, <4>1, <4>3
      <3> QED  BY <3>1, <3>2
    <2> QED  BY <1>3, <2>2 DEF Found
  <1> QED  BY <1>2, <1>3

-----------------------------------------------------------------------------
(* memory_protector: the invariant *)

\* The objects in order are those that are set, and some that are gone.
Linked ==
  /\ \A j, k \in DOMAIN order : order[j] = order[k] => j = k
  /\ \A k \in DOMAIN order : guard[order[k]].set \/ guard[order[k]].state = "gone"
  /\ \A g \in Guards : guard[g].set => guard[g].state = "alive" /\ \E k \in DOMAIN order : order[k] = g

\* What disciplines mean for objects that hold pages.
Disciplined ==
  /\ discipline = "disjoint" =>
       \A g, h \in Holding : g # h => Pages(g) \cap Pages(h) = {}
  /\ discipline = "nested" =>
       \A g, h \in Guards :
         guard[g].state = "constructing" /\ guard[h].state = "constructing" => g = h

\* Between the query and the change, the pages have what the query said, unless macOS
\* spoke of a region behind a hole.
Ready(g) ==
  \/ \A p \in Pages(g) : prot[p] = guard[g].old
  \/ platform = "mac" /\ \E p \in Pages(g) : prot[p] = Unmapped

Waiting ==
  \A g \in Guards : guard[g].state = "constructing" =>
    platform # "win32" /\ (Orderly => Ready(g))

IInv == TypeOK /\ Linked /\ Disciplined /\ Waiting /\ Layered

-----------------------------------------------------------------------------
(* memory_protector: the order and the stack on a page *)

LEMMA OrderFacts ==
  ASSUME TypeOK
  PROVE  /\ Len(order) \in Nat /\ DOMAIN order = 1 .. Len(order)
         /\ \A k \in DOMAIN order : order[k] \in Guards
         /\ Set \subseteq 0 .. Len(order) /\ \A p : Over(p) \subseteq Set
  <1>1. order \in Seq(Guards)  BY DEF TypeOK
  <1>2. Len(order) \in Nat /\ DOMAIN order = 1 .. Len(order)
        /\ \A k \in 1 .. Len(order) : order[k] \in Guards
    BY <1>1, LenProperties, ElementOfSeq
  <1> QED  BY <1>2 DEF Set, Over

LEMMA PassedSame ==
  ASSUME UNCHANGED platform
  PROVE  \A a, size : Passed(a, size)' = Passed(a, size)
  BY DEF Passed, Named, PagesOf

\* An object is in order once.
LEMMA PlaceOf ==
  ASSUME Linked, NEW g \in Guards, guard[g].set
  PROVE  \E k \in Set : order[k] = g /\ \A j \in DOMAIN order : order[j] = g => j = k
  BY DEF Linked, Set

\* The two parts of Layered, of one page.
Stacked(p) ==
  /\ prot[p] = Asks(p, Over(p))
  /\ \A k \in Over(p) : guard[order[k]].old = Asks(p, {j \in Over(p) : j < k})

\* What some objects ask for is the same as long as they and their order are.
LEMMA AsksSame ==
  ASSUME NEW n \in Nat, NEW T \in SUBSET (0 .. n), NEW p, UNCHANGED initial,
         \A k \in T : guard'[order'[k]].flags = guard[order[k]].flags
  PROVE  (IF T = {} THEN initial[p] ELSE guard[order[Max(T)]].flags)'
           = IF T = {} THEN initial[p] ELSE guard[order[Max(T)]].flags
  <1>1. CASE T = {}  BY <1>1
  <1>2. CASE T # {}
    <2>1. Max(T) \in T  BY <1>2, MaxFacts
    <2> QED  BY <1>2, <2>1
  <1> QED  BY <1>1, <1>2

\* A page no change covers keeps its stack.
LEMMA StackedStill ==
  ASSUME TypeOK, NEW p, Stacked(p), UNCHANGED initial, Over(p)' = Over(p), prot'[p] = prot[p],
         \A k \in Over(p) : /\ guard'[order'[k]].flags = guard[order[k]].flags
                            /\ guard'[order'[k]].old = guard[order[k]].old
  PROVE  Stacked(p)'
  <1>1. PICK n : n = Len(order)  OBVIOUS
  <1>2. n \in Nat /\ Over(p) \subseteq 0 .. n  BY <1>1, OrderFacts
  <1>3. Asks(p, Over(p))' = Asks(p, Over(p))
    <2>1. PICK T : T = Over(p)  OBVIOUS
    <2>2. (IF T = {} THEN initial[p] ELSE guard[order[Max(T)]].flags)'
            = IF T = {} THEN initial[p] ELSE guard[order[Max(T)]].flags
      BY <1>2, <2>1, AsksSame
    <2> QED  BY <2>1, <2>2 DEF Asks
  <1>4. ASSUME NEW k \in Over(p)
        PROVE  Asks(p, {j \in Over(p) : j < k})' = Asks(p, {j \in Over(p) : j < k})
    <2>1. PICK T : T = {j \in Over(p) : j < k}  OBVIOUS
    <2>2. (IF T = {} THEN initial[p] ELSE guard[order[Max(T)]].flags)'
            = IF T = {} THEN initial[p] ELSE guard[order[Max(T)]].flags
      BY <1>2, <2>1, AsksSame
    <2>3. {j \in Over(p) : j < k}' = T  BY <2>1
    <2> QED  BY <2>1, <2>2, <2>3 DEF Asks
  <1> QED  BY <1>3, <1>4 DEF Stacked

\* An object that becomes set goes on top of the stack of each of its pages.
LEMMA Sets ==
  ASSUME TypeOK, Linked, NEW g \in Guards, NEW d \in Guard, d.set, d.state = "alive",
         guard' = [guard EXCEPT ![g] = d], order' = Append(order, g),
         \A k \in DOMAIN order : order[k] # g,
         UNCHANGED <<platform, discipline, initial>>,
         \A p \in Page \ Passed(d.address, d.size) : prot'[p] = prot[p],
         \A p \in Passed(d.address, d.size) : prot'[p] = d.flags,
         Orderly => \A p \in Passed(d.address, d.size) : d.old = prot[p]
  PROVE  /\ Linked' /\ order' \in Seq(Guards)
         /\ Layered => Layered'
  <1>0. PICK n : n = Len(order)  OBVIOUS
  <1>1. /\ n \in Nat /\ DOMAIN order = 1 .. n /\ \A k \in 1 .. n : order[k] \in Guards
        /\ Set \subseteq 0 .. n /\ \A p : Over(p) \subseteq Set
    BY <1>0, OrderFacts
  <1>2. /\ order' \in Seq(Guards) /\ DOMAIN order' = 1 .. n + 1
        /\ \A k \in 1 .. n : order'[k] = order[k]
        /\ order'[n + 1] = g
    <2>1. PICK a, b : a = order /\ b = order' /\ a \in Seq(Guards) /\ b = Append(a, g)
      BY DEF TypeOK
    <2>2. /\ b \in Seq(Guards) /\ Len(b) = Len(a) + 1
          /\ \A k \in 1 .. Len(a) : b[k] = a[k]
          /\ b[Len(a) + 1] = g
      BY <2>1, AppendProperties
    <2>3. DOMAIN b = 1 .. Len(a) + 1  BY <2>1, <2>2, LenProperties
    <2> QED  BY <1>0, <2>1, <2>2, <2>3
  <1>3. \A k \in 1 .. n + 1 : k \in 1 .. n \/ k = n + 1  BY <1>1
  <1>4. 1 .. n \subseteq 1 .. n + 1 /\ n + 1 \in 1 .. n + 1 /\ n + 1 \notin 1 .. n  BY <1>1
  <1>5. guard \in [Guards -> Guard]  BY DEF TypeOK
  <1>6. guard'[g] = d /\ \A h \in Guards \ {g} : guard'[h] = guard[h]  BY <1>5
  <1>7. \A k \in 1 .. n : order[k] # g /\ guard'[order'[k]] = guard[order[k]]
    BY <1>1, <1>2, <1>6
  <1>8. Linked'
    <2>1. \A j, k \in DOMAIN order' : order'[j] = order'[k] => j = k
      BY <1>1, <1>2, <1>3, <1>7 DEF Linked
    <2>2. \A k \in DOMAIN order' : guard'[order'[k]].set \/ guard'[order'[k]].state = "gone"
      BY <1>1, <1>2, <1>3, <1>6, <1>7 DEF Linked
    <2>3. ASSUME NEW h \in Guards, guard'[h].set
          PROVE  guard'[h].state = "alive" /\ \E k \in DOMAIN order' : order'[k] = h
      <3>1. CASE h = g  BY <1>2, <1>4, <1>6, <3>1
      <3>2. CASE h # g
        <4>1. guard[h].state = "alive" /\ \E k \in 1 .. n : order[k] = h
          BY <1>1, <1>6, <2>3, <3>2 DEF Linked
        <4> QED  BY <1>2, <1>4, <1>6, <3>2, <4>1
      <3> QED  BY <3>1, <3>2
    <2> QED  BY <2>1, <2>2, <2>3 DEF Linked
  <1>9. Set' = Set \cup {n + 1}
    <2>1. Set' = {k \in 1 .. n + 1 : guard'[order'[k]].set}  BY <1>2 DEF Set
    <2>2. Set = {k \in 1 .. n : guard[order[k]].set}  BY <1>1 DEF Set
    <2> QED  BY <1>2, <1>3, <1>4, <1>6, <1>7, <2>1, <2>2
  <1>10. /\ \A k \in 1 .. n : Pages(order[k])' = Pages(order[k])
         /\ Pages(order[n + 1])' = Passed(d.address, d.size)
    <2>1. \A k \in 1 .. n + 1 : Pages(order[k])' = Passed(guard'[order'[k]].address, guard'[order'[k]].size)
      BY PassedSame DEF Pages
    <2>2. \A k \in 1 .. n : Passed(guard'[order'[k]].address, guard'[order'[k]].size) = Pages(order[k])
      BY <1>7 DEF Pages
    <2> QED  BY <1>2, <1>4, <1>6, <2>1, <2>2
  <1>11. \A p : Over(p)' = Over(p) \cup (IF p \in Passed(d.address, d.size) THEN {n + 1} ELSE {})
    <2>1. \A p : Over(p)' = {k \in Set' : p \in Pages(order[k])'}  BY DEF Over
    <2>2. \A p : Over(p) = {k \in Set : p \in Pages(order[k])}  BY DEF Over
    <2>3. Set \subseteq 1 .. n  BY <1>1 DEF Set
    <2> QED  BY <1>9, <1>10, <2>1, <2>2, <2>3, ZenonT(60)
  <1>12. ASSUME NEW p \in Page, Stacked(p), Orderly PROVE Stacked(p)'
    <2>1. Over(p) \subseteq 1 .. n  BY <1>1 DEF Set
    <2>2. CASE p \notin Passed(d.address, d.size)
      <3>1. Over(p)' = Over(p)  BY <1>11, <2>2
      <3> QED  BY <1>7, <1>12, <2>1, <2>2, <3>1, StackedStill
    <2>3. CASE p \in Passed(d.address, d.size)
      <3>1. PICK T : T = Over(p)  OBVIOUS
      <3>2. Over(p)' = T \cup {n + 1} /\ T \subseteq 1 .. n  BY <1>11, <2>1, <2>3, <3>1
      <3>3. ASSUME NEW U \in SUBSET T PROVE Asks(p, U) = IF U = {} THEN initial'[p] ELSE guard'[order'[Max(U)]].flags
        <4>1. U # {} => Max(U) \in U
          <5>1. U \subseteq 0 .. n  BY <1>1, <3>2
          <5> QED  BY <1>1, <5>1, MaxFacts
        <4> QED  BY <1>7, <3>2, <4>1 DEF Asks
      <3>4. Max(T \cup {n + 1}) = n + 1
        <4>1. \A y \in T \cup {n + 1} : y \in Int /\ y <= n + 1  BY <1>1, <3>2
        <4>2. T \cup {n + 1} \in SUBSET Int /\ n + 1 \in T \cup {n + 1}  BY <4>1
        <4> QED  BY <4>1, <4>2, MaxIs
      <3>5. prot'[p] = Asks(p, Over(p))'
        <4>1. Over(p)' # {} /\ Max(Over(p)') = n + 1  BY <3>2, <3>4
        <4>2. prot'[p] = guard'[order'[n + 1]].flags  BY <1>2, <1>6, <2>3
        <4> QED  BY <4>1, <4>2 DEF Asks
      <3>6. ASSUME NEW k \in T
            PROVE  guard'[order'[k]].old = Asks(p, {j \in Over(p) : j < k})'
        <4>1. {j \in Over(p)' : j < k} = {j \in T : j < k}
          <5>1. ~(n + 1 < k)  BY <1>1, <3>2
          <5> QED  BY <3>2, <5>1
        <4>2. guard[order[k]].old = Asks(p, {j \in T : j < k})  BY <1>12, <3>1 DEF Stacked
        <4>3. guard'[order'[k]].old = guard[order[k]].old  BY <1>7, <3>2
        <4> QED  BY <3>3, <4>1, <4>2, <4>3 DEF Asks
      <3>7. guard'[order'[n + 1]].old = Asks(p, {j \in Over(p) : j < n + 1})'
        <4>1. {j \in Over(p)' : j < n + 1} = T
          <5>1. ~(n + 1 < n + 1) /\ \A j \in T : j < n + 1  BY <1>1, <3>2
          <5> QED  BY <3>2, <5>1
        <4>2. guard'[order'[n + 1]].old = prot[p]  BY <1>2, <1>6, <1>12, <2>3
        <4>3. prot[p] = Asks(p, T)  BY <1>12, <3>1 DEF Stacked
        <4> QED  BY <3>3, <4>1, <4>2, <4>3 DEF Asks
      <3> QED  BY <3>2, <3>5, <3>6, <3>7 DEF Stacked
    <2> QED  BY <2>2, <2>3
  <1>13. Layered => Layered'  BY <1>12 DEF Layered, Stacked, Orderly
  <1> QED  BY <1>2, <1>8, <1>13

\* An object that puts its pages back is on top of the stack of each, ...
LEMMA Unsets ==
  ASSUME TypeOK, Linked, Disciplined, NEW g \in Guards, guard[g].set,
         discipline = "nested" => g = order[Max(Set)],
         discipline = "lifo" => \A p \in Pages(g) : g = order[Max(Over(p))],
         NEW d, d.set = FALSE, d.state = "gone", guard' = [guard EXCEPT ![g] = d],
         UNCHANGED <<platform, discipline, initial, order>>,
         \A p \in Page \ Pages(g) : prot'[p] = prot[p],
         Orderly => \A p \in Pages(g) : prot'[p] = guard[g].old
  PROVE  Linked' /\ (Layered => Layered')
  <1>0. PICK n : n = Len(order)  OBVIOUS
  <1>1. /\ n \in Nat /\ DOMAIN order = 1 .. n /\ \A k \in 1 .. n : order[k] \in Guards
        /\ Set \subseteq 0 .. n /\ \A p : Over(p) \subseteq Set
    BY <1>0, OrderFacts
  <1>2. guard \in [Guards -> Guard]  BY DEF TypeOK
  <1>3. guard'[g] = d /\ \A h \in Guards \ {g} : guard'[h] = guard[h]  BY <1>2
  <1>4. PICK m \in Set : order[m] = g /\ \A j \in 1 .. n : order[j] = g => j = m
    BY <1>1, PlaceOf
  <1>5. \A k \in 1 .. n : k # m => order[k] # g /\ guard'[order[k]] = guard[order[k]]
    BY <1>1, <1>3, <1>4
  <1>6. Linked'
    <2>1. \A j, k \in DOMAIN order : order[j] = order[k] => j = k  BY DEF Linked
    <2>2. \A k \in DOMAIN order : guard'[order[k]].set \/ guard'[order[k]].state = "gone"
      BY <1>1, <1>3, <1>4, <1>5 DEF Linked
    <2>3. \A h \in Guards : guard'[h].set => guard'[h].state = "alive" /\ \E k \in DOMAIN order : order[k] = h
      BY <1>3 DEF Linked
    <2> QED  BY <2>1, <2>2, <2>3 DEF Linked
  <1>7. Set' = Set \ {m}
    <2>1. Set' = {k \in 1 .. n : guard'[order[k]].set}  BY <1>1 DEF Set
    <2>2. Set = {k \in 1 .. n : guard[order[k]].set}  BY <1>1 DEF Set
    <2>3. m \in 1 .. n /\ ~guard'[order[m]].set  BY <1>3, <1>4, <2>2
    <2> QED  BY <1>5, <2>1, <2>2, <2>3
  <1>8. \A k \in 1 .. n : k # m => Pages(order[k])' = Pages(order[k])
    BY <1>5, PassedSame DEF Pages
  <1>9. \A p : Over(p)' = Over(p) \ {m}
    <2>1. \A p : Over(p)' = {k \in Set' : p \in Pages(order[k])'}  BY DEF Over
    <2>2. \A p : Over(p) = {k \in Set : p \in Pages(order[k])}  BY DEF Over
    <2>3. Set \subseteq 1 .. n  BY <1>1 DEF Set
    <2> QED  BY <1>7, <1>8, <2>1, <2>2, <2>3
  <1>10. ASSUME NEW p \in Page, Stacked(p), Orderly PROVE Stacked(p)'
    <2>1. Over(p) \subseteq 1 .. n  BY <1>1 DEF Set
    <2>2. CASE p \notin Pages(g)
      <3>1. m \notin Over(p)  BY <1>4, <2>2 DEF Over
      <3>2. Over(p)' = Over(p) /\ prot'[p] = prot[p]  BY <1>9, <2>2, <3>1
      <3>3. \A k \in Over(p) : guard'[order'[k]] = guard[order[k]]  BY <1>5, <2>1, <3>1
      <3> QED  BY <1>10, <3>2, <3>3, StackedStill
    <2>3. CASE p \in Pages(g)
      <3>1. PICK T, U : T = Over(p) /\ U = {j \in T : j < m}  OBVIOUS
      <3>2. m \in T /\ T \subseteq 1 .. n  BY <1>4, <2>1, <2>3, <3>1 DEF Over
      <3>3. T \ {m} = U
        <4>1. CASE discipline = "nested"
          <5>1. order[Max(Set)] = g /\ Max(Set) \in Set /\ \A y \in Set : y <= Max(Set)
            <6>1. Set # {} /\ Set \in SUBSET (0 .. n)  BY <1>1, <1>4
            <6> QED  BY <1>1, <4>1, <6>1, MaxFacts
          <5>2. Max(Set) \in 1 .. n  BY <1>1, <5>1 DEF Set
          <5>3. Max(Set) = m  BY <1>4, <5>1, <5>2
          <5>4. \A j \in T : j <= m  BY <1>1, <3>1, <5>1, <5>3
          <5>5. \A j \in T : j < m <=> j # m  BY <3>2, <5>4
          <5> QED  BY <3>1, <5>5
        <4>2. CASE discipline = "disjoint"
          <5>1. ASSUME NEW j \in T PROVE j = m
            <6>1. p \in Pages(order[j]) /\ guard[order[j]].set /\ order[j] \in Guards
              BY <1>1, <3>1, <3>2 DEF Over, Set
            <6>2. order[j] \in Holding /\ g \in Holding  BY <6>1 DEF Holding
            <6>3. order[j] = g  BY <2>3, <4>2, <6>1, <6>2 DEF Disciplined
            <6> QED  BY <1>4, <3>2, <6>3
          <5>2. \A j \in T : ~(j < m)  BY <3>2, <5>1
          <5> QED  BY <3>1, <5>1, <5>2
        <4>3. CASE discipline = "lifo"
          <5>1. Max(T) \in T /\ \A y \in T : y <= Max(T)
            <6>1. T # {} /\ T \in SUBSET (0 .. n)  BY <1>1, <3>1, <3>2
            <6> QED  BY <1>1, <6>1, MaxFacts
          <5>2. Max(T) = m  BY <1>4, <2>3, <3>1, <3>2, <4>3, <5>1
          <5>3. \A j \in T : j < m <=> j # m  BY <3>2, <5>1, <5>2
          <5> QED  BY <3>1, <5>3
        <4> QED  BY <1>10, <4>1, <4>2, <4>3, MemoryProtectorAssumption DEF TypeOK, Orderly
      <3>4. Over(p)' = U  BY <1>9, <3>1, <3>3
      <3>5. ASSUME NEW V \in SUBSET U PROVE Asks(p, V) = IF V = {} THEN initial'[p] ELSE guard'[order'[Max(V)]].flags
        <4>1. V # {} => Max(V) \in V
          <5>1. V \subseteq 0 .. n  BY <1>1, <3>1, <3>2
          <5> QED  BY <1>1, <5>1, MaxFacts
        <4>2. \A k \in U : k # m /\ k \in 1 .. n  BY <3>2, <3>3
        <4> QED  BY <1>5, <4>1, <4>2 DEF Asks
      <3>6. prot'[p] = Asks(p, Over(p))'
        <4>1. prot'[p] = guard[order[m]].old  BY <1>4, <1>10, <2>3
        <4>2. guard[order[m]].old = Asks(p, U)  BY <1>10, <3>1, <3>2 DEF Stacked
        <4> QED  BY <3>4, <3>5, <4>1, <4>2 DEF Asks
      <3>7. ASSUME NEW k \in U PROVE guard'[order'[k]].old = Asks(p, {j \in Over(p) : j < k})'
        <4>1. {j \in U : j < k} = {j \in T : j < k}
          <5>1. k < m /\ k \in T /\ k \in Int /\ m \in Int /\ T \subseteq Int  BY <3>1, <3>2
          <5>2. \A j \in T : j < k => j < m  BY <5>1
          <5> QED  BY <3>1, <5>2
        <4>2. guard[order[k]].old = Asks(p, {j \in T : j < k})  BY <1>10, <3>1 DEF Stacked
        <4>3. guard'[order'[k]].old = guard[order[k]].old  BY <1>5, <3>2, <3>3
        <4>4. {j \in Over(p)' : j < k} = {j \in U : j < k}  BY <3>4
        <4> QED  BY <3>5, <4>1, <4>2, <4>3, <4>4 DEF Asks
      <3> QED  BY <3>4, <3>6, <3>7 DEF Stacked
    <2> QED  BY <2>2, <2>3
  <1>11. Layered => Layered'  BY <1>10 DEF Layered, Stacked, Orderly
  <1> QED  BY <1>6, <1>11

\* ... and one that is moved leaves its place in all of them to the object moved to.
LEMMA MovesTo ==
  ASSUME TypeOK, Linked, NEW g \in Guards, NEW h \in Guards, NEW d,
         guard[g].state = "alive", guard[h].state = "unused", d.set = FALSE,
         guard' = [guard EXCEPT ![h] = guard[g], ![g] = d],
         order' = [k \in DOMAIN order |-> IF order[k] = g THEN h ELSE order[k]],
         UNCHANGED <<platform, discipline, initial, prot>>
  PROVE  Linked' /\ order' \in Seq(Guards) /\ (Layered => Layered')
  <1>0. PICK n : n = Len(order)  OBVIOUS
  <1>1. /\ n \in Nat /\ DOMAIN order = 1 .. n /\ \A k \in 1 .. n : order[k] \in Guards
        /\ Set \subseteq 0 .. n /\ \A p : Over(p) \subseteq Set
    BY <1>0, OrderFacts
  <1>2. guard \in [Guards -> Guard]  BY DEF TypeOK
  <1>3. g # h /\ ~guard[h].set /\ \A k \in 1 .. n : order[k] # h  BY <1>1 DEF Linked
  <1>4. /\ guard'[g] = d /\ guard'[h] = guard[g]
        /\ \A x \in Guards \ {g, h} : guard'[x] = guard[x]
    BY <1>2, <1>3
  <1>5. /\ DOMAIN order' = 1 .. n
        /\ \A k \in 1 .. n : order'[k] = IF order[k] = g THEN h ELSE order[k]
    BY <1>1
  <1>6. order' \in Seq(Guards)
    <2>1. order' \in [1 .. n -> Guards]  BY <1>1, <1>5
    <2> QED  BY <1>1, <2>1, SeqDef
  <1>7. \A k \in 1 .. n : guard'[order'[k]] = guard[order[k]]  BY <1>1, <1>3, <1>4, <1>5
  <1>8. Linked'
    <2>1. \A j, k \in DOMAIN order' : order'[j] = order'[k] => j = k  BY <1>1, <1>3, <1>5 DEF Linked
    <2>2. ASSUME NEW k \in DOMAIN order'
          PROVE  guard'[order'[k]].set \/ guard'[order'[k]].state = "gone"
      <3>1. k \in DOMAIN order /\ guard'[order'[k]] = guard[order[k]]  BY <1>1, <1>5, <1>7
      <3>2. guard[order[k]].set \/ guard[order[k]].state = "gone"  BY <3>1 DEF Linked
      <3> QED  BY <3>1, <3>2
    <2>3. ASSUME NEW x \in Guards, guard'[x].set
          PROVE  guard'[x].state = "alive" /\ \E k \in DOMAIN order' : order'[k] = x
      <3>1. CASE x = h
        <4>1. PICK k \in 1 .. n : order[k] = g  BY <1>1, <1>4, <2>3, <3>1 DEF Linked
        <4> QED  BY <1>4, <1>5, <3>1, <4>1
      <3>2. CASE x # h
        <4>1. x # g  BY <1>4, <2>3
        <4>2. guard[x].set /\ guard'[x] = guard[x]  BY <1>4, <2>3, <3>2, <4>1
        <4>3. guard[x].state = "alive" /\ \E k \in 1 .. n : order[k] = x  BY <1>1, <4>2 DEF Linked
        <4> QED  BY <1>5, <4>1, <4>2, <4>3
      <3> QED  BY <3>1, <3>2
    <2> QED  BY <2>1, <2>2, <2>3 DEF Linked
  <1>9. \A p : Over(p)' = Over(p)
    <2>1. Set' = Set
      <3>1. Set' = {k \in 1 .. n : guard'[order'[k]].set}  BY <1>5 DEF Set
      <3>2. Set = {k \in 1 .. n : guard[order[k]].set}  BY <1>1 DEF Set
      <3> QED  BY <1>7, <3>1, <3>2
    <2>2. \A k \in 1 .. n : Pages(order[k])' = Pages(order[k])  BY <1>7, PassedSame, ZenonT(60) DEF Pages
    <2>3. Set \subseteq 1 .. n  BY <1>1 DEF Set
    <2>4. \A p : Over(p)' = {k \in Set' : p \in Pages(order[k])'}  BY DEF Over
    <2>5. \A p : Over(p) = {k \in Set : p \in Pages(order[k])}  BY DEF Over
    <2> QED  BY <2>1, <2>2, <2>3, <2>4, <2>5
  <1>10. ASSUME NEW p \in Page, Stacked(p) PROVE Stacked(p)'
    <2>1. Over(p) \subseteq 1 .. n  BY <1>1 DEF Set
    <2>2. \A k \in Over(p) : guard'[order'[k]] = guard[order[k]]  BY <1>7, <2>1
    <2> QED  BY <1>9, <1>10, <2>2, StackedStill
  <1>11. Layered => Layered'  BY <1>10 DEF Layered, Stacked, Orderly
  <1> QED  BY <1>6, <1>8, <1>11

\* An object that is not set before or after a step is in no stack.
LEMMA Aside ==
  ASSUME TypeOK, Linked, NEW g \in Guards, NEW d, d.set = FALSE,
         guard' = [guard EXCEPT ![g] = d], \A k \in DOMAIN order : order[k] # g,
         UNCHANGED <<platform, discipline, initial, order>>,
         Orderly => prot' = prot
  PROVE  Linked' /\ (Layered => Layered')
  <1>1. \A k \in DOMAIN order : order[k] \in Guards  BY OrderFacts
  <1>2. guard \in [Guards -> Guard]  BY DEF TypeOK
  <1>3. guard'[g] = d /\ \A x \in Guards \ {g} : guard'[x] = guard[x]  BY <1>2
  <1>4. \A k \in DOMAIN order : guard'[order'[k]] = guard[order[k]]  BY <1>1, <1>3
  <1>5. Linked'
    <2>1. \A j, k \in DOMAIN order' : order'[j] = order'[k] => j = k  BY DEF Linked
    <2>2. \A k \in DOMAIN order' : guard'[order'[k]].set \/ guard'[order'[k]].state = "gone"
      BY <1>4 DEF Linked
    <2>3. \A x \in Guards : guard'[x].set => guard'[x].state = "alive" /\ \E k \in DOMAIN order' : order'[k] = x
      BY <1>3 DEF Linked
    <2> QED  BY <2>1, <2>2, <2>3 DEF Linked
  <1>6. \A p : Over(p)' = Over(p)
    <2>1. Set' = Set  BY <1>4 DEF Set
    <2>2. \A k \in DOMAIN order : Pages(order[k])' = Pages(order[k])  BY <1>4, PassedSame DEF Pages
    <2>3. Set \subseteq DOMAIN order  BY DEF Set
    <2> QED  BY <2>1, <2>2, <2>3 DEF Over
  <1>7. ASSUME NEW p \in Page, Stacked(p), Orderly PROVE Stacked(p)'
    <2>1. \A k \in Over(p) : guard'[order'[k]] = guard[order[k]]  BY <1>4 DEF Over, Set
    <2> QED  BY <1>6, <1>7, <2>1, StackedStill
  <1>8. Layered => Layered'  BY <1>7 DEF Layered, Stacked, Orderly
  <1> QED  BY <1>5, <1>8

-----------------------------------------------------------------------------
(* memory_protector: disciplines and objects under construction *)

LEMMA DisciplineKept ==
  ASSUME TypeOK, Disciplined, NEW g \in Guards, NEW d, guard' = [guard EXCEPT ![g] = d],
         UNCHANGED <<platform, discipline>>,
         \/ d.set = FALSE /\ d.state # "constructing"
         \/ discipline = "disjoint" =>
              \A h \in Holding : h # g => Pages(h) \cap Passed(d.address, d.size) = {},
         \/ d.state # "constructing"
         \/ discipline = "nested" => \A h \in Guards : guard[h].state # "constructing"
  PROVE  Disciplined'
  <1>1. guard \in [Guards -> Guard]  BY DEF TypeOK
  <1>2. guard'[g] = d /\ \A x \in Guards \ {g} : guard'[x] = guard[x]  BY <1>1
  <1>3. /\ \A x \in Guards \ {g} : Pages(x)' = Pages(x)
        /\ Pages(g)' = Passed(d.address, d.size)
    BY <1>2, PassedSame DEF Pages
  <1>4. ASSUME discipline = "disjoint", NEW x \in Holding', NEW y \in Holding', x # y
        PROVE  Pages(x)' \cap Pages(y)' = {}
    <2>1. \A z \in Holding' : z # g => z \in Holding /\ z \in Guards  BY <1>2 DEF Holding
    <2>2. CASE x # g /\ y # g
      BY <1>3, <1>4, <2>1, <2>2 DEF Disciplined
    <2>3. CASE x = g \/ y = g
      <3>1. ~(d.set = FALSE /\ d.state # "constructing")
        <4>1. g \in Holding'  BY <1>4, <2>3
        <4>2. guard'[g].set \/ guard'[g].state = "constructing"  BY <4>1 DEF Holding
        <4> QED  BY <1>2, <4>2
      <3>2. \A h \in Holding : h # g => Pages(h) \cap Passed(d.address, d.size) = {}  BY <1>4, <3>1
      <3> QED  BY <1>3, <1>4, <2>1, <2>3, <3>2
    <2> QED  BY <2>2, <2>3
  <1>5. discipline = "nested" =>
          \A x, y \in Guards : guard'[x].state = "constructing" /\ guard'[y].state = "constructing" => x = y
    BY <1>2 DEF Disciplined
  <1> QED  BY <1>4, <1>5 DEF Disciplined

LEMMA WaitingKept ==
  ASSUME TypeOK, Waiting, NEW g \in Guards, NEW d, guard' = [guard EXCEPT ![g] = d],
         UNCHANGED <<platform, discipline>>,
         Orderly =>
           \A h \in Guards : h # g /\ guard[h].state = "constructing" => \A p \in Pages(h) : prot'[p] = prot[p],
         d.state = "constructing" =>
           /\ platform # "win32"
           /\ Orderly =>
                \/ \A p \in Passed(d.address, d.size) : prot'[p] = d.old
                \/ platform = "mac" /\ \E p \in Passed(d.address, d.size) : prot'[p] = Unmapped
  PROVE  Waiting'
  <1>1. guard \in [Guards -> Guard]  BY DEF TypeOK
  <1>2. guard'[g] = d /\ \A x \in Guards \ {g} : guard'[x] = guard[x]  BY <1>1
  <1>3. /\ \A x \in Guards \ {g} : Pages(x)' = Pages(x)
        /\ Pages(g)' = Passed(d.address, d.size)
    BY <1>2, PassedSame DEF Pages
  <1>4. ASSUME NEW h \in Guards, guard'[h].state = "constructing"
        PROVE  platform # "win32" /\ (Orderly => Ready(h)')
    <2>1. CASE h = g  BY <1>2, <1>3, <1>4, <2>1 DEF Ready
    <2>2. CASE h # g
      <3>1. guard'[h] = guard[h] /\ Pages(h)' = Pages(h)  BY <1>2, <1>3, <2>2
      <3>2. platform # "win32" /\ (Orderly => Ready(h))  BY <1>4, <3>1 DEF Waiting
      <3>3. Orderly => \A p \in Pages(h) : prot'[p] = prot[p]  BY <1>4, <2>2, <3>1
      <3> QED  BY <3>1, <3>2, <3>3 DEF Ready
    <2> QED  BY <2>1, <2>2
  <1> QED  BY <1>4 DEF Waiting, Orderly

-----------------------------------------------------------------------------
(* memory_protector: the steps *)

LEMMA NotPlaced ==
  ASSUME Linked, NEW g \in Guards, guard[g].set = FALSE, guard[g].state # "gone"
  PROVE  \A k \in DOMAIN order : order[k] # g
  BY DEF Linked

LEMMA QueryOK ==
  ASSUME IInv, NEW g \in Guards, NEW a \in Address, NEW size \in Sizes, NEW f \in Flags,
         Query(g, a, size, f)
  PROVE  IInv'
  <1>1. PICK old : old = IF Found(a) = {} THEN NoProtection ELSE prot[CHOOSE p \in Found(a) : TRUE]
    OBVIOUS
  <1>2. PICK d : d = [state |-> IF Found(a) = {} THEN "alive" ELSE "constructing",
                      address |-> a, size |-> size, flags |-> f, old |-> old, set |-> FALSE]
    OBVIOUS
  <1>3. /\ d.state = (IF Found(a) = {} THEN "alive" ELSE "constructing") /\ d.address = a
        /\ d.size = size /\ d.old = old /\ d.set = FALSE
    BY <1>2
  <1>4. guard' = [guard EXCEPT ![g] = d]  BY <1>1, <1>2 DEF Query
  <1>5. UNCHANGED <<platform, discipline, initial, prot, order>> /\ guard[g].state = "unused"
        /\ platform \in {"linux", "mac"} /\ Allowed(a, size)
    BY DEF Query
  <1>6. TypeOK /\ Linked /\ Disciplined /\ Waiting /\ Layered  BY DEF IInv
  <1>7. prot \in [Page -> (SUBSET Flag) \cup {Unmapped}]  BY <1>6 DEF TypeOK
  <1>8. old \in SUBSET Flag
    <2>1. CASE Found(a) = {}  BY <1>1, <2>1 DEF NoProtection
    <2>2. CASE Found(a) # {}
      <3>1. PICK p : p = CHOOSE q \in Found(a) : TRUE  OBVIOUS
      <3>2. p \in Page /\ prot[p] # Unmapped  BY <2>2, <3>1, FoundFacts
      <3> QED  BY <1>1, <1>7, <2>2, <3>1, <3>2
    <2> QED  BY <2>1, <2>2
  <1>9. d \in Guard  BY <1>2, <1>8, MemoryProtectorAssumption DEF Guard
  <1>10. TypeOK'  BY <1>4, <1>5, <1>6, <1>9 DEF TypeOK
  <1>11. guard[g].set = FALSE
    <2>1. guard[g] \in Guard  BY <1>6 DEF TypeOK
    <2>2. ~guard[g].set  BY <1>5, <1>6 DEF Linked
    <2> QED  BY <2>1, <2>2 DEF Guard
  <1>12. \A k \in DOMAIN order : order[k] # g  BY <1>5, <1>6, <1>11, NotPlaced
  <1>13. Linked' /\ Layered'  BY <1>3, <1>4, <1>5, <1>6, <1>12, Aside
  <1>14. Disciplined'
    <2>1. discipline = "disjoint" =>
            \A h \in Holding : h # g => Pages(h) \cap Passed(d.address, d.size) = {}
      BY <1>3, <1>5 DEF Allowed
    <2>2. discipline = "nested" => \A h \in Guards : guard[h].state # "constructing"
      BY <1>5 DEF Allowed
    <2> QED  BY <1>4, <1>5, <1>6, <2>1, <2>2, DisciplineKept
  <1>15. Waiting'
    <2>1. ASSUME Found(a) # {}, Orderly
          PROVE  \/ \A p \in Passed(a, size) : prot[p] = old
                 \/ platform = "mac" /\ \E p \in Passed(a, size) : prot[p] = Unmapped
      <3>1. CASE prot[PageOf(a)] = Unmapped
        <4>1. platform = "mac"  BY <1>5, <2>1, <3>1, FoundFacts
        <4>2. Passed(a, size) = Named(a, size)  BY <4>1 DEF Passed
        <4>3. size \in Nat  BY MemoryProtectorAssumption
        <4>4. CASE size = 0
          <5>1. Passed(a, size) = {}  BY <4>2, <4>4, EmptyRange
          <5> QED  BY <5>1
        <4>5. CASE size > 0
          <5>1. PageOf(a) \in Passed(a, size)  BY <4>2, <4>3, <4>5, FirstPage
          <5> QED  BY <3>1, <4>1, <5>1
        <4> QED  BY <4>3, <4>4, <4>5
      <3>2. CASE prot[PageOf(a)] # Unmapped
        <4>1. Found(a) = {PageOf(a)}  BY <3>2, FoundFacts
        <4>2. old = prot[PageOf(a)]
          <5>1. (CHOOSE p \in {PageOf(a)} : TRUE) = PageOf(a)  OBVIOUS
          <5> QED  BY <1>1, <2>1, <4>1, <5>1
        <4> QED  BY <1>5, <2>1, <3>2, <4>2 DEF Allowed, Orderly
      <3> QED  BY <3>1, <3>2
    <2>2. d.state = "constructing" =>
            /\ platform # "win32"
            /\ Orderly =>
                 \/ \A p \in Passed(d.address, d.size) : prot'[p] = d.old
                 \/ platform = "mac" /\ \E p \in Passed(d.address, d.size) : prot'[p] = Unmapped
      BY <1>3, <1>5, <2>1
    <2> QED  BY <1>4, <1>5, <1>6, <2>2, WaitingKept
  <1> QED  BY <1>10, <1>13, <1>14, <1>15 DEF IInv

LEMMA ProtectOK ==
  ASSUME IInv, NEW g \in Guards, Protect(g)
  PROVE  IInv'
  <1>1. TypeOK /\ Linked /\ Disciplined /\ Waiting /\ Layered  BY DEF IInv
  <1>2. PICK c : c = guard[g]  OBVIOUS
  <1>3. c \in Guard /\ guard \in [Guards -> Guard] /\ prot \in [Page -> (SUBSET Flag) \cup {Unmapped}]
    BY <1>1, <1>2 DEF TypeOK
  <1>4. PICK P : P = Pages(g)  OBVIOUS
  <1>5. P = Passed(c.address, c.size) /\ P \subseteq Page  BY <1>2, <1>4, PassedPages DEF Pages
  <1>6. c.state = "constructing" /\ prot' = Changed(P, c.flags)
        /\ UNCHANGED <<platform, discipline, initial>>
    BY <1>2, <1>4 DEF Protect
  <1>7. c.flags \in SUBSET Flag
    BY <1>3 DEF Guard
  <1>8. /\ prot' \in [Page -> (SUBSET Flag) \cup {Unmapped}]
        /\ \A p \in Page \ P : prot'[p] = prot[p]
        /\ Mapped(P) => \A p \in P : prot'[p] = c.flags
        /\ platform # "linux" /\ ~Mapped(P) => prot' = prot
    BY <1>3, <1>5, <1>6, <1>7, ChangedFacts
  <1>9. platform # "win32" /\ (Orderly => Ready(g))  BY <1>1, <1>2, <1>6 DEF Waiting
  <1>10. Succeeds(c.address, c.size) = Mapped(P)  BY <1>5, <1>9 DEF Succeeds, Mapped
  <1>11. c.set = FALSE
    <2>1. ~guard[g].set  BY <1>1, <1>2, <1>6 DEF Linked
    <2> QED  BY <1>2, <1>3, <2>1 DEF Guard
  <1>12. \A k \in DOMAIN order : order[k] # g  BY <1>1, <1>2, <1>6, <1>11, NotPlaced
  <1>13. Unmapped \notin SUBSET Flag  BY FlagsMapped
  <1>14. ASSUME NEW d, d \in Guard, d.state = "alive", d.address = c.address, d.size = c.size,
                guard' = [guard EXCEPT ![g] = d]
         PROVE  Disciplined' /\ Waiting'
    <2>1. \A h \in Holding : discipline = "disjoint" /\ h # g => Pages(h) \cap P = {}
      <3>1. g \in Holding  BY <1>2, <1>6 DEF Holding
      <3> QED  BY <1>1, <1>4, <3>1 DEF Disciplined
    <2>2. Disciplined'  BY <1>1, <1>5, <1>6, <1>14, <2>1, DisciplineKept
    <2>3. ASSUME Orderly, NEW h \in Guards, h # g, guard[h].state = "constructing",
                 NEW p \in Pages(h)
          PROVE  prot'[p] = prot[p]
      <3>1. discipline \in {"nested", "disjoint"}
        BY <1>1, <1>9, <2>3, MemoryProtectorAssumption DEF TypeOK, Orderly
      <3>2. discipline = "disjoint"  BY <1>1, <1>2, <1>6, <2>3, <3>1 DEF Disciplined
      <3>3. h \in Holding  BY <2>3 DEF Holding
      <3>4. p \in Page \ P  BY <2>1, <2>3, <3>2, <3>3, PassedPages DEF Pages
      <3> QED  BY <1>8, <3>4
    <2>4. Waiting'  BY <1>1, <1>6, <1>14, <2>3, WaitingKept
    <2> QED  BY <2>2, <2>4
  <1>15. CASE Mapped(P)
    <2>1. PICK d : d = [c EXCEPT !.state = "alive", !.set = TRUE]  OBVIOUS
    <2>2. /\ d \in Guard /\ d.state = "alive" /\ d.set /\ d.address = c.address /\ d.size = c.size
          /\ d.flags = c.flags /\ d.old = c.old
      BY <1>3, <2>1 DEF Guard
    <2>3. Succeeds(c.address, c.size) = TRUE  BY <1>10, <1>15 DEF Mapped
    <2>4. guard' = [guard EXCEPT ![g] = d]
      <3>1. guard' = [guard EXCEPT ![g].state = "alive", ![g].set = TRUE]  BY <1>2, <2>3 DEF Protect
      <3> QED  BY <1>2, <1>3, <2>1, <3>1
    <2>5. order' = Append(order, g)  BY <1>2, <2>3 DEF Protect
    <2>6. Orderly => \A p \in P : c.old = prot[p]
      BY <1>2, <1>4, <1>9, <1>15 DEF Ready, Mapped
    <2>7. Linked' /\ order' \in Seq(Guards) /\ Layered'
      BY <1>1, <1>5, <1>6, <1>8, <1>12, <1>15, <2>2, <2>4, <2>5, <2>6, Sets, ZenonT(60)
    <2>8. TypeOK'  BY <1>1, <1>6, <1>8, <2>2, <2>4, <2>7 DEF TypeOK
    <2>9. Disciplined' /\ Waiting'  BY <1>14, <2>2, <2>4
    <2> QED  BY <2>7, <2>8, <2>9 DEF IInv
  <1>16. CASE ~Mapped(P)
    <2>1. PICK d : d = [c EXCEPT !.state = "alive", !.set = FALSE]  OBVIOUS
    <2>2. /\ d \in Guard /\ d.state = "alive" /\ d.set = FALSE /\ d.address = c.address /\ d.size = c.size
      BY <1>3, <2>1 DEF Guard
    <2>3. Succeeds(c.address, c.size) = FALSE  BY <1>10, <1>16 DEF Mapped
    <2>4. guard' = [guard EXCEPT ![g] = d]
      <3>1. guard' = [guard EXCEPT ![g].state = "alive", ![g].set = FALSE]  BY <1>2, <2>3 DEF Protect
      <3> QED  BY <1>2, <1>3, <2>1, <3>1
    <2>5. order' = order  BY <1>2, <2>3 DEF Protect
    <2>6. Orderly => prot' = prot
      <3>1. ASSUME Orderly PROVE platform = "mac"
        <4>1. PICK p \in P : prot[p] = Unmapped  BY <1>16 DEF Mapped
        <4>2. prot[p] # c.old  BY <1>3, <1>13, <4>1 DEF Guard
        <4> QED  BY <1>2, <1>4, <1>9, <3>1, <4>2 DEF Ready
      <3> QED  BY <1>8, <1>16, <3>1
    <2>7. Linked' /\ Layered'  BY <1>1, <1>6, <1>12, <2>2, <2>4, <2>5, <2>6, Aside
    <2>8. TypeOK'  BY <1>1, <1>6, <1>8, <2>2, <2>4, <2>5 DEF TypeOK
    <2>9. Disciplined' /\ Waiting'  BY <1>14, <2>2, <2>4
    <2> QED  BY <2>7, <2>8, <2>9 DEF IInv
  <1> QED  BY <1>15, <1>16

LEMMA VirtualProtectOK ==
  ASSUME IInv, NEW g \in Guards, NEW a \in Address, NEW size \in Sizes, NEW f \in Flags,
         VirtualProtect(g, a, size, f)
  PROVE  IInv'
  <1>1. TypeOK /\ Linked /\ Disciplined /\ Waiting /\ Layered  BY DEF IInv
  <1>0. PICK to : to = ToSystemProt(f)  OBVIOUS
  <1>2. guard \in [Guards -> Guard] /\ prot \in [Page -> (SUBSET Flag) \cup {Unmapped}]
    BY <1>1 DEF TypeOK
  <1>3. PICK P : P = Passed(a, size)  OBVIOUS
  <1>4. P \subseteq Page /\ size \in Nat /\ to \in SUBSET Flag
    BY <1>0, <1>3, PassedPages, MemoryProtectorAssumption DEF ToSystemProt, Flag
  <1>5. /\ platform = "win32" /\ guard[g].state = "unused" /\ Allowed(a, size)
        /\ UNCHANGED <<platform, discipline, initial>>
    BY DEF VirtualProtect
  <1>6. P = Named(a, size)  BY <1>3, <1>5 DEF Passed
  <1>7. guard[g].set = FALSE
    <2>1. ~guard[g].set  BY <1>1, <1>5 DEF Linked
    <2> QED  BY <1>2, <2>1 DEF Guard
  <1>8. \A k \in DOMAIN order : order[k] # g  BY <1>1, <1>5, <1>7, NotPlaced
  <1>9. \A h \in Guards : guard[h].state # "constructing"  BY <1>1, <1>5 DEF Waiting
  <1>10. ASSUME NEW d, d \in Guard, d.state = "alive", d.address = a, d.size = size,
                guard' = [guard EXCEPT ![g] = d]
         PROVE  Disciplined' /\ Waiting'
    <2>1. discipline = "disjoint" => \A h \in Holding : h # g => Pages(h) \cap P = {}
      BY <1>3, <1>5 DEF Allowed
    <2>2. Disciplined'  BY <1>1, <1>3, <1>5, <1>10, <2>1, DisciplineKept
    <2>3. Waiting'  BY <1>1, <1>5, <1>9, <1>10, WaitingKept
    <2> QED  BY <2>2, <2>3
  <1>11. CASE Mapped(P) /\ size > 0
    <2>1. Succeeds(a, size) = TRUE  BY <1>3, <1>11 DEF Succeeds, Mapped
    <2>2. PICK d : d = [state |-> "alive", address |-> a, size |-> size, flags |-> to,
                        old |-> prot[PageOf(a)], set |-> TRUE]
      OBVIOUS
    <2>3. PageOf(a) \in P /\ prot[PageOf(a)] # Unmapped  BY <1>4, <1>6, <1>11, FirstPage DEF Mapped
    <2>4. prot[PageOf(a)] \in SUBSET Flag  BY <1>2, <1>4, <2>3
    <2>5. /\ d \in Guard /\ d.state = "alive" /\ d.set /\ d.address = a /\ d.size = size
          /\ d.flags = to /\ d.old = prot[PageOf(a)]
      BY <1>4, <2>2, <2>4 DEF Guard
    <2>6. guard' = [guard EXCEPT ![g] = d] /\ prot' = Changed(P, to) /\ order' = Append(order, g)
      BY <1>0, <1>3, <2>1, <2>2 DEF VirtualProtect
    <2>7. /\ prot' \in [Page -> (SUBSET Flag) \cup {Unmapped}]
          /\ \A p \in Page \ P : prot'[p] = prot[p]
          /\ \A p \in P : prot'[p] = to
      BY <1>2, <1>4, <1>11, <2>6, ChangedFacts
    <2>8. Orderly => \A p \in P : d.old = prot[p]
      BY <1>3, <1>5, <2>3, <2>5 DEF Allowed, Orderly
    <2>9. Linked' /\ order' \in Seq(Guards) /\ Layered'
      BY <1>1, <1>3, <1>5, <1>8, <2>5, <2>6, <2>7, <2>8, Sets
    <2>10. TypeOK'  BY <1>1, <1>5, <2>5, <2>6, <2>7, <2>9 DEF TypeOK
    <2>11. Disciplined' /\ Waiting'  BY <1>10, <2>5, <2>6
    <2> QED  BY <2>9, <2>10, <2>11 DEF IInv
  <1>12. CASE ~(Mapped(P) /\ size > 0)
    <2>1. Succeeds(a, size) = FALSE  BY <1>3, <1>5, <1>12 DEF Succeeds, Mapped
    <2>2. PICK d : d = [state |-> "alive", address |-> a, size |-> size, flags |-> to,
                        old |-> NoProtection, set |-> FALSE]
      OBVIOUS
    <2>3. d \in Guard /\ d.state = "alive" /\ d.set = FALSE /\ d.address = a /\ d.size = size
      BY <1>4, <2>2 DEF Guard, NoProtection
    <2>4. guard' = [guard EXCEPT ![g] = d] /\ prot' = prot /\ order' = order
      BY <1>0, <2>1, <2>2 DEF VirtualProtect
    <2>5. Linked' /\ Layered'  BY <1>1, <1>5, <1>8, <2>3, <2>4, Aside
    <2>6. TypeOK'  BY <1>1, <1>5, <2>3, <2>4 DEF TypeOK
    <2>7. Disciplined' /\ Waiting'  BY <1>10, <2>3, <2>4
    <2> QED  BY <2>5, <2>6, <2>7 DEF IInv
  <1> QED  BY <1>11, <1>12

LEMMA MoveOK ==
  ASSUME IInv, NEW g \in Guards, NEW h \in Guards, Move(g, h)
  PROVE  IInv'
  <1>1. TypeOK /\ Linked /\ Disciplined /\ Waiting /\ Layered  BY DEF IInv
  <1>2. guard \in [Guards -> Guard]  BY <1>1 DEF TypeOK
  <1>3. /\ guard[g].state = "alive" /\ guard[h].state = "unused"
        /\ UNCHANGED <<platform, discipline, initial, prot>>
        /\ order' = [k \in DOMAIN order |-> IF order[k] = g THEN h ELSE order[k]]
    BY DEF Move
  <1>4. g # h  BY <1>3
  <1>5. PICK d : d = [guard[g] EXCEPT !.set = FALSE]  OBVIOUS
  <1>6. d \in Guard /\ d.set = FALSE /\ d.state = "alive"  BY <1>2, <1>3, <1>5 DEF Guard
  <1>7. guard' = [guard EXCEPT ![h] = guard[g], ![g] = d]
    <2>1. guard' = [guard EXCEPT ![h] = guard[g], ![g].set = FALSE]  BY DEF Move
    <2> QED  BY <1>2, <1>4, <1>5, <2>1
  <1>8. Linked' /\ order' \in Seq(Guards) /\ Layered'  BY <1>1, <1>3, <1>6, <1>7, MovesTo
  <1>9. TypeOK'  BY <1>1, <1>2, <1>3, <1>6, <1>7, <1>8 DEF TypeOK
  <1>10. /\ guard'[g] = d /\ guard'[h] = guard[g]
         /\ \A x \in Guards \ {g, h} : guard'[x] = guard[x]
    BY <1>2, <1>4, <1>7
  <1>11. /\ \A x \in Guards \ {g, h} : Pages(x)' = Pages(x)
         /\ Pages(h)' = Pages(g)
    BY <1>3, <1>10, PassedSame DEF Pages
  <1>12. \A x \in Guards : guard'[x].state = "constructing" =>
           x \in Guards \ {g, h} /\ guard[x].state = "constructing"
    BY <1>3, <1>6, <1>10
  <1>13. Disciplined'
    <2>1. ASSUME NEW x \in Holding'
          PROVE  \/ x \in Holding /\ x \in Guards \ {g, h}
                 \/ x = h /\ g \in Holding
      <3>1. x \in Guards /\ (guard'[x].set \/ guard'[x].state = "constructing")  BY <2>1 DEF Holding
      <3>2. x # g  BY <1>3, <1>6, <1>10, <3>1
      <3>3. CASE x = h
        <4>1. guard[g].set \/ guard[g].state = "constructing"  BY <1>10, <3>1, <3>3
        <4> QED  BY <3>3, <4>1 DEF Holding
      <3>4. CASE x # h
        <4>1. guard'[x] = guard[x]  BY <1>10, <3>1, <3>2, <3>4
        <4> QED  BY <3>1, <3>2, <3>4, <4>1 DEF Holding
      <3> QED  BY <3>3, <3>4
    <2>2. ASSUME discipline = "disjoint", NEW x \in Holding', NEW y \in Holding', x # y
          PROVE  Pages(x)' \cap Pages(y)' = {}
      <3>1. \A u, v \in Holding : u # v => Pages(u) \cap Pages(v) = {}  BY <1>1, <2>2 DEF Disciplined
      <3> QED  BY <1>11, <2>1, <2>2, <3>1
    <2>3. discipline = "nested" =>
            \A x, y \in Guards : guard'[x].state = "constructing" /\ guard'[y].state = "constructing" => x = y
      BY <1>1, <1>12 DEF Disciplined
    <2> QED  BY <1>3, <2>2, <2>3 DEF Disciplined
  <1>14. Waiting'
    <2>1. ASSUME NEW x \in Guards, guard'[x].state = "constructing"
          PROVE  platform' # "win32" /\ (Orderly' => Ready(x)')
      <3>1. x \in Guards \ {g, h} /\ guard[x].state = "constructing"  BY <1>12, <2>1
      <3>2. platform # "win32" /\ (Orderly => Ready(x))  BY <1>1, <3>1 DEF Waiting
      <3>3. Orderly' = Orderly  BY <1>3 DEF Orderly
      <3> QED  BY <1>3, <1>10, <1>11, <3>1, <3>2, <3>3 DEF Ready
    <2> QED  BY <2>1 DEF Waiting
  <1> QED  BY <1>8, <1>9, <1>13, <1>14 DEF IInv

LEMMA DestroyOK ==
  ASSUME IInv, NEW g \in Guards, Destroy(g)
  PROVE  IInv'
  <1>1. TypeOK /\ Linked /\ Disciplined /\ Waiting /\ Layered  BY DEF IInv
  <1>2. PICK c, d : c = guard[g] /\ d = [Unused EXCEPT !.state = "gone"]  OBVIOUS
  <1>3. c \in Guard /\ guard \in [Guards -> Guard] /\ prot \in [Page -> (SUBSET Flag) \cup {Unmapped}]
    BY <1>1, <1>2 DEF TypeOK
  <1>4. d \in Guard /\ d.state = "gone" /\ d.set = FALSE
    <2>1. 0 \in Address
      <3>1. 0 * PageSize < PageCount * PageSize /\ PageCount * PageSize \in Int
        BY AddressSpaceAssumption, TimesOrder
      <3> QED  BY <3>1, AddressSpaceAssumption DEF Address
    <2> QED  BY <1>2, <2>1 DEF Unused, Guard, NoProtection
  <1>5. /\ c.state = "alive" /\ guard' = [guard EXCEPT ![g] = d]
        /\ discipline = "nested" => \A h \in Guards : guard[h].state # "constructing"
        /\ discipline = "nested" /\ c.set => g = order[Max(Set)]
        /\ discipline = "lifo" /\ c.set => \A p \in Pages(g) : g = order[Max(Over(p))]
        /\ UNCHANGED <<platform, discipline, initial, order>>
    BY <1>2 DEF Destroy, InTurn
  <1>6. Disciplined'  BY <1>1, <1>4, <1>5, DisciplineKept
  <1>7. CASE c.set
    <2>1. PICK P : P = Pages(g)  OBVIOUS
    <2>2. P = Passed(c.address, c.size) /\ P \subseteq Page  BY <1>2, <2>1, PassedPages DEF Pages
    <2>3. prot' = Changed(P, c.old)  BY <1>2, <1>7, <2>1 DEF Destroy
    <2>4. c.old \in SUBSET Flag  BY <1>3 DEF Guard
    <2>5. /\ prot' \in [Page -> (SUBSET Flag) \cup {Unmapped}]
          /\ \A p \in Page \ P : prot'[p] = prot[p]
          /\ Mapped(P) => \A p \in P : prot'[p] = c.old
      BY <1>3, <2>2, <2>3, <2>4, ChangedFacts
    <2>6. ASSUME Orderly PROVE Mapped(P)
      <3>1. ASSUME NEW p \in P PROVE prot[p] # Unmapped
        <4>1. PICK k \in Set : order[k] = g  BY <1>1, <1>2, <1>7, PlaceOf
        <4>2. k \in Over(p)  BY <2>1, <3>1, <4>1 DEF Over
        <4>3. prot[p] = guard[order[Max(Over(p))]].flags
          BY <1>1, <2>2, <2>6, <3>1, <4>2 DEF Layered, Asks
        <4>4. Max(Over(p)) \in Over(p)
          <5>1. Over(p) \subseteq 0 .. Len(order) /\ Len(order) \in Nat  BY <1>1, OrderFacts
          <5> QED  BY <4>2, <5>1, MaxFacts
        <4>5. order[Max(Over(p))] \in Guards  BY <1>1, <4>4, OrderFacts DEF Over, Set
        <4>6. prot[p] \in SUBSET Flag
          BY <1>3, <4>3, <4>5 DEF Guard
        <4> QED  BY <4>6, FlagsMapped
      <3> QED  BY <3>1 DEF Mapped
    <2>7. Linked' /\ Layered'  BY <1>1, <1>2, <1>4, <1>5, <1>7, <2>1, <2>5, <2>6, Unsets
    <2>8. TypeOK'  BY <1>1, <1>4, <1>5, <2>5 DEF TypeOK
    <2>9. Waiting'
      <3>1. ASSUME Orderly, NEW h \in Guards, h # g, guard[h].state = "constructing",
                   NEW p \in Pages(h)
            PROVE  prot'[p] = prot[p]
        <4>1. discipline \in {"nested", "disjoint"}
          BY <1>1, <3>1, MemoryProtectorAssumption DEF TypeOK, Orderly, Waiting
        <4>2. discipline = "disjoint"  BY <1>5, <3>1, <4>1
        <4>3. h \in Holding /\ g \in Holding  BY <1>2, <1>7, <3>1 DEF Holding
        <4>4. p \in Page \ P  BY <1>1, <2>1, <3>1, <4>2, <4>3, PassedPages DEF Disciplined, Pages
        <4> QED  BY <2>5, <4>4
      <3> QED  BY <1>1, <1>4, <1>5, <3>1, WaitingKept
    <2> QED  BY <1>6, <2>7, <2>8, <2>9 DEF IInv
  <1>8. CASE ~c.set
    <2>1. prot' = prot  BY <1>2, <1>8 DEF Destroy
    <2>2. c.set = FALSE  BY <1>3, <1>8 DEF Guard
    <2>3. \A k \in DOMAIN order : order[k] # g  BY <1>1, <1>2, <1>5, <2>2, NotPlaced
    <2>4. Linked' /\ Layered'  BY <1>1, <1>4, <1>5, <2>1, <2>3, Aside
    <2>5. TypeOK'  BY <1>1, <1>4, <1>5, <2>1 DEF TypeOK
    <2>6. Waiting'  BY <1>1, <1>4, <1>5, <2>1, WaitingKept
    <2> QED  BY <1>6, <2>4, <2>5, <2>6 DEF IInv
  <1> QED  BY <1>7, <1>8

LEMMA ProtectorStarts == Init => IInv
  <1> SUFFICES ASSUME Init PROVE IInv  OBVIOUS
  <1>1. /\ platform \in Platforms /\ discipline \in Disciplines /\ initial \in Layouts
        /\ prot = initial /\ guard = [g \in Guards |-> Unused] /\ order = << >>
    BY DEF Init
  <1>2. Unused \in Guard /\ Unused.set = FALSE /\ Unused.state = "unused"
    <2>1. 0 \in Address
      <3>1. 0 * PageSize < PageCount * PageSize /\ PageCount * PageSize \in Int
        BY AddressSpaceAssumption, TimesOrder
      <3> QED  BY <3>1, AddressSpaceAssumption DEF Address
    <2> QED  BY <2>1 DEF Unused, Guard, NoProtection
  <1>3. order \in Seq(Guards) /\ DOMAIN order = {}  BY <1>1, EmptySeq
  <1>4. TypeOK  BY <1>1, <1>2, <1>3, AddressSpaceAssumption DEF TypeOK
  <1>5. \A g \in Guards : guard[g] = Unused  BY <1>1
  <1>6. Linked  BY <1>2, <1>3, <1>5 DEF Linked
  <1>7. Disciplined /\ Waiting  BY <1>2, <1>5 DEF Disciplined, Waiting, Holding
  <1>8. \A p : Over(p) = {}  BY <1>3 DEF Over, Set
  <1>9. Layered  BY <1>1, <1>8 DEF Layered, Asks
  <1> QED  BY <1>4, <1>6, <1>7, <1>9 DEF IInv

LEMMA ProtectorInvariant == Spec => []IInv
  <1>1. IInv /\ [Next]_vars => IInv'
    <2> SUFFICES ASSUME IInv, [Next]_vars PROVE IInv'  OBVIOUS
    <2>1. CASE Next  BY <2>1, QueryOK, VirtualProtectOK, ProtectOK, MoveOK, DestroyOK DEF Next
    <2>2. CASE UNCHANGED vars
      <3>1. UNCHANGED <<platform, discipline, initial, prot, guard, order>>  BY <2>2 DEF vars
      <3>2. \A a, size : Passed(a, size)' = Passed(a, size)  BY <3>1, PassedSame
      <3>3. \A g : Pages(g)' = Pages(g)  BY <3>1, <3>2 DEF Pages
      <3>4. Set' = Set /\ Holding' = Holding  BY <3>1 DEF Set, Holding
      <3>5. \A p : Over(p)' = Over(p)  BY <3>1, <3>3, <3>4 DEF Over
      <3>6. TypeOK' /\ Linked'  BY <3>1 DEF IInv, TypeOK, Linked
      <3>7. Disciplined' /\ Waiting'  BY <3>1, <3>3, <3>4 DEF IInv, Disciplined, Waiting, Ready, Orderly
      <3>8. Layered'  BY <3>1, <3>5 DEF IInv, Layered, Asks, Orderly
      <3> QED  BY <3>6, <3>7, <3>8 DEF IInv
    <2> QED  BY <2>1, <2>2
  <1> QED  BY <1>1, ProtectorStarts, PTL DEF Spec

\* Every reachable state of a program with memory_protector objects has the declared types.
THEOREM ProtectorTypeCorrect == Spec => []TypeOK
  <1>1. IInv => TypeOK  BY DEF IInv
  <1> QED  BY <1>1, ProtectorInvariant, PTL

\* The objects of memory_protector.hpp:14 on a page form a stack, in whatever order those
\* that share no page come and go, and however often the objects are moved.
THEOREM GuardsStack == Spec => []Layered
  <1>1. IInv => Layered  BY DEF IInv
  <1> QED  BY <1>1, ProtectorInvariant, PTL

\* Once no object is left, memory_protector.hpp:20 has put back every page.
THEOREM PagesRestored == Spec => []DisciplinedRestores
  <1>1. IInv => DisciplinedRestores
    <2> SUFFICES ASSUME IInv, Orderly, Idle PROVE prot = initial
      BY DEF DisciplinedRestores
    <2>1. \A p : Over(p) = {}
      <3>1. \A k \in DOMAIN order : order[k] \in Guards  BY OrderFacts DEF IInv
      <3> QED  BY <3>1 DEF Idle, Over, Set
    <2>2. \A p \in Page : prot[p] = initial[p]  BY <2>1 DEF IInv, Layered, Asks
    <2>3. prot \in [Page -> (SUBSET Flag) \cup {Unmapped}] /\ initial \in [Page -> (SUBSET Flag) \cup {Unmapped}]
      BY AddressSpaceAssumption DEF IInv, TypeOK
    <2> QED  BY <2>2, <2>3
  <1> QED  BY <1>1, ProtectorInvariant, PTL
-----------------------------------------------------------------------------
(* RegionQuery: pages and regions *)

\* The history has what the pages are now.
Noted ==
  \A p \in Page : /\ Has(p, prot) => p \in had
                  /\ ~ Has(p, prot) => p \in lacked
                  /\ prot[p] = Unmapped => p \in holes

\* A page the walk may pass.
Seen(p) == p \in had \/ (platform = "mac" /\ p \in holes)

\* The walk is at its start or between two pages, and has passed only pages it may.
Walked ==
  /\ addr = lo \/ \E q \in Nat : addr = q * PageSize
  /\ \A p \in Touched : (p + 1) * PageSize <= addr => Seen(p)
  /\ pc = "done" /\ answer => addr >= hi

\* Nothing happened to the region, and all of it has the flag.
Steady == Touched \cap lacked = {} /\ Touched \cap changed = {}

\* The walk of an undisturbed region on Linux: the lines come up to the walk, and no
\* region spans the place where the one before ended.
InStep ==
  platform = "linux" /\ pc = "walk" /\ lo # hi /\ Steady =>
    /\ next <= addr /\ addr < hi
    /\ ~ found => addr = lo
    /\ found => /\ next = addr /\ addr > lo
                /\ \A q \in Page : addr = q * PageSize => ~ Joined(q)

QueryInv == QueryTypeOK /\ Noted /\ Walked /\ InStep /\ NoMeansSome

\* Pages joined one to the next have one protection.
LEMMA JoinedSame ==
  ASSUME NEW i \in Page, NEW j \in Page, i <= j, \A r \in i + 1 .. j : Joined(r)
  PROVE  prot[j] = prot[i]
  <1>0. Page \subseteq Nat  BY AddressSpaceAssumption DEF Page
  <1> DEFINE Other == {r \in i .. j : prot[r] # prot[i]}
  <1>1. SUFFICES ASSUME Other # {} PROVE FALSE  BY <1>0
  <1>2. Other \subseteq Nat  BY <1>0
  <1>3. PICK x \in Other : \A y \in Other : x <= y
    <2> HIDE DEF Other
    <2> QED  BY <1>1, <1>2, LeastElement
  <1>4. x \in Nat /\ i < x /\ x <= j /\ prot[x] # prot[i]  BY <1>0, <1>3
  <1>5. x - 1 \in i .. j /\ ~ (x <= x - 1) /\ x \in i + 1 .. j  BY <1>0, <1>4
  <1>6. prot[x - 1] = prot[i]  BY <1>3, <1>5
  <1>7. prot[x] = prot[x - 1]  BY <1>5 DEF Joined
  <1> QED  BY <1>4, <1>6, <1>7

\* The region of a page is an interval of pages, all with its protection, and the page
\* behind it is not joined to it.
LEMMA RegionFacts ==
  ASSUME NEW p \in Page
  PROVE  \E b, m \in Page :
           /\ b <= p /\ p <= m
           /\ RegionBegin(p) = b * PageSize /\ RegionEnd(p) = (m + 1) * PageSize
           /\ \A q \in b .. m : q \in Page /\ prot[q] = prot[p]
           /\ (\A r \in b + 1 .. m : Joined(r)) /\ ~ Joined(m + 1)
  <1>0. /\ Page \subseteq Nat /\ Page \subseteq 0 .. PageCount
        /\ \A i, j \in Page : i .. j \subseteq Page
    BY AddressSpaceAssumption DEF Page
  <1>1. p \in RegionOf(p) /\ RegionOf(p) \subseteq Page
    <2>1. p + 1 .. p = {}  BY <1>0
    <2>2. p <= p  BY <1>0
    <2> QED  BY <2>1, <2>2 DEF RegionOf
  <1>2. PICK b, m : b = Min(RegionOf(p)) /\ m = Max(RegionOf(p))  OBVIOUS
  <1>3. b \in RegionOf(p) /\ b <= p
    BY <1>0, <1>1, <1>2, MinFacts
  <1>4. m \in RegionOf(p) /\ \A q \in RegionOf(p) : q <= m
    BY <1>0, <1>1, <1>2, MaxFacts, AddressSpaceAssumption
  <1>5. p <= m  BY <1>1, <1>4
  <1>6. b \in Page /\ m \in Page  BY <1>1, <1>3, <1>4
  <1>7. \A r \in b + 1 .. p : Joined(r)  BY <1>3 DEF RegionOf
  <1>8. \A r \in p + 1 .. m : Joined(r)
    <2>1. CASE m <= p
      <3>1. p + 1 .. m = {}  BY <1>0, <1>6, <2>1
      <3> QED  BY <3>1
    <2>2. CASE ~ (m <= p)  BY <1>4, <2>2 DEF RegionOf
    <2> QED  BY <2>1, <2>2
  <1>9. ASSUME NEW q \in b .. m PROVE q \in Page /\ prot[q] = prot[p]
    <2>1. q \in Page /\ q \in Nat /\ p \in Nat /\ b \in Nat /\ m \in Nat  BY <1>0, <1>6, <1>9
    <2>2. CASE q <= p
      <3>1. q + 1 .. p \subseteq b + 1 .. p  BY <2>1
      <3>2. \A r \in q + 1 .. p : Joined(r)  BY <1>7, <3>1
      <3> QED  BY <2>1, <2>2, <3>2, JoinedSame
    <2>3. CASE p <= q
      <3>1. p + 1 .. q \subseteq p + 1 .. m  BY <2>1
      <3>2. \A r \in p + 1 .. q : Joined(r)  BY <1>8, <3>1
      <3> QED  BY <2>1, <2>3, <3>2, JoinedSame
    <2> QED  BY <2>1, <2>2, <2>3
  <1>10. ~ Joined(m + 1)
    <2>1. SUFFICES ASSUME Joined(m + 1) PROVE FALSE  OBVIOUS
    <2>2. m + 1 \in Page  BY <2>1 DEF Joined
    <2>3. \A r \in p + 1 .. m + 1 : r \in p + 1 .. m \/ r = m + 1  BY <1>0, <1>6
    <2>4. \A r \in p + 1 .. m + 1 : Joined(r)  BY <1>8, <2>1, <2>3
    <2>5. ~ (m + 1 <= p)  BY <1>0, <1>5, <1>6
    <2>6. m + 1 \in RegionOf(p)  BY <2>2, <2>4, <2>5 DEF RegionOf
    <2>7. m + 1 <= m  BY <1>4, <2>6
    <2> QED  BY <1>0, <1>6, <2>7
  <1>11. \A r \in b + 1 .. m : Joined(r)
    <2>1. \A r \in b + 1 .. m : r \in b + 1 .. p \/ r \in p + 1 .. m  BY <1>0, <1>6
    <2> QED  BY <1>7, <1>8, <2>1
  <1> QED  BY <1>2, <1>3, <1>5, <1>6, <1>9, <1>10, <1>11 DEF RegionBegin, RegionEnd

\* The lowest mapped page that ends behind an address, and what comes before it.
LEMMA FirstMapped ==
  ASSUME NEW a \in Nat, MappedFrom(a) # {}
  PROVE  \E p \in Page :
           /\ p = Min(MappedFrom(a))
           /\ prot[p] # Unmapped /\ (p + 1) * PageSize > a
           /\ \A q \in Page : (q + 1) * PageSize > a /\ prot[q] # Unmapped => p <= q
  <1>1. MappedFrom(a) \in SUBSET Nat  BY AddressSpaceAssumption DEF MappedFrom, Page
  <1>2. Min(MappedFrom(a)) \in MappedFrom(a) /\ \A q \in MappedFrom(a) : Min(MappedFrom(a)) <= q
    BY <1>1, MinFacts
  <1> QED  BY <1>2 DEF MappedFrom

\* The page an address before the end of the region lies on.
LEMMA PageAt ==
  ASSUME QueryTypeOK, addr < hi
  PROVE  /\ PageOf(addr) \in Page /\ PageOf(addr) \in Touched
         /\ PageOf(addr) * PageSize <= addr /\ addr < (PageOf(addr) + 1) * PageSize
  <1>1. /\ addr \in Nat /\ lo \in Nat /\ hi \in Nat /\ lo <= addr
        /\ hi <= PageCount * PageSize
    BY RegionQueryAssumption, AddressSpaceAssumption DEF QueryTypeOK
  <1>2. /\ PageOf(addr) \in Nat /\ PageOf(addr) * PageSize <= addr
        /\ addr < (PageOf(addr) + 1) * PageSize
    BY <1>1, AddressSpaceAssumption, Quotient DEF PageOf
  <1>3. PageOf(addr) * PageSize \in Int /\ (PageOf(addr) + 1) * PageSize \in Int
        /\ PageCount * PageSize \in Int
    BY <1>2, AddressSpaceAssumption, TimesOrder
  <1>4. PageOf(addr) * PageSize < PageCount * PageSize  BY <1>1, <1>2, <1>3
  <1>5. PageOf(addr) < PageCount  BY <1>2, <1>4, AddressSpaceAssumption, TimesOrder
  <1>6. PageOf(addr) \in Page  BY <1>2, <1>5, AddressSpaceAssumption DEF Page
  <1>7. PageOf(addr) * PageSize < hi /\ lo < (PageOf(addr) + 1) * PageSize /\ lo < hi
    BY <1>1, <1>2, <1>3
  <1> QED  BY <1>2, <1>6, <1>7 DEF Touched, PagesOf

-----------------------------------------------------------------------------
(* RegionQuery: the steps of the walk *)

\* Where a region ends.
LEMMA EndFacts ==
  ASSUME NEW p \in Page
  PROVE  /\ RegionEnd(p) \in 0 .. PageCount * PageSize
         /\ \E q \in Nat : RegionEnd(p) = q * PageSize
         /\ (p + 1) * PageSize <= RegionEnd(p)
         /\ RegionBegin(p) \in Nat /\ RegionBegin(p) <= p * PageSize
  <1>1. PICK b, m \in Page :
           /\ b <= p /\ p <= m
           /\ RegionBegin(p) = b * PageSize /\ RegionEnd(p) = (m + 1) * PageSize
    BY RegionFacts
  <1>2. /\ p \in Nat /\ b \in Nat /\ m \in Nat /\ m + 1 <= PageCount /\ PageCount \in Nat
        /\ PageSize \in Nat \ {0}
    BY AddressSpaceAssumption DEF Page
  <1>3. /\ (m + 1) * PageSize \in Nat /\ b * PageSize \in Nat
        /\ PageCount * PageSize \in Nat
    BY <1>2
  <1>4. (m + 1) * PageSize <= PageCount * PageSize
    BY <1>2, TimesOrder
  <1>5. (p + 1) * PageSize <= (m + 1) * PageSize
    <2>1. p + 1 \in Int /\ m + 1 \in Int /\ p + 1 <= m + 1  BY <1>1, <1>2
    <2> QED  BY <1>2, <2>1, TimesOrder
  <1>6. b * PageSize <= p * PageSize  BY <1>1, <1>2, TimesOrder
  <1> QED  BY <1>1, <1>2, <1>3, <1>4, <1>5, <1>6

\* The walk may pass a region whose pages have the flag, when what it leaves out before it
\* it may pass as well.
LEMMA MayPass ==
  ASSUME Noted, Walked, addr \in Nat, NEW p \in Page, Has(p, prot),
         \A q \in Touched : (q + 1) * PageSize > addr /\ (q + 1) * PageSize <= RegionBegin(p)
                              => Seen(q),
         NEW q \in Touched, (q + 1) * PageSize <= RegionEnd(p)
  PROVE  Seen(q)
  <1>1. PICK b, m \in Page :
           /\ b <= p /\ p <= m
           /\ RegionBegin(p) = b * PageSize /\ RegionEnd(p) = (m + 1) * PageSize
           /\ \A r \in b .. m : r \in Page /\ prot[r] = prot[p]
    BY RegionFacts
  <1>2. q \in Page  BY DEF Touched, PagesOf
  <1>3. /\ q \in Nat /\ b \in Nat /\ m \in Nat /\ PageSize \in Nat \ {0}
    BY <1>2, AddressSpaceAssumption DEF Page
  <1>4. (q + 1) * PageSize \in Nat  BY <1>3
  <1>5. CASE (q + 1) * PageSize <= addr  BY <1>5 DEF Walked
  <1>6. CASE (q + 1) * PageSize <= RegionBegin(p)
    <2>1. (q + 1) * PageSize <= addr \/ (q + 1) * PageSize > addr  BY <1>4
    <2> QED  BY <1>5, <1>6, <2>1
  <1>7. CASE ~ ((q + 1) * PageSize <= RegionBegin(p))
    <2>1. ~ (q + 1 <= b)  BY <1>1, <1>3, <1>7, TimesOrder
    <2>2. q + 1 <= m + 1
      <3>1. q + 1 \in Int /\ m + 1 \in Int  BY <1>3
      <3> QED  BY <1>1, <1>3, <3>1, TimesOrder
    <2>3. q \in b .. m  BY <1>3, <2>1, <2>2
    <2>4. Has(q, prot)  BY <1>1, <2>3 DEF Has
    <2> QED  BY <1>2, <2>4 DEF Noted, Seen
  <1> QED  BY <1>6, <1>7

\* What a step leaves alone when other threads do nothing.
LEMMA Quiet ==
  ASSUME UNCHANGED <<query, prot, history>>
  PROVE  /\ Touched' = Touched
         /\ Noted => Noted'
         /\ Steady' = Steady
         /\ \A p : Seen(p)' = Seen(p) /\ Joined(p)' = Joined(p) /\ Has(p, prot)' = Has(p, prot)
  BY DEF query, history, Touched, PagesOf, Noted, Has, Steady, Seen, Joined

LEMMA QueryNumbers ==
  ASSUME QueryTypeOK
  PROVE  /\ lo \in Nat /\ hi \in Nat /\ lo <= hi /\ addr \in Nat /\ lo <= addr
         /\ hi <= PageCount * PageSize /\ addr <= PageCount * PageSize
         /\ next \in Nat /\ PageCount * PageSize \in Nat
         /\ Page \subseteq Nat /\ PageSize \in Nat \ {0}
  <1>1. PageCount \in Nat /\ PageSize \in Nat \ {0} /\ Page \subseteq Nat
    BY AddressSpaceAssumption DEF Page
  <1>2. PageCount * PageSize \in Nat  BY <1>1
  <1>3. lo \in 0 .. PageCount * PageSize /\ hi \in 0 .. PageCount * PageSize
    BY RegionQueryAssumption DEF QueryTypeOK
  <1> QED  BY <1>1, <1>2, <1>3 DEF QueryTypeOK

\* A step that goes on to the end of a region, or stays.
LEMMA WalksTo ==
  ASSUME QueryTypeOK, Noted, Walked, pc = "walk", UNCHANGED <<query, prot, history>>,
         NEW p \in Page, Has(p, prot),
         \A q \in Touched : (q + 1) * PageSize > addr /\ (q + 1) * PageSize <= RegionBegin(p)
                              => Seen(q),
         addr' = RegionEnd(p), addr <= RegionEnd(p),
         pc' \in {"walk", "done"}, answer' \in BOOLEAN,
         pc' = "done" /\ answer' => addr' >= hi,
         found' \in BOOLEAN, next' \in 0 .. PageCount * PageSize
  PROVE  QueryTypeOK' /\ Walked'
  <1>1. \A q \in Touched : (q + 1) * PageSize <= RegionEnd(p) => Seen(q)
    BY QueryNumbers, MayPass
  <1>2. RegionEnd(p) \in lo .. PageCount * PageSize
    BY QueryNumbers, EndFacts
  <1>3. QueryTypeOK'  BY <1>2 DEF QueryTypeOK, query, history
  <1>4. Touched' = Touched /\ \A q : Seen(q)' = Seen(q)  BY Quiet
  <1>5. \A q \in Touched' : (q + 1) * PageSize <= addr' => Seen(q)'  BY <1>1, <1>4
  <1>6. \E q \in Nat : addr' = q * PageSize  BY EndFacts
  <1>7. pc' = "done" /\ answer' => addr' >= hi'  BY DEF query
  <1> QED  BY <1>3, <1>5, <1>6, <1>7 DEF Walked

LEMMA WalkStays ==
  ASSUME QueryTypeOK, Walked, pc = "walk", UNCHANGED <<query, prot, addr, history>>,
         pc' \in {"walk", "done"}, answer' \in BOOLEAN,
         pc' = "done" /\ answer' => addr >= hi,
         found' \in BOOLEAN, next' \in 0 .. PageCount * PageSize
  PROVE  QueryTypeOK' /\ Walked'
  <1>1. QueryTypeOK'  BY DEF QueryTypeOK, query, history
  <1>2. Touched' = Touched /\ \A q : Seen(q)' = Seen(q)  BY Quiet
  <1>3. \A q \in Touched' : (q + 1) * PageSize <= addr' => Seen(q)'  BY <1>2 DEF Walked
  <1>4. addr' = lo' \/ \E q \in Nat : addr' = q * PageSize  BY DEF Walked, query
  <1>5. pc' = "done" /\ answer' => addr' >= hi'  BY DEF query
  <1> QED  BY <1>1, <1>3, <1>4, <1>5 DEF Walked

\* Windows and macOS.
LEMMA VirtualQueryOK ==
  ASSUME QueryInv, VirtualQuery
  PROVE  QueryInv'
  <1>1. /\ platform = "win32" /\ pc = "walk" /\ addr < hi
        /\ UNCHANGED <<query, prot, found, next, history>>
    BY DEF VirtualQuery
  <1>2. /\ QueryTypeOK /\ Noted /\ Walked  BY DEF QueryInv
  <1>3. PICK p : p = PageOf(addr)  OBVIOUS
  <1>4. /\ p \in Page /\ p \in Touched
        /\ p * PageSize <= addr /\ addr < (p + 1) * PageSize
    BY <1>1, <1>2, <1>3, PageAt
  <1>5. Noted' /\ Touched' = Touched  BY <1>1, <1>2, Quiet
  <1>6. platform' # "linux"  BY <1>1 DEF query
  <1>7. found' \in BOOLEAN /\ next' \in 0 .. PageCount * PageSize
    BY <1>1, <1>2 DEF QueryTypeOK
  <1>8. CASE Has(p, prot)
    <2>1. addr' = RegionEnd(p) /\ UNCHANGED <<pc, answer>>
      BY <1>3, <1>8 DEF VirtualQuery
    <2>2. /\ RegionBegin(p) <= addr /\ RegionBegin(p) \in Nat /\ addr <= RegionEnd(p)
      <3>1. /\ (p + 1) * PageSize <= RegionEnd(p) /\ RegionBegin(p) <= p * PageSize
            /\ RegionEnd(p) \in 0 .. PageCount * PageSize /\ RegionBegin(p) \in Nat
        BY <1>4, EndFacts
      <3>2. p * PageSize \in Nat /\ (p + 1) * PageSize \in Nat /\ addr \in Nat
        BY <1>2, <1>4, QueryNumbers
      <3>3. RegionEnd(p) \in Int  BY <1>2, <3>1, QueryNumbers
      <3> QED  BY <1>4, <3>1, <3>2, <3>3
    <2>3. ASSUME NEW q \in Touched, (q + 1) * PageSize > addr, (q + 1) * PageSize <= RegionBegin(p)
          PROVE  Seen(q)
      <3>1. q \in Nat  BY <1>2, QueryNumbers DEF Touched, PagesOf
      <3>2. (q + 1) * PageSize \in Nat /\ addr \in Nat  BY <1>2, <3>1, QueryNumbers
      <3> QED  BY <2>2, <2>3, <3>2
    <2>4. QueryTypeOK' /\ Walked'
      <3>1. pc' \in {"walk", "done"} /\ answer' \in BOOLEAN /\ pc' # "done"
        BY <1>1, <1>2, <2>1 DEF QueryTypeOK
      <3>2. UNCHANGED <<query, prot, history>>  BY <1>1
      <3> QED  BY <1>1, <1>2, <1>4, <1>7, <1>8, <2>1, <2>2, <2>3, <3>1, <3>2, WalksTo
    <2>5. InStep' /\ NoMeansSome'  BY <1>1, <1>6, <2>1 DEF InStep, NoMeansSome
    <2> QED  BY <1>5, <2>4, <2>5 DEF QueryInv
  <1>9. CASE ~ Has(p, prot)
    <2>1. pc' = "done" /\ answer' = FALSE /\ addr' = addr
      BY <1>3, <1>9 DEF VirtualQuery, Return
    <2>2. QueryTypeOK' /\ Walked'  BY <1>1, <1>2, <1>7, <2>1, WalkStays
    <2>3. p \in lacked  BY <1>2, <1>4, <1>9 DEF Noted
    <2>4. Touched' \cap lacked' # {}  BY <1>1, <1>4, <1>5, <2>3 DEF history
    <2>5. InStep' /\ NoMeansSome'  BY <2>1, <2>4 DEF InStep, NoMeansSome
    <2> QED  BY <1>5, <2>2, <2>5 DEF QueryInv
  <1> QED  BY <1>8, <1>9

LEMMA MachVmRegionOK ==
  ASSUME QueryInv, MachVmRegion
  PROVE  QueryInv'
  <1>1. /\ platform = "mac" /\ pc = "walk" /\ addr < hi
        /\ UNCHANGED <<query, prot, found, next, history>>
    BY DEF MachVmRegion
  <1>2. /\ QueryTypeOK /\ Noted /\ Walked  BY DEF QueryInv
  <1>3. PICK a : a = PageOf(addr)  OBVIOUS
  <1>4. /\ a \in Page /\ a \in Touched
        /\ a * PageSize <= addr /\ addr < (a + 1) * PageSize
    BY <1>1, <1>2, <1>3, PageAt
  <1>5. Noted' /\ Touched' = Touched  BY <1>1, <1>2, Quiet
  <1>6. platform' # "linux"  BY <1>1 DEF query
  <1>7. found' \in BOOLEAN /\ next' \in 0 .. PageCount * PageSize
    BY <1>1, <1>2 DEF QueryTypeOK
  <1>8. addr \in Nat /\ PageSize \in Nat \ {0} /\ Page \subseteq Nat  BY <1>2, QueryNumbers
  <1>9. ASSUME ~ Has(a, prot), pc' = "done", answer' = FALSE, addr' = addr
        PROVE  QueryInv'
    <2>2. QueryTypeOK' /\ Walked'  BY <1>1, <1>2, <1>7, <1>9, WalkStays
    <2>3. a \in lacked  BY <1>2, <1>4, <1>9 DEF Noted
    <2>4. Touched' \cap lacked' # {}  BY <1>1, <1>4, <1>5, <2>3 DEF history
    <2>5. InStep' /\ NoMeansSome'  BY <1>9, <2>4 DEF InStep, NoMeansSome
    <2> QED  BY <1>5, <2>2, <2>5 DEF QueryInv
  <1>10. CASE MappedFrom(addr) = {}
    <2>1. pc' = "done" /\ answer' = FALSE /\ addr' = addr
      BY <1>10 DEF MachVmRegion, Return
    <2>2. ~ Has(a, prot)  BY <1>4, <1>10 DEF Has, MappedFrom
    <2> QED  BY <1>9, <2>1, <2>2
  <1>11. CASE MappedFrom(addr) # {}
    <2>1. PICK p \in Page :
           /\ p = Min(MappedFrom(addr))
           /\ prot[p] # Unmapped /\ (p + 1) * PageSize > addr
           /\ \A q \in Page : (q + 1) * PageSize > addr /\ prot[q] # Unmapped => p <= q
      BY <1>8, <1>11, FirstMapped
    <2>2. CASE Has(p, prot)
      <3>1. addr' = RegionEnd(p) /\ UNCHANGED <<pc, answer>>
        BY <1>11, <2>1, <2>2 DEF MachVmRegion
      <3>2. /\ (p + 1) * PageSize <= RegionEnd(p) /\ RegionBegin(p) <= p * PageSize
            /\ RegionEnd(p) \in Int /\ RegionBegin(p) \in Nat
        BY <1>2, <2>1, EndFacts, QueryNumbers
      <3>3. addr <= RegionEnd(p)
        <4>1. (p + 1) * PageSize \in Nat  BY <1>8
        <4> QED  BY <1>8, <2>1, <3>2, <4>1
      <3>4. ASSUME NEW q \in Touched, (q + 1) * PageSize > addr,
                   (q + 1) * PageSize <= RegionBegin(p)
            PROVE  Seen(q)
        <4>1. q \in Page  BY DEF Touched, PagesOf
        <4>2. ~ (p <= q)
          <5>1. (q + 1) * PageSize \in Nat /\ p * PageSize \in Nat  BY <1>8, <4>1
          <5>2. (q + 1) * PageSize <= p * PageSize  BY <3>2, <3>4, <5>1
          <5>3. q + 1 \in Int /\ p \in Int /\ q \in Nat  BY <1>8, <4>1
          <5>4. q + 1 <= p  BY <1>8, <5>2, <5>3, TimesOrder
          <5> QED  BY <5>3, <5>4
        <4>3. prot[q] = Unmapped  BY <2>1, <3>4, <4>1, <4>2
        <4> QED  BY <1>1, <1>2, <4>1, <4>3 DEF Noted, Seen
      <3>5. QueryTypeOK' /\ Walked'
        <4>1. pc' \in {"walk", "done"} /\ answer' \in BOOLEAN /\ pc' # "done"
          BY <1>1, <1>2, <3>1 DEF QueryTypeOK
        <4>2. UNCHANGED <<query, prot, history>>  BY <1>1
        <4> QED  BY <1>1, <1>2, <1>7, <2>2, <3>1, <3>3, <3>4, <4>1, <4>2, WalksTo
      <3>6. InStep' /\ NoMeansSome'  BY <1>1, <1>6, <3>1 DEF InStep, NoMeansSome
      <3> QED  BY <1>5, <3>5, <3>6 DEF QueryInv
    <2>3. CASE ~ Has(p, prot)
      <3>1. pc' = "done" /\ answer' = FALSE /\ addr' = addr
        BY <1>11, <2>1, <2>3 DEF MachVmRegion, Return
      <3>2. ~ Has(a, prot)
        <4>1. SUFFICES ASSUME Has(a, prot) PROVE FALSE  OBVIOUS
        <4>2. (a + 1) * PageSize \in Nat  BY <1>4, <1>8
        <4>3. prot[a] # Unmapped /\ (a + 1) * PageSize > addr  BY <1>4, <1>8, <4>1, <4>2 DEF Has
        <4>4. p <= a  BY <1>4, <2>1, <4>3
        <4>5. p = a
          <5>1. addr < (p + 1) * PageSize /\ a * PageSize < (p + 1) * PageSize
            <6>1. (p + 1) * PageSize \in Nat /\ a * PageSize \in Nat  BY <1>4, <1>8
            <6> QED  BY <1>4, <1>8, <2>1, <6>1
          <5>2. a < p + 1
            <6>1. a \in Int /\ p + 1 \in Int  BY <1>4, <1>8
            <6> QED  BY <1>8, <5>1, <6>1, TimesOrder
          <5> QED  BY <1>4, <1>8, <4>4, <5>2
        <4> QED  BY <2>3, <4>1, <4>5
      <3> QED  BY <1>9, <3>1, <3>2
    <2> QED  BY <2>2, <2>3
  <1> QED  BY <1>10, <1>11

LEMMA LoopEndOK ==
  ASSUME QueryInv, LoopEnd
  PROVE  QueryInv'
  <1>1. /\ pc = "walk" /\ addr >= hi /\ pc' = "done" /\ answer' = TRUE
        /\ UNCHANGED <<query, prot, addr, found, next, history>>
    BY DEF LoopEnd, Return
  <1>2. QueryTypeOK /\ Noted /\ Walked  BY DEF QueryInv
  <1>3. found' \in BOOLEAN /\ next' \in 0 .. PageCount * PageSize
    BY <1>1, <1>2 DEF QueryTypeOK
  <1>4. QueryTypeOK' /\ Walked'  BY <1>1, <1>2, <1>3, WalkStays
  <1>5. InStep' /\ NoMeansSome'  BY <1>1 DEF InStep, NoMeansSome
  <1>6. Noted'  BY <1>1, <1>2, Quiet
  <1> QED  BY <1>4, <1>5, <1>6 DEF QueryInv

\* Linux: a page of an undisturbed region has the flag, so a walk that is in step finds a
\* line for it.
LEMMA HereIsMapped ==
  ASSUME QueryInv, platform = "linux", pc = "walk", lo # hi, Steady
  PROVE  /\ PageOf(addr) \in Page /\ Has(PageOf(addr), prot)
         /\ PageOf(addr) * PageSize <= addr /\ addr < (PageOf(addr) + 1) * PageSize
         /\ next < (PageOf(addr) + 1) * PageSize
         /\ PageOf(addr) \in MappedFrom(next)
  <1>1. next <= addr /\ addr < hi  BY DEF QueryInv, InStep
  <1>2. QueryTypeOK /\ Noted  BY DEF QueryInv
  <1>3. PICK a : a = PageOf(addr)  OBVIOUS
  <1>4. /\ a \in Page /\ a \in Touched
        /\ a * PageSize <= addr /\ addr < (a + 1) * PageSize
    BY <1>1, <1>2, <1>3, PageAt
  <1>5. Has(a, prot)  BY <1>2, <1>4 DEF Noted, Steady
  <1>6. (a + 1) * PageSize > next
    <2>1. addr \in Nat /\ next \in Nat /\ (a + 1) * PageSize \in Nat
      BY <1>2, <1>4, QueryNumbers
    <2> QED  BY <1>1, <1>4, <2>1
  <1>7. a \in MappedFrom(next)  BY <1>4, <1>5, <1>6 DEF Has, MappedFrom
  <1>8. next < (a + 1) * PageSize
    <2>1. next \in Nat /\ (a + 1) * PageSize \in Nat
      BY <1>2, <1>4, QueryNumbers
    <2> QED  BY <1>6, <2>1
  <1> QED  BY <1>3, <1>4, <1>5, <1>7, <1>8

LEMMA EmptyOK ==
  ASSUME QueryInv, Empty
  PROVE  QueryInv'
  <1>1. /\ platform = "linux" /\ pc = "walk" /\ lo = hi /\ pc' = "done" /\ answer' = FALSE
        /\ UNCHANGED <<query, prot, addr, found, next, history>>
    BY DEF Empty, Return
  <1>2. QueryTypeOK /\ Noted /\ Walked  BY DEF QueryInv
  <1>3. found' \in BOOLEAN /\ next' \in 0 .. PageCount * PageSize
    BY <1>1, <1>2 DEF QueryTypeOK
  <1>4. QueryTypeOK' /\ Walked'  BY <1>1, <1>2, <1>3, WalkStays
  <1>5. Noted'  BY <1>1, <1>2, Quiet
  <1>6. platform' = "linux" /\ lo' = hi'  BY <1>1 DEF query
  <1>7. InStep' /\ NoMeansSome'  BY <1>1, <1>6 DEF InStep, NoMeansSome
  <1> QED  BY <1>4, <1>5, <1>7 DEF QueryInv

\* A walk of a region that was disturbed, or that lacks the flag somewhere, may answer no.
LEMMA Disturbed ==
  ASSUME platform = "linux", ~ Steady, UNCHANGED <<query, prot, history>>
  PROVE  InStep' /\ NoMeansSome'
  <1>1. Touched' = Touched /\ Steady' = Steady  BY Quiet
  <1>2. lacked' = lacked /\ changed' = changed /\ platform' = platform  BY DEF history, query
  <1>3. InStep'  BY <1>1 DEF InStep
  <1>4. NoMeansSome'  BY <1>1, <1>2 DEF NoMeansSome, Steady
  <1> QED  BY <1>3, <1>4

LEMMA EndOfFileOK ==
  ASSUME QueryInv, EndOfFile
  PROVE  QueryInv'
  <1>1. /\ platform = "linux" /\ pc = "walk" /\ lo # hi /\ MappedFrom(next) = {}
        /\ pc' = "done" /\ answer' = (addr >= hi)
        /\ UNCHANGED <<query, prot, addr, found, next, history>>
    BY DEF EndOfFile, Return
  <1>2. QueryTypeOK /\ Noted /\ Walked  BY DEF QueryInv
  <1>3. found' \in BOOLEAN /\ next' \in 0 .. PageCount * PageSize /\ answer' \in BOOLEAN
    BY <1>1, <1>2 DEF QueryTypeOK
  <1>4. QueryTypeOK' /\ Walked'  BY <1>1, <1>2, <1>3, WalkStays
  <1>5. Noted'  BY <1>1, <1>2, Quiet
  <1>6. ~ Steady  BY <1>1, HereIsMapped
  <1>7. InStep' /\ NoMeansSome'  BY <1>1, <1>6, Disturbed
  <1> QED  BY <1>4, <1>5, <1>7 DEF QueryInv

\* The line that a walk in step finds is that of the region it is in, which starts where
\* the walk is if it is not the first, or one before all of the region asked about.
LEMMA LineInStep ==
  ASSUME QueryInv, platform = "linux", pc = "walk", lo # hi, Steady,
         NEW p \in Page, p = Min(MappedFrom(next))
  PROVE  \/ /\ Inside(RegionBegin(p), RegionEnd(p)) /\ Has(p, prot)
            /\ RegionBegin(p) <= addr /\ addr < RegionEnd(p)
         \/ /\ ~ found /\ ~ Inside(RegionBegin(p), RegionEnd(p))
            /\ RegionBegin(p) <= addr /\ RegionEnd(p) <= addr
  <1>1. QueryTypeOK /\ Noted /\ Walked  BY DEF QueryInv
  <1>2. PICK a : a = PageOf(addr)  OBVIOUS
  <1>3. /\ a \in Page /\ Has(a, prot)
        /\ a * PageSize <= addr /\ addr < (a + 1) * PageSize
        /\ next < (a + 1) * PageSize /\ a \in MappedFrom(next)
    BY <1>2, HereIsMapped
  <1>4. /\ addr \in Nat /\ next \in Nat /\ PageSize \in Nat \ {0} /\ Page \subseteq Nat
        /\ lo \in Nat
    BY <1>1, QueryNumbers
  <1>5. /\ prot[p] # Unmapped /\ (p + 1) * PageSize > next /\ p <= a
    <2>1. PICK r \in Page :
           /\ r = Min(MappedFrom(next))
           /\ prot[r] # Unmapped /\ (r + 1) * PageSize > next
           /\ \A q \in Page : (q + 1) * PageSize > next /\ prot[q] # Unmapped => r <= q
      BY <1>3, <1>4, FirstMapped
    <2>2. (a + 1) * PageSize > next /\ prot[a] # Unmapped  BY <1>3 DEF MappedFrom
    <2> QED  BY <1>3, <2>1, <2>2
  <1>6. PICK b, m \in Page :
           /\ b <= p /\ p <= m
           /\ RegionBegin(p) = b * PageSize /\ RegionEnd(p) = (m + 1) * PageSize
           /\ \A q \in b .. m : q \in Page /\ prot[q] = prot[p]
           /\ \A r \in b + 1 .. m : Joined(r)
    BY RegionFacts
  <1>7. /\ b \in Nat /\ m \in Nat /\ p \in Nat /\ a \in Nat
    BY <1>3, <1>4, <1>6
  <1>8. /\ b * PageSize \in Nat /\ a * PageSize \in Nat /\ (m + 1) * PageSize \in Nat
        /\ (a + 1) * PageSize \in Nat /\ (p + 1) * PageSize \in Nat
    BY <1>4, <1>7
  <1>9. b * PageSize <= a * PageSize
    <2>1. b <= a  BY <1>5, <1>6, <1>7
    <2> QED  BY <1>4, <1>7, <2>1, TimesOrder
  <1>10. RegionBegin(p) <= addr  BY <1>3, <1>4, <1>6, <1>8, <1>9
  <1>11. CASE a <= m
    <2>1. Has(p, prot)
      <3>1. a \in b .. m  BY <1>5, <1>6, <1>7, <1>11
      <3> QED  BY <1>3, <1>6, <3>1 DEF Has
    <2>2. addr < RegionEnd(p)
      <3>1. (a + 1) * PageSize <= (m + 1) * PageSize
        <4>1. a + 1 \in Int /\ m + 1 \in Int /\ a + 1 <= m + 1  BY <1>7, <1>11
        <4> QED  BY <1>4, <4>1, TimesOrder
      <3> QED  BY <1>3, <1>4, <1>6, <1>8, <3>1
    <2>3. CASE found
      <3>1. next = addr /\ addr > lo /\ \A q \in Page : addr = q * PageSize => ~ Joined(q)
        BY <2>3 DEF QueryInv, InStep
      <3>2. addr # lo  BY <1>4, <3>1
      <3>3. PICK q \in Nat : addr = q * PageSize  BY <1>1, <3>2 DEF Walked
      <3>4. q = a
        <4>1. a <= q  BY <1>3, <1>4, <1>7, <3>3, TimesOrder
        <4>2. q < a + 1
          <5>1. a + 1 \in Int  BY <1>7
          <5> QED  BY <1>3, <1>4, <3>3, <5>1, TimesOrder
        <4> QED  BY <1>7, <4>1, <4>2
      <3>5. ~ Joined(a) /\ addr = a * PageSize  BY <1>3, <3>1, <3>3, <3>4
      <3>6. a <= p
        <4>1. a * PageSize < (p + 1) * PageSize  BY <1>5, <1>8, <3>1, <3>5
        <4>2. p + 1 \in Int /\ a \in Int  BY <1>7
        <4>3. a < p + 1  BY <1>4, <4>1, <4>2, TimesOrder
        <4> QED  BY <1>7, <4>3
      <3>7. ~ (b < a)
        <4>1. SUFFICES ASSUME b < a PROVE FALSE  OBVIOUS
        <4>2. a \in b + 1 .. m  BY <1>7, <1>11, <4>1
        <4> QED  BY <1>6, <3>5, <4>2
      <3>8. b = a  BY <1>5, <1>6, <1>7, <3>6, <3>7
      <3>9. RegionBegin(p) = addr  BY <1>6, <3>5, <3>8
      <3> QED  BY <1>10, <2>1, <2>2, <2>3, <3>9 DEF Inside
    <2>4. CASE ~ found
      <3>1. addr >= RegionBegin(p)  BY <1>4, <1>6, <1>8, <1>10
      <3> QED  BY <1>10, <2>1, <2>2, <2>4, <3>1 DEF Inside
    <2> QED  BY <2>3, <2>4
  <1>12. CASE ~ (a <= m)
    <2>1. RegionEnd(p) <= addr
      <3>1. (m + 1) * PageSize <= a * PageSize
        <4>1. m + 1 \in Int /\ a \in Int /\ m + 1 <= a  BY <1>7, <1>12
        <4> QED  BY <1>4, <4>1, TimesOrder
      <3> QED  BY <1>3, <1>4, <1>6, <1>8, <3>1
    <2>2. ~ found
      <3>1. SUFFICES ASSUME found PROVE FALSE  OBVIOUS
      <3>2. next = addr  BY <3>1 DEF QueryInv, InStep
      <3>3. (p + 1) * PageSize <= RegionEnd(p)  BY EndFacts
      <3> QED  BY <1>4, <1>5, <1>6, <1>8, <2>1, <3>2, <3>3
    <2>3. ~ Inside(RegionBegin(p), RegionEnd(p))
      <3>1. ~ (addr < RegionEnd(p))  BY <1>4, <1>6, <1>8, <2>1
      <3> QED  BY <2>2, <3>1 DEF Inside
    <2> QED  BY <1>10, <2>1, <2>2, <2>3
  <1> QED  BY <1>11, <1>12

LEMMA LineOK ==
  ASSUME QueryInv, Line
  PROVE  QueryInv'
  <1> DEFINE p == Min(MappedFrom(next))
             b == RegionBegin(p)
             e == RegionEnd(p)
             inside == Inside(b, e)
             stop == (found /\ ~ inside) \/ (inside /\ ~ Has(p, prot))
             to == IF inside /\ Has(p, prot) THEN e ELSE addr
  <1>1. /\ platform = "linux" /\ pc = "walk" /\ lo # hi /\ MappedFrom(next) # {}
        /\ UNCHANGED <<query, prot, history>>
    BY DEF Line
  <1>2. /\ found' = (found \/ inside) /\ addr' = to /\ next' = e
        /\ \/ ~ stop /\ to < hi /\ to >= b /\ UNCHANGED <<pc, answer>>
           \/ /\ ~ (~ stop /\ to < hi /\ to >= b)
              /\ pc' = "done" /\ answer' = (to >= hi)
    <2>1. /\ found' = (found \/ inside) /\ addr' = to /\ next' = e
          /\ IF ~ stop /\ to < hi /\ to >= b
             THEN UNCHANGED <<pc, answer>>
             ELSE Return(to >= hi)
      BY DEF Line
    <2> HIDE DEF stop, to
    <2> QED  BY <2>1 DEF Return
  <1>3. QueryTypeOK /\ Noted /\ Walked  BY DEF QueryInv
  <1>4. /\ addr \in Nat /\ next \in Nat /\ lo \in Nat /\ hi \in Nat /\ lo <= addr
    BY <1>3, QueryNumbers
  <1>5. p \in Page
    <2>1. PICK q \in Page : q = p  BY <1>1, <1>4, FirstMapped
    <2> QED  BY <2>1
  <1> HIDE DEF p
  <1>6. e \in 0 .. PageCount * PageSize /\ b \in Nat  BY <1>5, EndFacts
  <1>7. e \in Int  BY <1>3, <1>6, QueryNumbers
  <1> HIDE DEF b, e
  <1>8. found' \in BOOLEAN /\ next' \in 0 .. PageCount * PageSize
    <2>1. inside \in BOOLEAN  BY DEF Inside
    <2>2. found \in BOOLEAN  BY <1>3 DEF QueryTypeOK
    <2> QED  BY <1>2, <1>6, <2>1, <2>2
  <1>9. Noted'  BY <1>1, <1>3, Quiet
  <1>10. /\ pc' \in {"walk", "done"} /\ answer' \in BOOLEAN
         /\ pc' = "done" /\ answer' => addr' >= hi
    <2>1. CASE UNCHANGED <<pc, answer>>  BY <1>1, <1>3, <2>1 DEF QueryTypeOK
    <2>2. CASE pc' = "done" /\ answer' = (to >= hi)
      <3>1. addr' = to /\ to \in Int  BY <1>2, <1>4, <1>7
      <3> HIDE DEF to
      <3>2. (to >= hi) \in BOOLEAN  BY <1>4, <3>1
      <3>3. PICK v : v = (to >= hi)  OBVIOUS
      <3>4. v \in BOOLEAN /\ (v => to >= hi) /\ answer' = v
        <4>1. v \in BOOLEAN  BY <3>2, <3>3, Zenon
        <4>2. v = TRUE => to >= hi  BY <3>3
        <4>3. answer' = v  BY <2>2, <3>3, Zenon
        <4> QED  BY <4>1, <4>2, <4>3
      <3> QED  BY <2>2, <3>1, <3>4
    <2> QED  BY <1>2, <2>1, <2>2
  <1>11. QueryTypeOK' /\ Walked'
    <2>1. CASE inside /\ Has(p, prot)
      <3>1. addr' = e  BY <1>2, <2>1
      <3>2. b <= addr /\ addr <= e
        <4>1. CASE ~ found  BY <1>4, <1>6, <1>7, <2>1, <4>1 DEF Inside
        <4>2. CASE found
          <5>1. b = addr  BY <2>1, <4>2 DEF Inside
          <5>2. (p + 1) * PageSize <= e /\ b <= p * PageSize  BY <1>5, EndFacts DEF b, e
          <5>3. p * PageSize \in Nat /\ (p + 1) * PageSize \in Nat /\ p * PageSize <= (p + 1) * PageSize
            BY <1>3, <1>5, QueryNumbers
          <5> QED  BY <1>6, <1>7, <5>1, <5>2, <5>3
        <4> QED  BY <4>1, <4>2
      <3>3. ASSUME NEW q \in Touched, (q + 1) * PageSize > addr, (q + 1) * PageSize <= b
            PROVE  Seen(q)
        <4>1. q \in Nat  BY <1>3, QueryNumbers DEF Touched, PagesOf
        <4>2. (q + 1) * PageSize \in Nat  BY <1>3, <4>1, QueryNumbers
        <4> QED  BY <1>4, <1>6, <3>2, <3>3, <4>2
      <3>4. addr' = RegionEnd(p) /\ addr <= RegionEnd(p)  BY <3>1, <3>2 DEF e
      <3>5. \A q \in Touched : (q + 1) * PageSize > addr /\ (q + 1) * PageSize <= RegionBegin(p)
                                 => Seen(q)
        BY <3>3 DEF b
      <3> HIDE DEF inside
      <3> QED  BY <1>1, <1>3, <1>5, <1>8, <1>10, <2>1, <3>4, <3>5, WalksTo
    <2>2. CASE ~ (inside /\ Has(p, prot))
      <3>1. addr' = addr  BY <1>2, <2>2
      <3>2. pc' = "done" /\ answer' => addr >= hi  BY <1>10, <3>1
      <3> HIDE DEF inside
      <3> QED  BY <1>1, <1>3, <1>8, <1>10, <3>1, <3>2, WalkStays
    <2> QED  BY <2>1, <2>2
  <1>12. CASE ~ Steady
    <2>1. InStep' /\ NoMeansSome'  BY <1>1, <1>12, Disturbed
    <2> QED  BY <1>9, <1>11, <2>1 DEF QueryInv
  <1>13. CASE Steady
    <2>1. addr < hi  BY <1>1, <1>13 DEF QueryInv, InStep
    <2>2. \/ inside /\ Has(p, prot) /\ b <= addr /\ addr < e
          \/ ~ found /\ ~ inside /\ b <= addr /\ e <= addr
      <3>1. p = Min(MappedFrom(next))  BY DEF p
      <3> QED  BY <1>1, <1>5, <1>13, <3>1, LineInStep DEF b, e
    <2>3. hi' = hi /\ lo' = lo  BY <1>1 DEF query
    <2>4. CASE inside /\ Has(p, prot) /\ b <= addr /\ addr < e
      <3>1. to = e /\ ~ stop /\ to >= b
        <4>1. to = e /\ ~ stop  BY <2>4
        <4>2. e >= b  BY <1>4, <1>6, <1>7, <2>4
        <4> QED  BY <4>1, <4>2
      <3>2. addr' = e /\ next' = e /\ found' = TRUE
        <4> HIDE DEF inside
        <4> QED  BY <1>2, <2>4, <3>1
      <3>3. \/ e < hi /\ pc' = "walk"
            \/ pc' = "done" /\ answer' = TRUE
        <4>1. e < hi \/ e >= hi  BY <1>4, <1>7
        <4> HIDE DEF stop, to
        <4> QED  BY <1>1, <1>2, <3>1, <4>1
      <3>4. NoMeansSome'  BY <3>3 DEF NoMeansSome
      <3>5. InStep'
        <4>1. CASE e < hi /\ pc' = "walk"
          <5>1. next' <= addr' /\ addr' < hi' /\ found' /\ next' = addr' /\ addr' > lo'
            BY <1>4, <1>7, <2>3, <2>4, <3>2, <4>1
          <5>2. ASSUME NEW q \in Page, addr' = q * PageSize PROVE ~ Joined(q)'
            <6>1. PICK c, m \in Page :
                     /\ c <= p /\ p <= m
                     /\ RegionBegin(p) = c * PageSize /\ RegionEnd(p) = (m + 1) * PageSize
                     /\ ~ Joined(m + 1)
              BY <1>5, RegionFacts
            <6>2. q * PageSize = (m + 1) * PageSize  BY <3>2, <5>2, <6>1 DEF e
            <6>3. q = m + 1
              <7>1. q \in Int /\ m + 1 \in Int /\ PageSize \in Nat \ {0}
                BY <1>3, <6>1, QueryNumbers
              <7>2. q <= m + 1 /\ m + 1 <= q  BY <6>2, <7>1, TimesOrder
              <7> QED  BY <7>1, <7>2
            <6> QED  BY <1>1, <6>1, <6>3, Quiet
          <5> QED  BY <5>1, <5>2 DEF InStep
        <4>2. CASE pc' = "done"  BY <4>2 DEF InStep
        <4> QED  BY <3>3, <4>1, <4>2
      <3> QED  BY <1>9, <1>11, <3>4, <3>5 DEF QueryInv
    <2>5. CASE ~ found /\ ~ inside /\ b <= addr /\ e <= addr
      <3>1. to = addr /\ ~ stop  BY <2>5
      <3>2. to >= b /\ to < hi  BY <1>4, <1>6, <2>1, <2>5, <3>1
      <3>3. pc' = "walk" /\ addr' = addr /\ next' = e /\ found' = FALSE
        <4>1. UNCHANGED <<pc, answer>>
          <5> HIDE DEF stop, to
          <5> QED  BY <1>2, <3>1, <3>2
        <4>2. found' = (found \/ inside)  BY <1>2
        <4>3. found' = FALSE
          <5> HIDE DEF inside
          <5> QED  BY <2>5, <4>2
        <4> QED  BY <1>1, <1>2, <3>1, <4>1, <4>3
      <3>4. addr = lo  BY <1>1, <1>13, <2>5 DEF QueryInv, InStep
      <3>5. next' <= addr' /\ addr' < hi' /\ addr' = lo' /\ ~ found'
        BY <2>1, <2>3, <2>5, <3>3, <3>4
      <3>6. InStep' /\ NoMeansSome'  BY <3>3, <3>5 DEF InStep, NoMeansSome
      <3> QED  BY <1>9, <1>11, <3>6 DEF QueryInv
    <2> QED  BY <2>2, <2>4, <2>5
  <1> QED  BY <1>12, <1>13

\* Other threads: what they change outside of the region asked about leaves the walk in
\* step.
LEMMA ChangeOK ==
  ASSUME QueryInv, NEW p \in Page, NEW to \in Protections, Change(p, to)
  PROVE  QueryInv'
  <1>1. /\ pc = "walk" /\ changes < MaxChanges
        /\ prot' = [prot EXCEPT ![p] = to]
        /\ had' = IF Has(p, prot') THEN had \cup {p} ELSE had
        /\ lacked' = IF Has(p, prot') THEN lacked ELSE lacked \cup {p}
        /\ holes' = IF to = Unmapped THEN holes \cup {p} ELSE holes
        /\ changed' = changed \cup {p}
        /\ changes' = changes + 1
        /\ UNCHANGED <<query, pc, addr, found, next, answer>>
    BY DEF Change
  <1>2. QueryTypeOK /\ Noted /\ Walked /\ InStep  BY DEF QueryInv
  <1>3. /\ prot \in [Page -> (SUBSET Flag) \cup {Unmapped}]
        /\ to \in (SUBSET Flag) \cup {Unmapped}
    BY <1>2, RegionQueryAssumption DEF QueryTypeOK
  <1>4. /\ prot' \in [Page -> (SUBSET Flag) \cup {Unmapped}]
        /\ prot'[p] = to /\ \A q \in Page \ {p} : prot'[q] = prot[q]
    BY <1>1, <1>3
  <1>5. /\ platform' = platform /\ lo' = lo /\ hi' = hi /\ flag' = flag /\ seams' = seams
    BY <1>1 DEF query
  <1>6. Touched' = Touched  BY <1>5 DEF Touched, PagesOf
  <1>7. QueryTypeOK'
    <2>1. changes' \in 0 .. MaxChanges
      BY <1>1, <1>2, RegionQueryAssumption DEF QueryTypeOK
    <2>2. had' \subseteq Page /\ lacked' \subseteq Page /\ holes' \subseteq Page /\ changed' \subseteq Page
      BY <1>1, <1>2 DEF QueryTypeOK
    <2> QED  BY <1>1, <1>2, <1>4, <1>5, <2>1, <2>2 DEF QueryTypeOK
  <1>8. had \subseteq had' /\ lacked \subseteq lacked' /\ holes \subseteq holes'
        /\ changed \subseteq changed' /\ p \in changed'
    BY <1>1
  <1>9. \A q \in Page : Has(q, prot)' <=> Has(q, prot')  BY <1>5 DEF Has
  <1>10. Noted'
    <2>1. ASSUME NEW q \in Page
          PROVE  /\ Has(q, prot') => q \in had'
                 /\ ~ Has(q, prot') => q \in lacked'
                 /\ prot'[q] = Unmapped => q \in holes'
      <3>1. CASE q = p  BY <1>1, <1>4, <3>1
      <3>2. CASE q # p
        <4>1. prot'[q] = prot[q]  BY <1>4, <3>2
        <4>2. Has(q, prot') <=> Has(q, prot)  BY <4>1 DEF Has
        <4> QED  BY <1>2, <1>8, <4>1, <4>2 DEF Noted
      <3> QED  BY <3>1, <3>2
    <2> QED  BY <1>9, <2>1 DEF Noted
  <1>11. Walked'
    <2>1. \A q : Seen(q) => Seen(q)'  BY <1>5, <1>8 DEF Seen
    <2>2. pc' # "done"  BY <1>1
    <2> QED  BY <1>1, <1>2, <1>5, <1>6, <2>1, <2>2 DEF Walked
  <1>12. NoMeansSome'  BY <1>1 DEF NoMeansSome
  <1>13. InStep'
    <2>1. SUFFICES ASSUME platform = "linux", lo # hi, Steady'
                   PROVE  /\ next <= addr /\ addr < hi
                          /\ ~ found => addr = lo
                          /\ found => /\ next = addr /\ addr > lo
                                      /\ \A q \in Page : addr = q * PageSize => ~ Joined(q)'
      <3>1. pc' = pc /\ addr' = addr /\ found' = found /\ next' = next  BY <1>1
      <3> QED  BY <1>5, <3>1 DEF InStep
    <2>2. Steady /\ p \notin Touched  BY <1>6, <1>8, <2>1 DEF Steady
    <2>3. /\ next <= addr /\ addr < hi
          /\ ~ found => addr = lo
          /\ found => /\ next = addr /\ addr > lo
                      /\ \A q \in Page : addr = q * PageSize => ~ Joined(q)
      BY <1>1, <1>2, <2>1, <2>2 DEF InStep
    <2>4. ASSUME found, NEW q \in Page, addr = q * PageSize, Joined(q)'
          PROVE  FALSE
      <3>1. q - 1 \in Page /\ prot'[q] = prot'[q - 1] /\ q \notin seams
        BY <1>5, <2>4 DEF Joined
      <3>2. /\ q \in Nat /\ PageSize \in Nat \ {0} /\ lo \in Nat /\ hi \in Nat
            /\ (q - 1) * PageSize \in Int /\ q * PageSize \in Nat
            /\ (q + 1) * PageSize \in Nat
            /\ (q - 1) * PageSize < q * PageSize /\ q * PageSize < (q + 1) * PageSize
            /\ (q - 1) + 1 = q
        BY <1>2, QueryNumbers
      <3>3. q \in Touched
        <4>1. q * PageSize < hi /\ lo < (q + 1) * PageSize /\ lo < hi  BY <2>3, <2>4, <3>2
        <4> QED  BY <4>1 DEF Touched, PagesOf
      <3>4. q - 1 \in Touched
        <4>1. (q - 1) * PageSize < hi /\ lo < q * PageSize /\ lo < hi  BY <2>3, <2>4, <3>2
        <4> QED  BY <3>1, <3>2, <4>1 DEF Touched, PagesOf
      <3>5. q # p /\ q - 1 # p  BY <2>2, <3>3, <3>4
      <3>6. prot[q] = prot[q - 1]  BY <1>4, <3>1, <3>5
      <3>7. Joined(q)  BY <3>1, <3>6 DEF Joined
      <3> QED  BY <2>3, <2>4, <3>7
    <2> QED  BY <2>3, <2>4
  <1> QED  BY <1>7, <1>10, <1>11, <1>12, <1>13 DEF QueryInv

LEMMA QueryStarts ==
  ASSUME QueryInit
  PROVE  QueryInv
  <1>1. /\ platform \in Platforms /\ lo \in Begins /\ hi \in Ends /\ lo <= hi /\ flag \in Asked
        /\ prot \in Layouts /\ seams \in Seams /\ pc = "walk" /\ addr = lo
        /\ found = FALSE /\ next = 0 /\ answer = FALSE
        /\ had = {p \in Page : Has(p, prot)} /\ lacked = Page \ had
        /\ holes = {p \in Page : prot[p] = Unmapped} /\ changed = {} /\ changes = 0
    BY DEF QueryInit
  <1>2. /\ PageCount \in Nat /\ PageSize \in Nat \ {0} /\ Page \subseteq Nat
        /\ MaxChanges \in Nat
    BY AddressSpaceAssumption, RegionQueryAssumption DEF Page
  <1>3. PageCount * PageSize \in Nat  BY <1>2
  <1>4. lo \in 0 .. PageCount * PageSize /\ hi \in 0 .. PageCount * PageSize
    BY <1>1, RegionQueryAssumption
  <1>5. QueryTypeOK
    <2>1. prot \in [Page -> (SUBSET Flag) \cup {Unmapped}]  BY <1>1, AddressSpaceAssumption
    <2>2. addr \in lo .. PageCount * PageSize /\ next \in 0 .. PageCount * PageSize
          /\ changes \in 0 .. MaxChanges
      BY <1>1, <1>2, <1>3, <1>4
    <2>3. had \subseteq Page /\ lacked \subseteq Page /\ holes \subseteq Page /\ changed \subseteq Page
      BY <1>1
    <2> QED  BY <1>1, <2>1, <2>2, <2>3 DEF QueryTypeOK
  <1>6. Noted  BY <1>1 DEF Noted
  <1>7. Walked
    <2>1. ASSUME NEW q \in Touched PROVE ~ ((q + 1) * PageSize <= addr)
      <3>1. q \in Nat /\ lo < (q + 1) * PageSize  BY <1>2 DEF Touched, PagesOf
      <3>2. (q + 1) * PageSize \in Nat /\ lo \in Nat  BY <1>2, <1>3, <1>4, <3>1
      <3> QED  BY <1>1, <3>1, <3>2
    <2> QED  BY <1>1, <2>1 DEF Walked
  <1>8. InStep
    <2>1. lo # hi => 0 <= lo /\ lo < hi  BY <1>1, <1>3, <1>4
    <2> QED  BY <1>1, <2>1 DEF InStep
  <1>9. NoMeansSome  BY <1>1 DEF NoMeansSome
  <1> QED  BY <1>5, <1>6, <1>7, <1>8, <1>9 DEF QueryInv

LEMMA QueryInvariant == QuerySpec => []QueryInv
  <1>1. QueryInit => QueryInv  BY QueryStarts
  <1>2. ASSUME QueryInv, [QueryNext]_queryVars PROVE QueryInv'
    <2>1. CASE QueryNext
      <3>1. CASE Walk
        BY <1>2, <3>1, EmptyOK, LineOK, EndOfFileOK, VirtualQueryOK, MachVmRegionOK, LoopEndOK DEF Walk
      <3>2. CASE \E p \in Page, to \in Protections : Change(p, to)
        BY <1>2, <3>2, ChangeOK
      <3> QED  BY <2>1, <3>1, <3>2 DEF QueryNext
    <2>2. CASE UNCHANGED queryVars
      <3>1. /\ UNCHANGED <<query, prot, history>>
            /\ UNCHANGED <<pc, addr, found, next, answer>>
        BY <2>2 DEF queryVars
      <3>2. Noted' /\ Touched' = Touched /\ Steady' = Steady
            /\ \A q : Seen(q)' = Seen(q) /\ Joined(q)' = Joined(q)
        BY <1>2, <3>1, Quiet DEF QueryInv
      <3>3. QueryTypeOK'  BY <1>2, <3>1 DEF QueryInv, QueryTypeOK, query, history
      <3>4. Walked' /\ InStep' /\ NoMeansSome'
        BY <1>2, <3>1, <3>2 DEF QueryInv, Walked, InStep, NoMeansSome, query, history
      <3> QED  BY <3>2, <3>3, <3>4 DEF QueryInv
    <2> QED  BY <1>2, <2>1, <2>2
  <1> QED  BY <1>1, <1>2, PTL DEF QuerySpec

\* The walk of is_readable and its like never leaves the address space, and its record of
\* what the pages were is of pages.
THEOREM QueryTypeCorrect == QuerySpec => []QueryTypeOK
  <1>1. QueryInv => QueryTypeOK  BY DEF QueryInv
  <1> QED  BY <1>1, QueryInvariant, PTL

\* A yes of is_readable, is_writable and is_executable holds of every page of the region at
\* some time of the call, whatever other threads do meanwhile: the walk skips no page, but
\* one that macOS does not speak of because it was not mapped (process.cpp of the systems).
THEOREM YesHolds == QuerySpec => []YesMeansFlagged
  <1>1. ASSUME QueryInv, pc = "done", answer, NEW p \in Touched
        PROVE  Seen(p)
    <2>1. QueryTypeOK /\ Walked  BY <1>1 DEF QueryInv
    <2>2. /\ lo \in Nat /\ hi \in Nat /\ addr \in Nat /\ PageSize \in Nat \ {0}
          /\ Page \subseteq Nat
      BY <2>1, QueryNumbers
    <2>3. p \in Nat /\ p * PageSize < hi /\ lo < hi
      BY <2>2 DEF Touched, PagesOf
    <2>4. addr >= hi  BY <1>1, <2>1 DEF Walked
    <2>5. addr # lo  BY <2>2, <2>3, <2>4
    <2>6. PICK q \in Nat : addr = q * PageSize  BY <2>1, <2>5 DEF Walked
    <2>7. p * PageSize < q * PageSize
      <3>1. p * PageSize \in Nat  BY <2>2, <2>3
      <3> QED  BY <2>2, <2>3, <2>4, <2>6, <3>1
    <2>8. p + 1 <= q
      <3>1. p < q  BY <2>2, <2>3, <2>7, TimesOrder
      <3> QED  BY <2>3, <3>1
    <2>9. (p + 1) * PageSize <= addr
      <3>1. p + 1 \in Int  BY <2>3
      <3> QED  BY <2>2, <2>6, <2>8, <3>1, TimesOrder
    <2> QED  BY <2>1, <2>9 DEF Walked
  <1>2. QueryInv => YesMeansFlagged  BY <1>1 DEF YesMeansFlagged, Seen
  <1> QED  BY <1>2, QueryInvariant, PTL

\* A no is justified by a page of the region that lacked the flag during the call; on Linux,
\* where the lines of /proc/self/maps are read one after the other, the region may also be
\* empty or have been changed while it was being walked.
THEOREM NoIsJustified == QuerySpec => []NoMeansSome
  <1>1. QueryInv => NoMeansSome  BY DEF QueryInv
  <1> QED  BY <1>1, QueryInvariant, PTL
=============================================================================
