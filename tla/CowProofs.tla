------------------------------ MODULE CowProofs ------------------------------
(***************************************************************************)
(* However many cows, owners, allocators and values there are: memory is   *)
(* owned once, a cow reads as what it was given, keeps its allocator, and  *)
(* ends the process only when it has no value.                             *)
(***************************************************************************)
EXTENDS Cow, TLAPS

Agrees(value, expected) == value \in Values /\ (expected = Unsure \/ value = expected)

\* What an owner has is its own, and is what the program expects.
OwnerGood(x) ==
  /\ \/ cow[x].at = Nothing
     \/ cow[x].at \in Buffers /\ from[cow[x].at] = cow[x].alloc
  /\ Agrees(content[cow[x].at], means[x])

\* What a view that may be used is of, and that its owner is still there.
ViewGood(x) ==
  \/ lender[x] = Nothing /\ cow[x].at = Nothing /\ means[x] = Empty
  \/ lender[x] \in Sources /\ cow[x].at = lender[x] /\ Agrees(content[cow[x].at], means[x])
  \/ /\ lender[x] \in Cows /\ Is(lender[x], "owned")
     /\ cow[x].at = cow[lender[x]].at /\ means[x] = means[lender[x]]

Good(x) ==
  /\ Is(x, "owned") => OwnerGood(x)
  /\ Is(x, "view") /\ x \notin stale => ViewGood(x)
  /\ x \in stale => Is(x, "view")

\* Every buffer in use is held, by one cow.
HeldOnce ==
  /\ \A b \in Buffers \ Free : \E x \in Cows : b \in Holds(x)
  /\ \A x, y \in Cows : x # y => Holds(x) \cap Holds(y) = {}

IInv ==
  /\ TypeOK
  /\ content[Nothing] = Empty
  /\ \A x \in Cows : Good(x)
  /\ HeldOnce
  /\ TerminatesOnlyValueless

-----------------------------------------------------------------------------
(* What the invariant says of what can be seen *)

\* The values of all that can be looked at are there, and as expected.
LEMMA Readable ==
  ASSUME IInv, NEW x \in Visible
  PROVE  /\ Seen(x) \in Places /\ Agrees(content[Seen(x)], Expected(x))
         /\ Expected(x) \in Values \cup {Unsure}
         /\ OwnerOf(x) \in Cows \cup Sources \cup {Nothing}
  <1> USE CowAssumption
  <1>1. CASE x \in Sources
    <2>1. content[x] \in Values  BY <1>1 DEF IInv, TypeOK, Visible, Places
    <2> QED  BY <1>1, <2>1 DEF Seen, Expected, OwnerOf, Agrees, Places
  <1>2. CASE x \in Cows /\ Is(x, "owned")
    <2>1. OwnerGood(x)  BY <1>2 DEF IInv, Good
    <2> QED  BY <1>2, <2>1 DEF IInv, TypeOK, Seen, Expected, OwnerOf, OwnerGood, Is, Variant
  <1>3. CASE x \in Cows /\ Is(x, "view") /\ x \notin stale
    <2>1. ViewGood(x)  BY <1>3 DEF IInv, Good
    <2>2. cow[x].at \in Places /\ means[x] \in Values \cup {Unsure}
          /\ lender[x] \in Cows \cup Sources \cup {Nothing}
      BY <1>3 DEF IInv, TypeOK, Variant
    <2>3. Agrees(content[cow[x].at], means[x])
      <3>1. CASE lender[x] \in Cows /\ Is(lender[x], "owned") /\ cow[x].at = cow[lender[x]].at
                 /\ means[x] = means[lender[x]]
        BY <3>1 DEF IInv, Good, OwnerGood
      <3> QED  BY <2>1, <3>1 DEF ViewGood, Agrees, IInv
    <2> QED  BY <1>3, <2>2, <2>3 DEF Seen, Expected, OwnerOf
  <1> QED  BY <1>1, <1>2, <1>3 DEF Visible

\* A cow that looks at what can be seen has a good view.
LEMMA Looking ==
  ASSUME IInv, NEW x \in Visible
  PROVE  \/ OwnerOf(x) = Nothing /\ Seen(x) = Nothing /\ Expected(x) = Empty
         \/ OwnerOf(x) \in Sources /\ Seen(x) = OwnerOf(x) /\ Agrees(content[Seen(x)], Expected(x))
         \/ /\ OwnerOf(x) \in Cows /\ Is(OwnerOf(x), "owned")
            /\ Seen(x) = cow[OwnerOf(x)].at /\ Expected(x) = means[OwnerOf(x)]
  <1> USE CowAssumption
  <1>1. CASE x \in Sources
    BY <1>1, Readable DEF Seen, Expected, OwnerOf
  <1>2. CASE x \in Cows /\ Is(x, "owned")
    BY <1>2 DEF Seen, Expected, OwnerOf, Is
  <1>3. CASE x \in Cows /\ Is(x, "view") /\ x \notin stale
    <2>1. ViewGood(x)  BY <1>3 DEF IInv, Good
    <2> QED  BY <1>3, <2>1 DEF ViewGood, Seen, Expected, OwnerOf
  <1> QED  BY <1>1, <1>2, <1>3 DEF Visible

-----------------------------------------------------------------------------
(* Changes of cows *)

\* When some cows change, one whose place is left alone, and whose owner is, stays good.
LEMMA OthersKept ==
  ASSUME IInv, NEW C \in SUBSET Cows, NEW x \in Cows \ C,
         cow'[x] = cow[x], means'[x] = means[x], lender'[x] = lender[x],
         \A y \in Cows \ C : cow'[y] = cow[y] /\ means'[y] = means[y],
         x \in stale' => Is(x, "view"),
         Is(x, "view") /\ x \notin stale' => x \notin stale /\ (lender[x] \in C => ~Is(lender[x], "owned")),
         \A p \in Places : (\A c \in C : p \notin Holds(c)) /\ content[p] # Gone => content'[p] = content[p],
         \A b \in Buffers : (\A c \in C : b \notin Holds(c)) /\ content[b] # Gone => from'[b] = from[b]
  PROVE  Good(x)'
  <1> USE CowAssumption
  <1>1. Is(x, "view")' <=> Is(x, "view")  BY DEF Is
  <1>2. Is(x, "owned")' <=> Is(x, "owned")  BY DEF Is
  <1>3. ASSUME Is(x, "owned") PROVE OwnerGood(x)'
    <2>1. OwnerGood(x)  BY <1>3 DEF IInv, Good
    <2>2. cow[x].at \in Places  BY DEF IInv, TypeOK, Variant
    <2>3. ASSUME NEW c \in C PROVE cow[x].at \notin Holds(c)
      <3>1. Holds(x) \cap Holds(c) = {}  BY DEF IInv, HeldOnce
      <3>2. cow[x].at # Nothing => cow[x].at \in Holds(x)  BY <1>3 DEF Holds
      <3>3. Nothing \notin Holds(c)  BY DEF Holds
      <3> QED  BY <3>1, <3>2, <3>3
    <2>4. content[cow[x].at] # Gone  BY <2>1 DEF OwnerGood, Agrees
    <2>5. content'[cow[x].at] = content[cow[x].at]  BY <2>2, <2>3, <2>4
    <2>6. cow[x].at \in Buffers => from'[cow[x].at] = from[cow[x].at]  BY <2>3, <2>4
    <2> QED  BY <2>1, <2>5, <2>6 DEF OwnerGood, Agrees
  <1>4. ASSUME Is(x, "view"), x \notin stale' PROVE ViewGood(x)'
    <2>1. ViewGood(x)  BY <1>4 DEF IInv, Good
    <2>2. CASE lender[x] = Nothing /\ cow[x].at = Nothing /\ means[x] = Empty
      BY <2>2 DEF ViewGood
    <2>3. CASE lender[x] \in Sources /\ cow[x].at = lender[x] /\ Agrees(content[cow[x].at], means[x])
      <3>1. ASSUME NEW c \in C PROVE lender[x] \notin Holds(c)
        <4>1. Is(c, "owned") => cow[c].at = Nothing \/ cow[c].at \in Buffers
          BY DEF IInv, Good, OwnerGood
        <4> QED  BY <2>3, <4>1 DEF Holds
      <3>2. content'[cow[x].at] = content[cow[x].at]
        BY <2>3, <3>1 DEF Agrees, Places
      <3> QED  BY <2>3, <3>2 DEF ViewGood, Agrees
    <2>4. CASE /\ lender[x] \in Cows /\ Is(lender[x], "owned")
               /\ cow[x].at = cow[lender[x]].at /\ means[x] = means[lender[x]]
      <3>1. lender[x] \notin C  BY <1>4, <2>4
      <3>2. cow'[lender[x]] = cow[lender[x]] /\ means'[lender[x]] = means[lender[x]]
        BY <2>4, <3>1
      <3> QED  BY <2>4, <3>2 DEF ViewGood, Is
    <2> QED  BY <2>1, <2>2, <2>3, <2>4 DEF ViewGood
  <1> QED  BY <1>1, <1>2, <1>3, <1>4 DEF Good, Is

\* c becomes an entry that is good, and the content of no other place is lost.
LEMMA Change ==
  ASSUME IInv, process = "runs", NEW c \in Cows, NEW entry \in Variant,
         NEW value \in Values \cup {Unsure}, NEW owner \in Cows \cup Sources \cup {Nothing},
         NEW owners, owners = {c} \/ (owners = {} /\ Is(c, "absent")),
         Becomes(c, entry, value, owner, owners),
         content' \in [Places -> Values \cup {Gone}], from' \in [Buffers -> Allocators],
         \A p \in Places : p \notin Holds(c) /\ content[p] # Gone => content'[p] = content[p],
         \A b \in Buffers : b \notin Holds(c) /\ content[b] # Gone => from'[b] = from[b],
         \A b \in Buffers : content'[b] # Gone =>
            \/ b \in Holds(c)'
            \/ content[b] # Gone /\ b \notin Holds(c),
         \A b \in Holds(c)' : b \in Holds(c) \/ content[b] = Gone,
         Is(c, "owned")' => OwnerGood(c)',
         Is(c, "view")' /\ c \notin stale' => ViewGood(c)'
  PROVE  IInv'
  <1> USE CowAssumption
  <1>1. /\ cow' = [cow EXCEPT ![c] = entry]
        /\ means' = [means EXCEPT ![c] = value]
        /\ lender' = [lender EXCEPT ![c] = owner]
        /\ stale' = {x \in Cows : cow'[x].held = "view" /\ (lender'[x] \in owners \/ x \in stale \ {c})}
        /\ UNCHANGED <<traits, process>>
    BY DEF Becomes
  <1>2. /\ cow'[c] = entry /\ means'[c] = value /\ lender'[c] = owner
        /\ \A y \in Cows : y # c => cow'[y] = cow[y] /\ means'[y] = means[y] /\ lender'[y] = lender[y]
    BY <1>1 DEF IInv, TypeOK
  <1>3. TypeOK'
    BY <1>1 DEF IInv, TypeOK
  <1>4. content'[Nothing] = Empty
    <2>1. Nothing \in Places /\ Nothing \notin Holds(c)  BY DEF Places, Holds
    <2> QED  BY <2>1 DEF IInv
  <1>5. ASSUME NEW x \in Cows PROVE Good(x)'
    <2>1. CASE x = c
      <3>1. x \in stale' => Is(x, "view")'  BY <1>1 DEF Is
      <3> QED  BY <2>1, <3>1 DEF Good
    <2>2. CASE x # c
      <3>1. cow'[x] = cow[x] /\ means'[x] = means[x] /\ lender'[x] = lender[x]  BY <1>2, <2>2
      <3>2. x \in stale' => Is(x, "view")  BY <1>1, <3>1 DEF Is
      <3>3. Is(x, "view") /\ x \notin stale' => x \notin stale /\ (lender[x] = c => ~Is(c, "owned"))
        BY <1>1, <2>2, <3>1 DEF Is
      <3>4. x \in Cows \ {c} /\ {c} \in SUBSET Cows  BY <2>2
      <3>5. \A y \in Cows \ {c} : cow'[y] = cow[y] /\ means'[y] = means[y]  BY <1>2
      <3>6. Is(x, "view") /\ x \notin stale' => x \notin stale /\ (lender[x] \in {c} => ~Is(lender[x], "owned"))
        BY <3>3
      <3> QED  BY <3>1, <3>2, <3>4, <3>5, <3>6, OthersKept
    <2> QED  BY <2>1, <2>2
  <1>6. \A x \in Cows : x # c => Holds(x)' = Holds(x)
    BY <1>2 DEF Holds, Is
  <1>7. HeldOnce'
    <2>1. ASSUME NEW b \in Buffers, content'[b] # Gone PROVE \E x \in Cows : b \in Holds(x)'
      <3>1. CASE b \in Holds(c)'  BY <3>1
      <3>2. CASE content[b] # Gone /\ b \notin Holds(c)
        <4>1. PICK x \in Cows : b \in Holds(x)  BY <3>2 DEF IInv, HeldOnce, Free
        <4> QED  BY <1>6, <3>2, <4>1
      <3> QED  BY <2>1, <3>1, <3>2
    <2>2. ASSUME NEW x \in Cows, x # c PROVE Holds(x)' \cap Holds(c)' = {}
      <3>1. Holds(x) \cap Holds(c) = {}  BY <2>2 DEF IInv, HeldOnce
      <3>2. \A b \in Holds(x) : content[b] # Gone
        BY DEF IInv, Good, OwnerGood, Agrees, Holds
      <3> QED  BY <1>6, <2>2, <3>1, <3>2
    <2>3. ASSUME NEW x \in Cows, NEW y \in Cows, x # y, x # c, y # c
          PROVE Holds(x)' \cap Holds(y)' = {}
      BY <1>6, <2>3 DEF IInv, HeldOnce
    <2> QED  BY <2>1, <2>2, <2>3 DEF HeldOnce, Free
  <1>8. TerminatesOnlyValueless'
    BY <1>1 DEF TerminatesOnlyValueless
  <1> QED  BY <1>3, <1>4, <1>5, <1>7, <1>8 DEF IInv

\* What is left when places are given back.
LEMMA Forgotten ==
  ASSUME IInv, NEW c \in Cows
  PROVE  /\ Forget(Holds(c)) \in [Places -> Values \cup {Gone}]
         /\ \A p \in Places : p \notin Holds(c) => Forget(Holds(c))[p] = content[p]
         /\ \A p \in Places : Forget(Holds(c))[p] # Gone => p \notin Holds(c) /\ content[p] # Gone
         /\ Holds(c) \subseteq Buffers
  <1>1. Is(c, "owned") => cow[c].at = Nothing \/ cow[c].at \in Buffers
    BY DEF IInv, Good, OwnerGood
  <1> QED  BY <1>1 DEF Forget, IInv, TypeOK, Holds

LEMMA LooksKeeps ==
  ASSUME IInv, process = "runs", NEW c \in Cows, NEW x \in Visible, NEW a \in Allocators,
         Looks(c, x, a)
  PROVE  IInv'
  <1> USE CowAssumption
  <1>1. /\ Becomes(c, View(Seen(x), a), Expected(x), OwnerOf(x), {c})
        /\ content' = Forget(Holds(c)) /\ from' = from
    BY DEF Looks
  <1>2. View(Seen(x), a) \in Variant  BY Readable DEF View, Variant
  <1>3. /\ cow' = [cow EXCEPT ![c] = View(Seen(x), a)]
        /\ means' = [means EXCEPT ![c] = Expected(x)]
        /\ lender' = [lender EXCEPT ![c] = OwnerOf(x)]
    BY <1>1 DEF Becomes
  <1>4. /\ cow'[c] = View(Seen(x), a) /\ means'[c] = Expected(x) /\ lender'[c] = OwnerOf(x)
        /\ \A y \in Cows : y # c => cow'[y] = cow[y] /\ means'[y] = means[y]
    BY <1>3 DEF IInv, TypeOK
  <1>5. ~Is(c, "owned")' /\ Holds(c)' = {}  BY <1>4 DEF Is, Holds, View
  <1>6. ASSUME c \notin stale' PROVE ViewGood(c)'
    <2>1. OwnerOf(x) # c
      BY <1>1, <1>4, <1>6 DEF Becomes, View
    <2>2. CASE OwnerOf(x) = Nothing /\ Seen(x) = Nothing /\ Expected(x) = Empty
      BY <1>4, <2>2 DEF ViewGood, View
    <2>3. CASE OwnerOf(x) \in Sources /\ Seen(x) = OwnerOf(x) /\ Agrees(content[Seen(x)], Expected(x))
      <3>1. content'[Seen(x)] = content[Seen(x)]
        BY <1>1, <2>3, Forgotten DEF Places
      <3> QED  BY <1>4, <2>3, <3>1 DEF ViewGood, View
    <2>4. CASE /\ OwnerOf(x) \in Cows /\ Is(OwnerOf(x), "owned")
               /\ Seen(x) = cow[OwnerOf(x)].at /\ Expected(x) = means[OwnerOf(x)]
      BY <1>4, <2>1, <2>4 DEF ViewGood, View, Is
    <2> QED  BY <2>2, <2>3, <2>4, Looking
  <1>7. from' \in [Buffers -> Allocators]  BY <1>1 DEF IInv, TypeOK
  <1> QED  BY <1>1, <1>2, <1>5, <1>6, <1>7, Change, Readable, Forgotten, SMTT(30) DEF Places

LEMMA OwnsKeeps ==
  ASSUME IInv, process = "runs", NEW c \in Cows, NEW v \in Values,
         NEW expected \in Values \cup {Unsure}, expected \in {v, Unsure}, NEW a \in Allocators,
         NEW b \in Free \cup Holds(c),
         Becomes(c, Owned(b, a), expected, Nothing, {c}),
         content' = [Forget(Holds(c)) EXCEPT ![b] = v],
         from' = [from EXCEPT ![b] = a]
  PROVE  IInv'
  <1> USE CowAssumption
  <1>1. b \in Buffers /\ b \in Places /\ b # Nothing /\ (b \in Holds(c) \/ content[b] = Gone)
    BY Forgotten DEF Free, Places
  <1>2. Owned(b, a) \in Variant  BY <1>1 DEF Owned, Variant
  <1>3. cow'[c] = Owned(b, a) /\ means'[c] = expected
    BY DEF Becomes, IInv, TypeOK
  <1>4. Is(c, "owned")' /\ ~Is(c, "view")' /\ Holds(c)' = {b}
    BY <1>1, <1>3 DEF Is, Holds, Owned
  <1>5. /\ content' \in [Places -> Values \cup {Gone}] /\ content'[b] = v
        /\ \A p \in Places : p # b => content'[p] = Forget(Holds(c))[p]
    BY <1>1, Forgotten
  <1>6. /\ from' \in [Buffers -> Allocators] /\ from'[b] = a
        /\ \A d \in Buffers : d # b => from'[d] = from[d]
    BY <1>1 DEF IInv, TypeOK
  <1>7. OwnerGood(c)'
    BY <1>1, <1>3, <1>5, <1>6 DEF OwnerGood, Agrees, Owned
  <1>8. \A p \in Places : p \notin Holds(c) /\ content[p] # Gone => content'[p] = content[p]
    BY <1>1, <1>5, Forgotten
  <1>9. \A d \in Buffers : content'[d] # Gone =>
           d \in Holds(c)' \/ (content[d] # Gone /\ d \notin Holds(c))
    <2> SUFFICES ASSUME NEW d \in Buffers, content'[d] # Gone, d # b
                 PROVE  content[d] # Gone /\ d \notin Holds(c)
      BY <1>4
    <2>1. d \in Places /\ content'[d] = Forget(Holds(c))[d]  BY <1>5 DEF Places
    <2> QED  BY <2>1, Forgotten
  <1>10. \A d \in Buffers : d \notin Holds(c) /\ content[d] # Gone => from'[d] = from[d]
    BY <1>1, <1>6
  <1>11. \A d \in Holds(c)' : d \in Holds(c) \/ content[d] = Gone
    BY <1>1, <1>4
  <1> QED  BY <1>2, <1>4, <1>5, <1>6, <1>7, <1>8, <1>9, <1>10, <1>11, Change

\* c holds nothing in memory from now on.
LEMMA EmptiesKeeps ==
  ASSUME IInv, process = "runs", NEW c \in Cows, NEW entry \in Variant, entry.at = Nothing,
         entry.held # "view",
         Becomes(c, entry, Unsure, Nothing, {c}),
         content' = Forget(Holds(c)), from' = from
  PROVE  IInv'
  <1> USE CowAssumption
  <1>1. cow'[c] = entry /\ means'[c] = Unsure
    BY DEF Becomes, IInv, TypeOK
  <1>2. ~Is(c, "view")' /\ Holds(c)' = {}  BY <1>1 DEF Is, Holds
  <1>3. content'[Nothing] \in Values
    <2>1. Nothing \in Places /\ Nothing \notin Holds(c)  BY DEF Places, Holds
    <2> QED  BY <2>1, Forgotten DEF IInv
  <1>4. OwnerGood(c)'  BY <1>1, <1>3 DEF OwnerGood, Agrees
  <1>5. from' \in [Buffers -> Allocators]  BY DEF IInv, TypeOK
  <1> QED  BY <1>2, <1>4, <1>5, Change, Forgotten, SMTT(30) DEF Places

\* A container that is moved to itself and keeps its value.
LEMMA SameKeeps ==
  ASSUME IInv, process = "runs", NEW c \in Cows, Is(c, "owned"),
         Becomes(c, cow[c], means[c], Nothing, {c}), UNCHANGED <<content, from>>
  PROVE  IInv'
  <1> USE CowAssumption
  <1>1. cow[c] \in Variant /\ means[c] \in Values \cup {Unsure}  BY DEF IInv, TypeOK
  <1>2. cow'[c] = cow[c] /\ means'[c] = means[c]
    BY DEF Becomes, IInv, TypeOK
  <1>3. Holds(c)' = Holds(c) /\ Is(c, "owned")' /\ ~Is(c, "view")'  BY <1>2 DEF Holds, Is
  <1>4. OwnerGood(c)'
    <2>1. OwnerGood(c)  BY DEF IInv, Good
    <2> QED  BY <1>2, <2>1 DEF OwnerGood
  <1>5. content' \in [Places -> Values \cup {Gone}] /\ from' \in [Buffers -> Allocators]
    BY DEF IInv, TypeOK
  <1> QED  BY <1>1, <1>3, <1>4, <1>5, Change, SMTT(30)

LEMMA DefaultKeeps ==
  ASSUME IInv, process = "runs", NEW c \in Cows, ConstructDefault(c)
  PROVE  IInv'
  <1> USE CowAssumption
  <1>1. PICK a \in Allocators : Becomes(c, View(Nothing, a), Empty, Nothing, {})
    BY DEF ConstructDefault
  <1>2. UNCHANGED <<content, from>> /\ Is(c, "absent")  BY DEF ConstructDefault
  <1>3. View(Nothing, a) \in Variant  BY DEF View, Variant, Places
  <1>4. cow'[c] = View(Nothing, a) /\ means'[c] = Empty /\ lender'[c] = Nothing
    BY <1>1 DEF Becomes, IInv, TypeOK
  <1>5. ~Is(c, "owned")' /\ Holds(c)' = {} /\ Holds(c) = {}  BY <1>2, <1>4 DEF Is, Holds, View
  <1>6. ViewGood(c)'  BY <1>4 DEF ViewGood, View
  <1>7. content' \in [Places -> Values \cup {Gone}] /\ from' \in [Buffers -> Allocators]
    BY <1>2 DEF IInv, TypeOK
  <1> QED  BY <1>1, <1>2, <1>3, <1>5, <1>6, <1>7, Change, SMTT(30)

\* The owned value of d goes to c.
LEMMA MovesKeeps ==
  ASSUME IInv, process = "runs", NEW c \in Cows, NEW d \in Cows, NEW a \in Allocators,
         Is(d, "owned"), Moves(c, d, a)
  PROVE  IInv'
  <1> USE CowAssumption
  <1>1. OwnerGood(d) /\ cow[d].at \in Places
    BY DEF IInv, Good, TypeOK, Variant
  <1>2. PICK b \in IF traits.inside /\ cow[d].at # Nothing THEN Free ELSE {cow[d].at} :
          /\ cow' = [cow EXCEPT ![d].at = Nothing, ![c] = Owned(b, a)]
          /\ content' = [p \in Places |->
                           IF p = b THEN content[cow[d].at]
                           ELSE IF p \in Holds(c) \cup Holds(d) THEN Gone ELSE content[p]]
          /\ from' = IF b \in Buffers THEN [from EXCEPT ![b] = a] ELSE from
    BY DEF Moves
  <1>3. /\ means' = [means EXCEPT ![d] = Unsure, ![c] = means[d]]
        /\ lender' = [lender EXCEPT ![c] = Nothing]
        /\ stale' = {x \in Cows : cow'[x].held = "view" /\ (lender'[x] \in {c, d} \/ x \in stale \ {c})}
        /\ UNCHANGED <<traits, process>>
    BY DEF Moves
  <1>4. b \in Buffers \cup {Nothing} /\ b \in Places
        /\ (b = Nothing <=> cow[d].at = Nothing) /\ (b = cow[d].at \/ b \in Free)
    BY <1>1, <1>2 DEF OwnerGood, Free, Places
  <1>5. /\ cow'[c] = Owned(b, a) /\ means'[c] = means[d] /\ lender'[c] = Nothing
        /\ d # c => cow'[d] = [cow[d] EXCEPT !.at = Nothing] /\ means'[d] = Unsure
        /\ \A y \in Cows \ {c, d} : cow'[y] = cow[y] /\ means'[y] = means[y] /\ lender'[y] = lender[y]
    BY <1>2, <1>3 DEF IInv, TypeOK
  <1>6. /\ content' \in [Places -> Values \cup {Gone}]
        /\ content'[b] = content[cow[d].at]
        /\ \A p \in Places : p # b /\ p \notin Holds(c) \cup Holds(d) => content'[p] = content[p]
        /\ \A p \in Places : p # b /\ p \in Holds(c) \cup Holds(d) => content'[p] = Gone
    BY <1>1, <1>2, <1>4 DEF IInv, TypeOK
  <1>7. /\ from' \in [Buffers -> Allocators]
        /\ b \in Buffers => from'[b] = a
        /\ \A e \in Buffers : e # b => from'[e] = from[e]
    BY <1>2 DEF IInv, TypeOK
  <1>8. /\ Holds(c)' = {b} \ {Nothing} /\ Is(c, "owned")'
        /\ d # c => Holds(d)' = {} /\ Is(d, "owned")'
        /\ \A y \in Cows \ {c, d} : Holds(y)' = Holds(y)
    <2>1. Holds(c)' = {b} \ {Nothing} /\ Is(c, "owned")'  BY <1>5 DEF Holds, Is, Owned
    <2>2. d # c => Holds(d)' = {} /\ Is(d, "owned")'
      <3>1. cow[d] \in Variant  BY DEF IInv, TypeOK
      <3> QED  BY <1>5, <3>1 DEF Holds, Is, Variant
    <2> QED  BY <1>5, <2>1, <2>2 DEF Holds, Is
  <1>9. Holds(d) = {cow[d].at} \ {Nothing} /\ (b \notin Holds(d) => b \in Free \cup {Nothing})
    BY <1>4 DEF Holds
  <1>10. TypeOK'
    <2>1. cow' \in [Cows -> Variant]
      <3>1. Owned(b, a) \in Variant  BY <1>4 DEF Owned, Variant
      <3>2. [cow[d] EXCEPT !.at = Nothing] \in Variant
        <4>1. cow[d] \in Variant  BY DEF IInv, TypeOK
        <4> QED  BY <4>1 DEF Variant, Places
      <3> QED  BY <1>2, <3>1, <3>2 DEF IInv, TypeOK
    <2> QED  BY <1>3, <1>6, <1>7, <2>1 DEF IInv, TypeOK
  <1>11. content'[Nothing] = Empty
    <2>1. Nothing \in Places /\ Nothing \notin Holds(c) \cup Holds(d)  BY DEF Places, Holds
    <2> QED  BY <1>4, <1>6, <2>1 DEF IInv
  <1>12. ASSUME NEW x \in Cows PROVE Good(x)'
    <2>1. CASE x = c
      <3>1. OwnerGood(c)'
        BY <1>1, <1>4, <1>5, <1>6, <1>7 DEF OwnerGood, Owned
      <3>2. ~Is(c, "view")' /\ c \notin stale'  BY <1>3, <1>5 DEF Is, Owned
      <3> QED  BY <2>1, <3>1, <3>2 DEF Good
    <2>2. CASE x = d /\ d # c
      <3>1. OwnerGood(d)'
        <4>1. cow'[d].at = Nothing
          <5>1. cow[d] \in Variant  BY DEF IInv, TypeOK
          <5> QED  BY <1>5, <2>2, <5>1 DEF Variant
        <4> QED  BY <1>5, <1>11, <2>2, <4>1 DEF OwnerGood, Agrees
      <3>2. ~Is(d, "view")' /\ d \notin stale'  BY <1>3, <1>8, <2>2 DEF Is
      <3> QED  BY <2>2, <3>1, <3>2 DEF Good
    <2>3. CASE x \notin {c, d}
      <3>1. x \in Cows \ {c, d} /\ {c, d} \in SUBSET Cows  BY <2>3
      <3>2. cow'[x] = cow[x] /\ means'[x] = means[x] /\ lender'[x] = lender[x]  BY <1>5, <3>1
      <3>3. x \in stale' => Is(x, "view")  BY <1>3, <3>2 DEF Is
      <3>4. Is(x, "view") /\ x \notin stale'
              => x \notin stale /\ (lender[x] \in {c, d} => ~Is(lender[x], "owned"))
        BY <1>3, <2>3, <3>2 DEF Is
      <3>5. \A p \in Places : (\A e \in {c, d} : p \notin Holds(e)) /\ content[p] # Gone
                                => content'[p] = content[p]
        <4> SUFFICES ASSUME NEW p \in Places, p \notin Holds(c), p \notin Holds(d), content[p] # Gone
                     PROVE  content'[p] = content[p]
          OBVIOUS
        <4>1. CASE p = b
          <5>1. b = cow[d].at  BY <1>4, <4>1 DEF Free
          <5> QED  BY <1>6, <4>1, <5>1
        <4>2. CASE p # b  BY <1>6, <4>2
        <4> QED  BY <4>1, <4>2
      <3>6. \A e \in Buffers : (\A f \in {c, d} : e \notin Holds(f)) /\ content[e] # Gone
                                 => from'[e] = from[e]
        <4> SUFFICES ASSUME NEW e \in Buffers, e \notin Holds(d), content[e] # Gone
                     PROVE  from'[e] = from[e]
          OBVIOUS
        <4>1. e # b  BY <1>9 DEF Free
        <4> QED  BY <1>7, <4>1
      <3>7. \A y \in Cows \ {c, d} : cow'[y] = cow[y] /\ means'[y] = means[y]  BY <1>5
      <3> QED  BY <3>1, <3>2, <3>3, <3>4, <3>5, <3>6, <3>7, OthersKept
    <2> QED  BY <2>1, <2>2, <2>3
  <1>13. HeldOnce'
    <2>1. ASSUME NEW e \in Buffers, content'[e] # Gone PROVE \E x \in Cows : e \in Holds(x)'
      <3>1. CASE e = b  BY <1>8, <3>1
      <3>2. CASE e # b
        <4>1. content[e] # Gone /\ e \notin Holds(c) \cup Holds(d)  BY <1>6, <2>1, <3>2 DEF Places
        <4>2. PICK x \in Cows : e \in Holds(x)  BY <4>1 DEF IInv, HeldOnce, Free
        <4> QED  BY <1>8, <4>1, <4>2
      <3> QED  BY <3>1, <3>2
    <2>2. ASSUME NEW x \in Cows \ {c, d} PROVE b \notin Holds(x) \/ b = Nothing
      <3>1. Holds(x) \cap Holds(d) = {}  BY <2>2 DEF IInv, HeldOnce
      <3>2. \A e \in Holds(x) : content[e] # Gone
        BY <2>2 DEF IInv, Good, OwnerGood, Agrees, Holds
      <3> QED  BY <1>4, <1>9, <3>1, <3>2 DEF Free
    <2>3. ASSUME NEW x \in Cows, NEW y \in Cows, x # y PROVE Holds(x)' \cap Holds(y)' = {}
      <3>1. CASE x = c \/ y = c  BY <1>8, <2>2, <2>3, <3>1
      <3>2. CASE x # c /\ y # c  BY <1>8, <2>3, <3>2 DEF IInv, HeldOnce
      <3> QED  BY <3>1, <3>2
    <2> QED  BY <2>1, <2>3 DEF HeldOnce, Free
  <1>14. TerminatesOnlyValueless'
    BY <1>3 DEF TerminatesOnlyValueless
  <1> QED  BY <1>10, <1>11, <1>12, <1>13, <1>14 DEF IInv

\* The program assigns or destroys a container of its own.
LEMMA SourceKeeps ==
  ASSUME IInv, process = "runs", NEW s \in Sources, SourceChanges(s)
  PROVE  IInv'
  <1> USE CowAssumption
  <1>1. PICK v \in Values \cup {Gone} : content' = [content EXCEPT ![s] = v]
    BY DEF SourceChanges
  <1>2. /\ stale' = stale \cup {c \in Cows : Is(c, "view") /\ lender[c] = s}
        /\ UNCHANGED <<traits, cow, from, process, means, lender>>
    BY DEF SourceChanges
  <1>3. \A p \in Places : p # s => content'[p] = content[p]
    BY <1>1 DEF IInv, TypeOK
  <1>4. TypeOK'  BY <1>1, <1>2 DEF IInv, TypeOK
  <1>5. content'[Nothing] = Empty  BY <1>3 DEF IInv, Places
  <1>6. ASSUME NEW x \in Cows PROVE Good(x)'
    <2>1. {} \in SUBSET Cows /\ x \in Cows \ {}  OBVIOUS
    <2>2. x \in stale' => Is(x, "view")  BY <1>2 DEF IInv, Good
    <2>3. CASE Is(x, "view") /\ x \notin stale'
      <3>1. ViewGood(x) /\ lender[x] # s  BY <1>2, <2>3 DEF IInv, Good
      <3>2. ViewGood(x)'
        <4>1. lender[x] \in Sources => content'[lender[x]] = content[lender[x]]
          BY <1>3, <3>1 DEF Places
        <4> QED  BY <1>2, <3>1, <4>1 DEF ViewGood, Is
      <3> QED  BY <1>2, <2>2, <2>3, <3>2 DEF Good, Is
    <2>4. CASE Is(x, "owned")
      <3>1. OwnerGood(x)  BY <2>4 DEF IInv, Good
      <3>2. content'[cow[x].at] = content[cow[x].at]
        BY <1>3, <3>1 DEF OwnerGood, Places
      <3> QED  BY <1>2, <2>2, <2>4, <3>1, <3>2 DEF Good, OwnerGood, Is
    <2>5. CASE ~Is(x, "owned") /\ (~Is(x, "view") \/ x \in stale')
      BY <1>2, <2>2, <2>5 DEF Good, Is
    <2> QED  BY <2>3, <2>4, <2>5
  <1>7. HeldOnce'
    <2>1. Free' = Free  BY <1>3 DEF Free, Places
    <2>2. \A x \in Cows : Holds(x)' = Holds(x)  BY <1>2 DEF Holds, Is
    <2> QED  BY <2>1, <2>2 DEF IInv, HeldOnce
  <1>8. TerminatesOnlyValueless'  BY <1>2 DEF TerminatesOnlyValueless
  <1> QED  BY <1>4, <1>5, <1>6, <1>7, <1>8 DEF IInv

\* A terminated process keeps everything as it was.
LEMMA TerminatesKeeps ==
  ASSUME IInv, Terminates, NEW c \in Cows, Is(c, "valueless")
  PROVE  IInv'
  <1>1. TypeOK'  BY DEF IInv, TypeOK, Terminates
  <1>2. TerminatesOnlyValueless'  BY DEF Terminates, TerminatesOnlyValueless, Is
  <1>3. ASSUME NEW x \in Cows PROVE Good(x)'
    BY DEF IInv, Good, OwnerGood, ViewGood, Is, Terminates
  <1>4. HeldOnce'  BY DEF IInv, HeldOnce, Holds, Free, Is, Terminates
  <1>5. content'[Nothing] = Empty  BY DEF IInv, Terminates
  <1> QED  BY <1>1, <1>2, <1>3, <1>4, <1>5 DEF IInv

LEMMA StutterKeeps ==
  ASSUME IInv, UNCHANGED vars
  PROVE  IInv'
  <1>1. TypeOK'  BY DEF IInv, TypeOK, vars
  <1>2. TerminatesOnlyValueless'  BY DEF IInv, vars, TerminatesOnlyValueless, Is
  <1>3. ASSUME NEW x \in Cows PROVE Good(x)'
    BY DEF IInv, Good, OwnerGood, ViewGood, Is, vars
  <1>4. HeldOnce'  BY DEF IInv, HeldOnce, Holds, Free, Is, vars
  <1>5. content'[Nothing] = Empty  BY DEF IInv, vars
  <1> QED  BY <1>1, <1>2, <1>3, <1>4, <1>5 DEF IInv

-----------------------------------------------------------------------------
(* The operations *)

\* Values come from what can be seen, and go with what is expected of it.
LEMMA CopyKeeps ==
  ASSUME IInv, process = "runs", NEW c \in Cows, NEW d \in Visible, d \in Cows,
         NEW a \in Allocators, Owns(c, content[cow[d].at], means[d], a)
  PROVE  IInv'
  <1>1. PICK b \in Free :
          /\ Becomes(c, Owned(b, a), means[d], Nothing, {c})
          /\ content' = [Forget(Holds(c)) EXCEPT ![b] = content[cow[d].at]]
          /\ from' = [from EXCEPT ![b] = a]
    BY DEF Owns
  <1>2. Agrees(content[cow[d].at], means[d]) /\ means[d] \in Values \cup {Unsure}
    BY Readable, CowAssumption DEF Seen, Expected
  <1> QED  BY <1>1, <1>2, OwnsKeeps DEF Agrees

LEMMA NewKeeps ==
  ASSUME IInv, process = "runs", NEW c \in Cows, NEW v \in Values, NEW a \in Allocators,
         Owns(c, v, v, a)
  PROVE  IInv'
  <1>1. PICK b \in Free :
          /\ Becomes(c, Owned(b, a), v, Nothing, {c})
          /\ content' = [Forget(Holds(c)) EXCEPT ![b] = v]
          /\ from' = [from EXCEPT ![b] = a]
    BY DEF Owns
  <1> QED  BY <1>1, OwnsKeeps

LEMMA ClearsKeeps ==
  ASSUME IInv, process = "runs", NEW c \in Cows, NEW a \in Allocators, Clears(c, a)
  PROVE  IInv'
  <1>1. Owned(Nothing, a) \in Variant /\ Owned(Nothing, a).at = Nothing
        /\ Owned(Nothing, a).held # "view"
    BY DEF Owned, Variant, Places
  <1> QED  BY <1>1, EmptiesKeeps DEF Clears

LEMMA LosesKeeps ==
  ASSUME IInv, process = "runs", NEW c \in Cows, Loses(c)
  PROVE  IInv'
  <1>1. Valueless \in Variant /\ Valueless.at = Nothing /\ Valueless.held # "view"
    BY CowAssumption DEF Valueless, Variant, Places
  <1> QED  BY <1>1, EmptiesKeeps DEF Loses

LEMMA Allocs ==
  ASSUME IInv, NEW c \in Cows
  PROVE  cow[c].alloc \in Allocators /\ SelectOnCopy(cow[c].alloc) \in Allocators
  BY CowAssumption DEF IInv, TypeOK, Variant, SelectOnCopy

\* What a single cow does, or the program with it.
LEMMA OneKeeps ==
  ASSUME IInv, process = "runs", NEW c \in Cows,
         \/ ConstructDefault(c) \/ ConstructViewed(c) \/ ConstructOwned(c) \/ Destroy(c)
         \/ EnsureOwned(c) \/ Modify(c) \/ TakeOut(c)
         \/ EmplaceViewed(c) \/ EmplaceOwned(c) \/ AskValueless(c)
  PROVE  IInv'
  <1>1. CASE ConstructDefault(c)  BY <1>1, DefaultKeeps
  <1>2. CASE ConstructViewed(c)  BY <1>2, LooksKeeps DEF ConstructViewed
  <1>3. CASE ConstructOwned(c)
    BY <1>3, NewKeeps, StutterKeeps DEF ConstructOwned, Throws
  <1>4. CASE Destroy(c)
    <2>1. Absent \in Variant /\ Absent.at = Nothing /\ Absent.held # "view"
      BY CowAssumption DEF Absent, Variant, Places
    <2> QED  BY <1>4, <2>1, EmptiesKeeps DEF Destroy
  <1>5. CASE EnsureOwned(c)
    <2>1. c \in Visible  BY <1>5 DEF EnsureOwned, Visible
    <2> QED  BY <1>5, <2>1, CopyKeeps, Allocs, StutterKeeps DEF EnsureOwned, Throws
  <1>6. CASE Modify(c)
    <2>1. PICK v \in Values, b \in Free \cup Holds(c) :
            /\ Becomes(c, Owned(b, cow[c].alloc), v, Nothing, {c})
            /\ content' = [Forget(Holds(c)) EXCEPT ![b] = v]
            /\ from' = [from EXCEPT ![b] = cow[c].alloc]
      BY <1>6 DEF Modify
    <2> QED  BY <2>1, OwnsKeeps, Allocs
  <1>7. CASE TakeOut(c)
    BY <1>7, ClearsKeeps, Allocs, StutterKeeps DEF TakeOut, Throws
  <1>8. CASE EmplaceViewed(c)
    BY <1>8, LooksKeeps, Allocs DEF EmplaceViewed
  <1>9. CASE EmplaceOwned(c)
    BY <1>9, NewKeeps, Allocs, LosesKeeps DEF EmplaceOwned
  <1>10. CASE AskValueless(c)
    BY <1>10, TerminatesKeeps, StutterKeeps DEF AskValueless
  <1> QED  BY <1>1, <1>2, <1>3, <1>4, <1>5, <1>6, <1>7, <1>8, <1>9, <1>10

\* What is constructed of another cow, or assigned another cow.
LEMMA TwoKeeps ==
  ASSUME IInv, process = "runs", NEW c \in Cows, NEW d \in Cows,
         \/ CopyConstruct(c, d) \/ MoveConstruct(c, d) \/ CopyValueless(c, d)
         \/ CopyAssign(c, d) \/ MoveAssign(c, d) \/ AssignValueless(c, d)
  PROVE  IInv'
  <1>1. CASE CopyConstruct(c, d)
    BY <1>1, LooksKeeps, CopyKeeps, Allocs, StutterKeeps DEF CopyConstruct, Throws
  <1>2. CASE MoveConstruct(c, d)
    BY <1>2, LooksKeeps, MovesKeeps, Allocs DEF MoveConstruct
  <1>3. CASE CopyValueless(c, d)  BY <1>3, LosesKeeps DEF CopyValueless
  <1>4. CASE CopyAssign(c, d)
    <2>1. CASE CopyAssignVariant(c, d)
      <3> DEFINE a == IF Is(c, "owned") THEN cow[d].alloc ELSE SelectOnCopy(cow[d].alloc)
      <3>1. a \in Allocators  BY Allocs
      <3>2. CASE Looks(c, d, cow[d].alloc)
        BY <1>4, <3>2, LooksKeeps, Allocs DEF CopyAssign
      <3>3. CASE Owns(c, content[cow[d].at], means[d], a)
        BY <1>4, <3>1, <3>3, CopyKeeps DEF CopyAssign
      <3>4. CASE Throws  BY <3>4, StutterKeeps DEF Throws
      <3>5. CASE Clears(c, cow[d].alloc)  BY <3>5, ClearsKeeps, Allocs
      <3> QED  BY <2>1, <3>2, <3>3, <3>4, <3>5 DEF CopyAssignVariant
    <2>2. CASE CopyAssignKeeping(c, d)
      BY <1>4, <2>2, LooksKeeps, CopyKeeps, Allocs, StutterKeeps, TerminatesKeeps
        DEF CopyAssign, CopyAssignKeeping, Throws
    <2> QED  BY <1>4, <2>1, <2>2 DEF CopyAssign
  <1>5. CASE MoveAssign(c, d)
    <2>1. CASE MoveAssignVariant(c, d)
      <3>1. CASE Looks(c, d, cow[d].alloc)
        BY <1>5, <3>1, LooksKeeps, Allocs DEF MoveAssign
      <3>2. CASE Is(d, "owned") /\ Moves(c, d, cow[d].alloc)  BY <3>2, MovesKeeps, Allocs
      <3>3. CASE MoveToItself(c)
        BY <3>3, SameKeeps, ClearsKeeps, Allocs DEF MoveToItself
      <3> QED  BY <2>1, <3>1, <3>2, <3>3 DEF MoveAssignVariant
    <2>2. CASE MoveAssignKeeping(c, d)
      BY <1>5, <2>2, LooksKeeps, CopyKeeps, MovesKeeps, Allocs, StutterKeeps, TerminatesKeeps
        DEF MoveAssign, MoveAssignKeeping, Throws
    <2> QED  BY <1>5, <2>1, <2>2 DEF MoveAssign
  <1>6. CASE AssignValueless(c, d)
    BY <1>6, LosesKeeps, StutterKeeps, TerminatesKeeps DEF AssignValueless
  <1> QED  BY <1>1, <1>2, <1>3, <1>4, <1>5, <1>6

LEMMA InitIInv == Init => IInv
  <1> SUFFICES ASSUME Init PROVE IInv
    OBVIOUS
  <1> USE CowAssumption
  <1>1. \A x \in Cows : cow[x] = Absent  BY DEF Init
  <1>2. Absent \in Variant  BY DEF Absent, Variant, Places
  <1>3. TypeOK
    <2>1. cow \in [Cows -> Variant]  BY <1>2 DEF Init
    <2> QED  BY <2>1 DEF Init, TypeOK
  <1>4. \A x \in Cows : ~Is(x, "owned") /\ ~Is(x, "view")  BY <1>1 DEF Is, Absent
  <1>5. \A x \in Cows : Good(x)  BY <1>4 DEF Init, Good
  <1>6. HeldOnce
    <2>1. Free = Buffers  BY DEF Init, Free, Places
    <2> QED  BY <1>4, <2>1 DEF HeldOnce, Holds
  <1> QED  BY <1>3, <1>5, <1>6 DEF Init, IInv, TerminatesOnlyValueless

LEMMA Invariance == Spec => []IInv
  <1>1. IInv /\ [Next]_vars => IInv'
    <2> SUFFICES ASSUME IInv, [Next]_vars PROVE IInv'
      OBVIOUS
    <2>1. CASE Next  BY <2>1, OneKeeps, TwoKeeps, SourceKeeps DEF Next
    <2>2. CASE UNCHANGED vars  BY <2>2, StutterKeeps
    <2> QED  BY <2>1, <2>2
  <1> QED  BY <1>1, InitIInv, PTL DEF Spec

-----------------------------------------------------------------------------
(* The theorems *)

\* The variables keep to their types.
THEOREM TypeCorrect == Spec => []TypeOK
  <1>1. IInv => TypeOK  BY DEF IInv
  <1> QED  BY <1>1, Invariance, PTL

\* Whatever is copied, moved, assigned, emplaced or thrown, the memory of owned values
\* is owned once and by a cow that has the allocator it came from.
THEOREM OwnedOnce == Spec => []BuffersAccounted
  <1>1. IInv => BuffersAccounted
    <2> SUFFICES ASSUME IInv PROVE BuffersAccounted
      OBVIOUS
    <2>1. ASSUME NEW c \in Cows, Is(c, "owned")
          PROVE  \/ cow[c].at = Nothing
                 \/ cow[c].at \in Buffers \ Free /\ from[cow[c].at] = cow[c].alloc
      <3>1. OwnerGood(c)  BY <2>1 DEF IInv, Good
      <3> QED  BY <3>1, CowAssumption DEF OwnerGood, Agrees, Free
    <2> QED  BY <2>1 DEF BuffersAccounted, IInv, HeldOnce
  <1> QED  BY <1>1, Invariance, PTL

\* A cow reads as the value it was given whatever becomes of all others.
THEOREM CopyOnWrite == Spec => []ReadsAsExpected
  <1>1. IInv => ReadsAsExpected
    <2> SUFFICES ASSUME IInv, NEW c \in Cows \cap Visible
                 PROVE  content[cow[c].at] \in IF means[c] = Unsure THEN Values ELSE {means[c]}
      BY DEF ReadsAsExpected
    <2>1. Seen(c) = cow[c].at /\ Expected(c) = means[c]  BY CowAssumption DEF Seen, Expected
    <2> QED  BY <2>1, Readable DEF Agrees
  <1> QED  BY <1>1, Invariance, PTL

\* No exception ends the process unless a cow has been left without a value.
THEOREM Survives == Spec => []TerminatesOnlyValueless
  <1>1. IInv => TerminatesOnlyValueless  BY DEF IInv
  <1> QED  BY <1>1, Invariance, PTL

\* What a cow that becomes something else does to the allocators.
LEMMA BecomesAlloc ==
  ASSUME IInv, NEW c \in Cows, NEW entry, NEW value, NEW owner, NEW owners,
         Becomes(c, entry, value, owner, owners)
  PROVE  cow'[c] = entry /\ \A e \in Cows \ {c} : cow'[e] = cow[e]
  BY DEF Becomes, IInv, TypeOK

\* The cow that an operation is about keeps its allocator, and so do all others.
KeepsAlloc(c) ==
  /\ cow[c].held \in {"view", "owned"} /\ cow'[c].held \in {"view", "owned"}
       => cow'[c].alloc = cow[c].alloc
  /\ \A e \in Cows \ {c} : cow'[e].alloc = cow[e].alloc

LEMMA LooksAlloc ==
  ASSUME IInv, NEW c \in Cows, NEW x, NEW a, Looks(c, x, a), a = cow[c].alloc \/ Is(c, "absent")
  PROVE  KeepsAlloc(c)
  BY BecomesAlloc DEF Looks, KeepsAlloc, View, Is

LEMMA OwnsAlloc ==
  ASSUME IInv, NEW c \in Cows, NEW v, NEW expected, NEW a, Owns(c, v, expected, a),
         a = cow[c].alloc \/ Is(c, "absent")
  PROVE  KeepsAlloc(c)
  BY BecomesAlloc DEF Owns, KeepsAlloc, Owned, Is

LEMMA ClearsAlloc ==
  ASSUME IInv, NEW c \in Cows, Clears(c, cow[c].alloc)
  PROVE  KeepsAlloc(c)
  BY BecomesAlloc DEF Clears, KeepsAlloc, Owned

LEMMA LosesAlloc ==
  ASSUME IInv, NEW c \in Cows, Loses(c)
  PROVE  KeepsAlloc(c)
  BY BecomesAlloc DEF Loses, KeepsAlloc, Valueless

LEMMA MovesAlloc ==
  ASSUME IInv, NEW c \in Cows, NEW d \in Cows, NEW a, Moves(c, d, a),
         a = cow[c].alloc \/ Is(c, "absent")
  PROVE  KeepsAlloc(c)
  <1>1. PICK b : cow' = [cow EXCEPT ![d].at = Nothing, ![c] = Owned(b, a)]
    BY DEF Moves
  <1>2. cow'[c] = Owned(b, a)  BY <1>1 DEF IInv, TypeOK
  <1>3. \A e \in Cows \ {c} : cow'[e].alloc = cow[e].alloc
    <2> SUFFICES ASSUME NEW e \in Cows \ {c} PROVE cow'[e].alloc = cow[e].alloc
      OBVIOUS
    <2>1. cow[e] \in Variant  BY DEF IInv, TypeOK
    <2>2. CASE e = d
      <3>1. cow'[e] = [cow[e] EXCEPT !.at = Nothing]  BY <1>1, <2>2 DEF IInv, TypeOK
      <3> QED  BY <2>1, <3>1 DEF Variant
    <2>3. CASE e # d  BY <1>1, <2>3 DEF IInv, TypeOK
    <2> QED  BY <2>2, <2>3
  <1> QED  BY <1>2, <1>3 DEF KeepsAlloc, Owned, Is

LEMMA SameAlloc ==
  ASSUME NEW c \in Cows, UNCHANGED cow
  PROVE  KeepsAlloc(c)
  BY DEF KeepsAlloc

LEMMA OneAlloc ==
  ASSUME IInv, NEW c \in Cows,
         \/ ConstructDefault(c) \/ ConstructViewed(c) \/ ConstructOwned(c) \/ Destroy(c)
         \/ EnsureOwned(c) \/ Modify(c) \/ TakeOut(c)
         \/ EmplaceViewed(c) \/ EmplaceOwned(c) \/ AskValueless(c)
  PROVE  KeepsAlloc(c)
  <1>1. CASE ConstructDefault(c)
    BY <1>1, BecomesAlloc DEF ConstructDefault, KeepsAlloc, Is
  <1>2. CASE ConstructViewed(c)  BY <1>2, LooksAlloc DEF ConstructViewed
  <1>3. CASE ConstructOwned(c)
    BY <1>3, OwnsAlloc, SameAlloc DEF ConstructOwned, Throws, vars
  <1>4. CASE Destroy(c)
    BY <1>4, BecomesAlloc DEF Destroy, KeepsAlloc, Absent
  <1>5. CASE EnsureOwned(c)  BY <1>5, OwnsAlloc, SameAlloc DEF EnsureOwned, Throws, vars
  <1>6. CASE Modify(c)
    BY <1>6, BecomesAlloc DEF Modify, KeepsAlloc, Owned
  <1>7. CASE TakeOut(c)  BY <1>7, ClearsAlloc, SameAlloc DEF TakeOut, Throws, vars
  <1>8. CASE EmplaceViewed(c)  BY <1>8, LooksAlloc DEF EmplaceViewed
  <1>9. CASE EmplaceOwned(c)  BY <1>9, OwnsAlloc, LosesAlloc DEF EmplaceOwned
  <1>10. CASE AskValueless(c)  BY <1>10, SameAlloc DEF AskValueless, Terminates, vars
  <1> QED  BY <1>1, <1>2, <1>3, <1>4, <1>5, <1>6, <1>7, <1>8, <1>9, <1>10

LEMMA TwoAlloc ==
  ASSUME IInv, ~traits.copies, ~traits.moves, NEW c \in Cows, NEW d \in Cows,
         \/ CopyConstruct(c, d) \/ MoveConstruct(c, d) \/ CopyValueless(c, d)
         \/ CopyAssign(c, d) \/ MoveAssign(c, d) \/ AssignValueless(c, d)
  PROVE  KeepsAlloc(c)
  <1>1. CASE CopyConstruct(c, d)
    BY <1>1, LooksAlloc, OwnsAlloc, SameAlloc DEF CopyConstruct, Throws, vars
  <1>2. CASE MoveConstruct(c, d)  BY <1>2, LooksAlloc, MovesAlloc DEF MoveConstruct
  <1>3. CASE CopyValueless(c, d)  BY <1>3, LosesAlloc DEF CopyValueless
  <1>4. CASE CopyAssign(c, d)
    <2>1. CopyAssignKeeping(c, d)  BY <1>4 DEF CopyAssign, CopyAssignVariant
    <2> QED  BY <2>1, LooksAlloc, OwnsAlloc, SameAlloc DEF CopyAssignKeeping, Throws, Terminates, vars
  <1>5. CASE MoveAssign(c, d)
    <2>1. MoveAssignKeeping(c, d)  BY <1>5 DEF MoveAssign, MoveAssignVariant
    <2> QED  BY <2>1, LooksAlloc, OwnsAlloc, MovesAlloc, SameAlloc
               DEF MoveAssignKeeping, Throws, Terminates, vars
  <1>6. CASE AssignValueless(c, d)
    BY <1>6, LosesAlloc, SameAlloc DEF AssignValueless, Terminates, vars
  <1> QED  BY <1>1, <1>2, <1>3, <1>4, <1>5, <1>6

\* Through views and owned values and back, a cow keeps the allocator it was made with.
THEOREM KeepsAllocator == Spec => AllocatorKept
  <1> DEFINE Kept == \A c \in Cows : {cow[c].held, cow'[c].held} \subseteq {"view", "owned"}
                                        /\ ~traits.copies /\ ~traits.moves
                                      => cow'[c].alloc = cow[c].alloc
  <1>1. IInv /\ [Next]_vars => [Kept]_vars
    <2> SUFFICES ASSUME IInv, Next, NEW c \in Cows, cow[c].held \in {"view", "owned"},
                        cow'[c].held \in {"view", "owned"}, ~traits.copies, ~traits.moves
                 PROVE  cow'[c].alloc = cow[c].alloc
      OBVIOUS
    <2>1. CASE \E s \in Sources : SourceChanges(s)  BY <2>1 DEF SourceChanges
    <2>2. ASSUME NEW e \in Cows, KeepsAlloc(e) PROVE cow'[c].alloc = cow[c].alloc
      BY <2>2 DEF KeepsAlloc
    <2> QED  BY <2>1, <2>2, OneAlloc, TwoAlloc DEF Next
  <1> QED  BY <1>1, Invariance, PTL DEF Spec, AllocatorKept

=============================================================================
