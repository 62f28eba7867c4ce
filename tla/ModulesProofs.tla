---------------------------- MODULE ModulesProofs ----------------------------
(***************************************************************************)
(* The module objects of module Modules, for any number of threads and     *)
(* images: no reference to an image is lost or given back twice, an image  *)
(* stays where its object says it is, calls end the process only where     *)
(* they cannot help it, and what they find is what they were asked for.    *)
(*                                                                         *)
(* The invariant has a part about the loader's list, the balance of its    *)
(* counts, and a part about each thread's call and object alone.  What     *)
(* another thread or the rest of the program does to that part is one of   *)
(* three things: nothing, an image appended to the list, or one removed.   *)
(***************************************************************************)
EXTENDS Modules, FiniteSetTheorems, SequenceTheorems, TLAPS

-----------------------------------------------------------------------------
(* The invariant *)

\* The executable is the first image and nobody else has a reference to it.
ListOK ==
  /\ list # << >> /\ list[1] = Main
  /\ \A j, k \in DOMAIN list : list[j] = list[k] => j = k
  /\ \A l \in Images : Loaded(l) <=> place[l] # Nowhere
  /\ place[Main] = MainPlace
  /\ user[Main] = 0

LinuxPCs == {"iterate", "walk", "compare"}
MacSeeks == {"header", "magic", "name", "open", "slide"}
Walking(c) == c.pc \in LinuxPCs \cup MacSeeks \cup {"count", "release"}

\* What a call has been asked for, and what each of its stages has.
Shaped(c, o) ==
  /\ c.pc = "idle" => c = NoCall
  /\ c.pc = "aborted" => c.held = NoImage
  /\ Walking(c) =>
       /\ c.op \in {"get_module", "module_at", "none"}
       /\ c.op = "get_module" => c.held \in Images /\ c.name = c.held
       /\ c.op = "module_at" => c.held = NoImage /\ c.asked \in Bases /\ o = NoObject
       /\ c.op = "none" => /\ c.pc = "release" /\ c.held \in Images /\ o = NoObject
                          /\ ~c.must /\ c.asked = Nowhere /\ c.seen = {}
       /\ c.pc # "release" => o = NoObject
  /\ c.pc \in LinuxPCs => platform = "linux"
  /\ c.pc \in MacSeeks \cup {"count"} => platform = "mac"
  /\ c.pc \in {"compare", "magic"} => c.op = "get_module"
  /\ c.pc = "release" => c.op # "module_at"
  /\ c.pc = "compare" => c.h \in Images
  /\ c.pc = "release" /\ o # NoObject => o.handle = c.held
  /\ c.pc = "slide" /\ c.op = "get_module" => c.h = c.held
  /\ c.pc = "slide" /\ c.op = "module_at" => c.h \in Images \/ c.raced

\* The images it has seen all along are there, and at the address asked for.
Watched(c) ==
  /\ \A l \in c.steady : Loaded(l)
  /\ Walking(c) /\ c.op = "module_at" =>
       /\ At(c.asked) \subseteq c.seen
       /\ \A l \in c.seen \cap c.steady : place[l] = c.asked

Sought(c, l) == IF c.op = "get_module" THEN l = c.held ELSE place[l] = c.asked

\* What the walk of Linux has passed, ...
LinuxPassed(c) ==
  ~c.raced /\ c.op = "get_module" /\ c.pc \in LinuxPCs =>
    /\ c.pc = "iterate" => c.i = 0
    /\ c.i <= Len(list)
    /\ \A k \in 1 .. c.i : list[k] = c.held => fixed /\ c.held = Main
    /\ c.pc = "compare" => c.i < Len(list) /\ c.h = list[c.i + 1]

\* ... and that of macOS, as long as no image is unloaded.
MacPassed(c) ==
  /\ c.pc = "count" => c.i = 0
  /\ ~c.raced /\ c.pc \in MacSeeks =>
       /\ c.i <= c.count /\ c.count <= Len(list)
       /\ \A l \in c.steady : \E k \in 1 .. c.count : list[k] = l
       /\ \A k \in 1 .. c.i : ~Sought(c, list[k])
       /\ c.pc # "header" => c.i < c.count /\ c.header = place[list[c.i + 1]]
       /\ c.pc \in {"name", "open", "slide"} /\ c.op = "module_at" => c.header = c.asked
       /\ c.pc \in {"open", "slide"} => c.h = list[c.i + 1]

\* A walk that found nothing was right to.
Ended(c, o) ==
  c.pc = "release" /\ c.op = "get_module" /\ ~c.raced /\ o = NoObject /\ c.held \in c.steady =>
    fixed /\ c.held = Main

\* get_process_module finds the executable at once, if its walk sees it at all.
Certain(c, o) ==
  c.must =>
    /\ platform = "linux" /\ (Walking(c) => c.held = Main)
    /\ ~fixed =>
         /\ c.pc \in LinuxPCs => c.i = 0
         /\ c.pc = "compare" => c.h = Main
         /\ c.pc = "release" => o # NoObject

Doomed(c) ==
  /\ c.pc = "fault" => platform \in {"linux", "mac"} /\ c.raced
  /\ c.pc = "aborted" => platform = "linux" /\ fixed

\* An object says where its image is; one that has no reference is that of the executable.
Placed(o) ==
  /\ o # NoObject /\ ~o.raced =>
       o.handle \in Images /\ o.header = AddressOf(o.handle) /\ o.slide = AddressOf(o.handle)
  /\ o # NoObject /\ ~o.owning => o.handle = Main

Fine(c, o) ==
  /\ Shaped(c, o) /\ Watched(c) /\ LinuxPassed(c) /\ MacPassed(c)
  /\ Ended(c, o) /\ Certain(c, o) /\ Doomed(c) /\ Placed(o)

IInv == TypeOK /\ ListOK /\ Balanced /\ \A t \in Threads : Fine(call[t], object[t])

-----------------------------------------------------------------------------
(* The list *)

LEMMA ListFacts ==
  ASSUME TypeOK
  PROVE  /\ Len(list) \in Nat /\ DOMAIN list = 1 .. Len(list)
         /\ \A k \in 1 .. Len(list) : list[k] \in Images
  <1>1. list \in Seq(Images)  BY DEF TypeOK
  <1> QED  BY <1>1, LenProperties, ElementOfSeq

LEMMA Appended ==
  ASSUME TypeOK, NEW l \in Images, list' = Append(list, l)
  PROVE  /\ list' \in Seq(Images) /\ Len(list)' = Len(list) + 1
         /\ DOMAIN list' = 1 .. Len(list) + 1
         /\ \A k \in 1 .. Len(list) : list'[k] = list[k]
         /\ list'[Len(list) + 1] = l
         /\ \A m : Loaded(m)' <=> Loaded(m) \/ m = l
  <1>1. PICK a, b : a = list /\ b = list' /\ a \in Seq(Images) /\ b = Append(a, l)
    BY DEF TypeOK
  <1>2. /\ b \in Seq(Images) /\ Len(b) = Len(a) + 1
        /\ \A k \in 1 .. Len(a) : b[k] = a[k]
        /\ b[Len(a) + 1] = l
    BY <1>1, AppendProperties
  <1>3. DOMAIN a = 1 .. Len(a) /\ DOMAIN b = 1 .. Len(a) + 1 /\ Len(a) \in Nat
    BY <1>1, <1>2, LenProperties
  <1>4. \A k \in 1 .. Len(a) + 1 : k \in 1 .. Len(a) \/ k = Len(a) + 1  BY <1>3
  <1>5. 1 .. Len(a) \subseteq 1 .. Len(a) + 1 /\ Len(a) + 1 \in 1 .. Len(a) + 1  BY <1>3
  <1>6. \A m : (\E k \in DOMAIN b : b[k] = m) <=> (\E k \in DOMAIN a : a[k] = m) \/ m = l
    BY <1>2, <1>3, <1>4, <1>5
  <1> QED  BY <1>1, <1>2, <1>3, <1>6 DEF Loaded

\* What is left of a sequence without repetitions when one element is taken out.
LEMMA Removed ==
  ASSUME NEW s \in Seq(Images), NEW i \in DOMAIN s,
         \A j, k \in DOMAIN s : s[j] = s[k] => j = k
  PROVE  \E r : r = RemoveAt(s, i) /\
         /\ r \in Seq(Images)
         /\ \A j, k \in DOMAIN r : r[j] = r[k] => j = k
         /\ \A m : (\E k \in DOMAIN r : r[k] = m) <=> (\E k \in DOMAIN s : s[k] = m) /\ m # s[i]
         /\ i # 1 => r # << >> /\ r[1] = s[1]
  <1>1. PICK n \in Nat : n = Len(s) /\ DOMAIN s = 1 .. n /\ \A k \in 1 .. n : s[k] \in Images
    BY LenProperties, ElementOfSeq
  <1>2. PICK a, b : a = SubSeq(s, 1, i - 1) /\ b = SubSeq(s, i + 1, n)  OBVIOUS
  <1>3. i \in Int /\ 1 <= i /\ i <= n  BY <1>1
  <1>4. /\ a \in Seq(Images) /\ Len(a) = i - 1
        /\ \A k \in 1 .. i - 1 : a[k] = s[k]
    <2>1. \A k \in 1 .. i - 1 : s[k] \in Images  BY <1>1, <1>3
    <2>2. /\ a \in Seq(Images) /\ Len(a) = IF 1 <= i - 1 THEN (i - 1) - 1 + 1 ELSE 0
          /\ \A k \in 1 .. (i - 1) - 1 + 1 : a[k] = s[1 + k - 1]
      BY <1>2, <1>3, <2>1, SubSeqProperties
    <2> QED  BY <1>3, <2>2
  <1>5. /\ b \in Seq(Images) /\ Len(b) = n - i
        /\ \A k \in 1 .. n - i : b[k] = s[i + k]
    <2>1. \A k \in i + 1 .. n : s[k] \in Images  BY <1>1, <1>3
    <2>2. /\ b \in Seq(Images) /\ Len(b) = IF i + 1 <= n THEN n - (i + 1) + 1 ELSE 0
          /\ \A k \in 1 .. n - (i + 1) + 1 : b[k] = s[(i + 1) + k - 1]
      BY <1>1, <1>2, <1>3, <2>1, SubSeqProperties
    <2> QED  BY <1>1, <1>3, <2>2
  <1>6. PICK r : r = a \o b  OBVIOUS
  <1>7. /\ r \in Seq(Images) /\ Len(r) = n - 1
        /\ \A k \in 1 .. n - 1 : r[k] = IF k < i THEN s[k] ELSE s[k + 1]
    <2>1. /\ r \in Seq(Images) /\ Len(r) = Len(a) + Len(b)
          /\ \A k \in 1 .. Len(a) + Len(b) : r[k] = IF k <= Len(a) THEN a[k] ELSE b[k - Len(a)]
      <3>1. /\ a \o b \in Seq(Images) /\ Len(a \o b) = Len(a) + Len(b)
            /\ \A k \in 1 .. Len(a) + Len(b) : (a \o b)[k] = IF k <= Len(a) THEN a[k] ELSE b[k - Len(a)]
        <4>1. a \in Seq(Images) /\ b \in Seq(Images)  BY <1>4, <1>5
        <4> HIDE <1>1, <1>2, <1>3, <1>4, <1>5, <1>6
        <4> QED  BY <4>1, ConcatProperties, ZenonT(60)
      <3> QED  BY <1>6, <3>1
    <2>2. ASSUME NEW k \in 1 .. n - 1 PROVE r[k] = IF k < i THEN s[k] ELSE s[k + 1]
      <3>1. k \in 1 .. Len(a) + Len(b)  BY <1>1, <1>3, <1>4, <1>5
      <3>2. CASE k < i  BY <1>3, <1>4, <2>1, <3>1, <3>2
      <3>3. CASE ~(k < i)
        <4>1. PICK j : j = k - (i - 1)  OBVIOUS
        <4>2. j \in 1 .. n - i /\ i + j = k + 1 /\ ~(k <= i - 1)  BY <1>1, <1>3, <3>3, <4>1
        <4>3. ~(k <= Len(a)) /\ k - Len(a) = j  BY <1>4, <4>1, <4>2
        <4>4. r[k] = b[k - Len(a)]  BY <2>1, <3>1, <4>3, Zenon
        <4> QED  BY <1>5, <3>3, <4>2, <4>3, <4>4
      <3> QED  BY <3>2, <3>3
    <2>3. Len(r) = n - 1
      <3>1. Len(r) = (i - 1) + (n - i)  BY <1>4, <1>5, <2>1
      <3>2. (i - 1) + (n - i) = n - 1  BY <1>1, <1>3
      <3> QED  BY <3>1, <3>2
    <2> QED  BY <2>1, <2>2, <2>3
  <1>8. DOMAIN r = 1 .. n - 1  BY <1>7, LenProperties
  <1>9. \A j, k \in 1 .. n - 1 : r[j] = r[k] => j = k
    <2>1. ASSUME NEW j \in 1 .. n - 1, NEW k \in 1 .. n - 1, r[j] = r[k] PROVE j = k
      <3>1. PICK x, y : /\ x = (IF j < i THEN j ELSE j + 1) /\ y = (IF k < i THEN k ELSE k + 1)
        OBVIOUS
      <3>2. x \in 1 .. n /\ y \in 1 .. n  BY <1>1, <1>3, <3>1
      <3>3. s[x] = s[y]  BY <1>7, <2>1, <3>1
      <3>4. x = y  BY <1>1, <3>2, <3>3
      <3> QED  BY <1>3, <3>1, <3>4
    <2> QED  BY <2>1
  <1>10. ASSUME NEW m
         PROVE (\E k \in 1 .. n - 1 : r[k] = m) <=> (\E k \in 1 .. n : s[k] = m) /\ m # s[i]
    <2>1. ASSUME NEW k \in 1 .. n - 1, r[k] = m PROVE (\E x \in 1 .. n : s[x] = m) /\ m # s[i]
      <3>1. PICK x : x = IF k < i THEN k ELSE k + 1  OBVIOUS
      <3>2. x \in 1 .. n /\ s[x] = m /\ x # i  BY <1>1, <1>3, <1>7, <2>1, <3>1
      <3> QED  BY <1>1, <3>2
    <2>2. ASSUME NEW k \in 1 .. n, s[k] = m, m # s[i] PROVE \E x \in 1 .. n - 1 : r[x] = m
      <3>1. PICK x : x = IF k < i THEN k ELSE k - 1  OBVIOUS
      <3>2. k # i  BY <2>2
      <3>3. x \in 1 .. n - 1 /\ (IF x < i THEN x ELSE x + 1) = k  BY <1>1, <1>3, <3>1, <3>2
      <3>4. r[x] = m  BY <1>7, <2>2, <3>3
      <3> QED  BY <3>3, <3>4
    <2> QED  BY <2>1, <2>2
  <1>11. i # 1 => r # << >> /\ r[1] = s[1]
    <2>1. i # 1 => 1 \in 1 .. n - 1 /\ 1 < i  BY <1>1, <1>3
    <2>2. i # 1 => r[1] = s[1]  BY <1>7, <2>1
    <2>3. i # 1 => r # << >>  BY <1>7, <1>3, <1>1, EmptySeq
    <2> QED  BY <2>2, <2>3
  <1>12. RemoveAt(s, i) = r  BY <1>1, <1>2, <1>6 DEF RemoveAt
  <1>13. /\ r \in Seq(Images)
         /\ \A j, k \in DOMAIN r : r[j] = r[k] => j = k
         /\ \A m : (\E k \in DOMAIN r : r[k] = m) <=> (\E k \in DOMAIN s : s[k] = m) /\ m # s[i]
         /\ i # 1 => r # << >> /\ r[1] = s[1]
    BY <1>1, <1>7, <1>8, <1>9, <1>10, <1>11, ZenonT(60)
  <1> WITNESS r
  <1> QED  BY <1>12, <1>13, Zenon

-----------------------------------------------------------------------------
(* What may become of the list, and of the parts of the invariant with it *)

Still == UNCHANGED <<platform, fixed, list, place>>

Grown(l, p) ==
  /\ UNCHANGED <<platform, fixed>>
  /\ l \in Libs /\ ~Loaded(l) /\ p \in Places
  /\ list' = Append(list, l)
  /\ place' = [place EXCEPT ![l] = p]

Shrunk(l) ==
  /\ UNCHANGED <<platform, fixed>>
  /\ l \in Libs /\ Loaded(l)
  /\ list' = RemoveAt(list, CHOOSE k \in DOMAIN list : list[k] = l)
  /\ place' = [place EXCEPT ![l] = Nowhere]

LEMMA StillList ==
  ASSUME ListOK, Still, user'[Main] = 0
  PROVE  ListOK' /\ \A l : Loaded(l)' <=> Loaded(l)
  BY DEF ListOK, Still, Loaded

LEMMA GrownList ==
  ASSUME TypeOK, ListOK, NEW l, NEW p, Grown(l, p), user'[Main] = 0
  PROVE  /\ ListOK' /\ list' \in Seq(Images) /\ place' \in [Images -> Bases \cup {Nowhere}]
         /\ \A m : Loaded(m)' <=> Loaded(m) \/ m = l
         /\ \A m \in Images : Loaded(m) => place'[m] = place[m]
  <1>1. l \in Images /\ l # Main /\ Main \in Images /\ p \in Bases /\ p # Nowhere
    BY ModulesAssumption DEF Grown, Images, Bases, Nowhere
  <1>2. /\ list' \in Seq(Images) /\ Len(list)' = Len(list) + 1
        /\ DOMAIN list' = 1 .. Len(list) + 1
        /\ \A k \in 1 .. Len(list) : list'[k] = list[k]
        /\ list'[Len(list) + 1] = l
        /\ \A m : Loaded(m)' <=> Loaded(m) \/ m = l
    BY <1>1, Appended DEF Grown
  <1>3. PICK n \in Nat : n = Len(list) /\ DOMAIN list = 1 .. n /\ \A k \in 1 .. n : list[k] \in Images
    BY ListFacts
  <1>4. place' \in [Images -> Bases \cup {Nowhere}]  BY <1>1 DEF TypeOK, Grown
  <1>5. \A m \in Images : place'[m] = IF m = l THEN p ELSE place[m]  BY DEF TypeOK, Grown
  <1>6. \A m \in Images : Loaded(m) => m # l  BY DEF Grown
  <1>7. n # 0  BY <1>3, EmptySeq DEF ListOK, TypeOK
  <1>8. list' # << >> /\ list'[1] = Main
    <2>1. 1 \in 1 .. n /\ 1 \in 1 .. n + 1  BY <1>7
    <2> QED  BY <1>2, <1>3, <2>1 DEF ListOK
  <1>9. ASSUME NEW j \in DOMAIN list', NEW k \in DOMAIN list', list'[j] = list'[k] PROVE j = k
    <2>1. j \in 1 .. n \/ j = n + 1  BY <1>2, <1>3
    <2>2. k \in 1 .. n \/ k = n + 1  BY <1>2, <1>3
    <2>3. \A i \in 1 .. n : list'[i] = list[i] /\ list[i] # l  BY <1>2, <1>3 DEF Grown, Loaded
    <2> QED  BY <1>2, <1>3, <1>9, <2>1, <2>2, <2>3 DEF ListOK
  <1>10. \A m \in Images : Loaded(m)' <=> place'[m] # Nowhere  BY <1>1, <1>2, <1>5 DEF ListOK
  <1>11. ListOK'  BY <1>1, <1>5, <1>8, <1>9, <1>10 DEF ListOK
  <1> QED  BY <1>2, <1>4, <1>5, <1>6, <1>11

LEMMA ShrunkList ==
  ASSUME TypeOK, ListOK, NEW l, Shrunk(l), user'[Main] = 0
  PROVE  /\ ListOK' /\ list' \in Seq(Images) /\ place' \in [Images -> Bases \cup {Nowhere}]
         /\ \A m : Loaded(m)' <=> Loaded(m) /\ m # l
         /\ \A m \in Images : m # l => place'[m] = place[m]
  <1>1. l \in Images /\ l # Main /\ Main \in Images
    BY ModulesAssumption DEF Shrunk, Images
  <1>2. PICK i : i = CHOOSE k \in DOMAIN list : list[k] = l  OBVIOUS
  <1>3. i \in DOMAIN list /\ list[i] = l  BY <1>2 DEF Shrunk, Loaded
  <1>4. i # 1  BY <1>1, <1>3 DEF ListOK
  <1>5. PICK s : s = list  OBVIOUS
  <1>6. s \in Seq(Images) /\ i \in DOMAIN s
        /\ \A j, k \in DOMAIN s : s[j] = s[k] => j = k
    BY <1>3, <1>5 DEF TypeOK, ListOK
  <1>7. PICK r : r = RemoveAt(s, i) /\
        /\ r \in Seq(Images)
        /\ \A j, k \in DOMAIN r : r[j] = r[k] => j = k
        /\ \A m : (\E k \in DOMAIN r : r[k] = m) <=> (\E k \in DOMAIN s : s[k] = m) /\ m # s[i]
        /\ i # 1 => r # << >> /\ r[1] = s[1]
    BY <1>6, Removed, ZenonT(60)
  <1>8. list' = r  BY <1>2, <1>5, <1>7 DEF Shrunk
  <1>12. \A m : Loaded(m)' <=> Loaded(m) /\ m # l
    <2>1. ASSUME NEW m PROVE (\E k \in DOMAIN r : r[k] = m) <=> (\E k \in DOMAIN s : s[k] = m) /\ m # l
      BY <1>3, <1>5, <1>7, ZenonT(60)
    <2> QED  BY <1>5, <1>8, <2>1 DEF Loaded
  <1>9. place' \in [Images -> Bases \cup {Nowhere}]
        /\ \A m \in Images : place'[m] = IF m = l THEN Nowhere ELSE place[m]
    BY DEF TypeOK, Shrunk
  <1>10. \A m \in Images : Loaded(m)' <=> place'[m] # Nowhere  BY <1>9, <1>12 DEF ListOK
  <1>11. ListOK'  BY <1>1, <1>4, <1>5, <1>7, <1>8, <1>9, <1>10 DEF ListOK
  <1> QED  BY <1>7, <1>8, <1>9, <1>11, <1>12

LEMMA FineStill ==
  ASSUME NEW c, NEW o, Fine(c, o), Still
  PROVE  Fine(c, o)'
  <1>1. Shaped(c, o)' /\ LinuxPassed(c)' /\ Ended(c, o)' /\ Certain(c, o)' /\ Doomed(c)'
    BY DEF Fine, Still, Shaped, LinuxPassed, Ended, Certain, Doomed
  <1>2. Watched(c)'  BY DEF Fine, Still, Watched, Loaded, At
  <1>3. MacPassed(c)'  BY DEF Fine, Still, MacPassed, Sought
  <1>4. Placed(o)'  BY DEF Fine, Still, Placed, AddressOf, Moved
  <1> QED  BY <1>1, <1>2, <1>3, <1>4 DEF Fine

\* A call that an image is loaded under.
LEMMA FineGrown ==
  ASSUME TypeOK, ListOK, NEW l, NEW p, Grown(l, p), user'[Main] = 0,
         NEW c \in Call, NEW o \in Object, Fine(c, o), (o.handle \in Images => Loaded(o.handle)),
         NEW d, d = IF Busy(c) /\ c.asked = p THEN [c EXCEPT !.seen = @ \cup {l}] ELSE c
  PROVE  d \in Call /\ Fine(d, o)'
  <1>1. d \in Call  BY DEF Call, Grown, Images
  <1>2. /\ d.pc = c.pc /\ d.op = c.op /\ d.name = c.name /\ d.asked = c.asked /\ d.held = c.held
        /\ d.must = c.must /\ d.i = c.i /\ d.count = c.count /\ d.header = c.header /\ d.h = c.h
        /\ d.steady = c.steady /\ d.raced = c.raced
        /\ c.pc = "idle" => d = c
    BY DEF Call, Busy
  <1>3. /\ \A m : Loaded(m)' <=> Loaded(m) \/ m = l
        /\ \A m \in Images : Loaded(m) => place'[m] = place[m]
        /\ l \in Images /\ place'[l] = p
    BY GrownList DEF Grown, Images, TypeOK
  <1>4. /\ Len(list) \in Nat /\ Len(list)' = Len(list) + 1
        /\ \A k \in 1 .. Len(list) : list'[k] = list[k] /\ list[k] \in Images /\ Loaded(list[k])
    BY <1>3, Appended, ListFacts DEF Grown, Loaded
  <1>5. platform' = platform /\ fixed' = fixed  BY DEF Grown
  <1>6. c.i \in Nat /\ c.count \in Nat /\ c.steady \subseteq Images /\ c.seen \subseteq Images
    BY DEF Call
  <1>7. Shaped(d, o)'
    <2>1. c.asked = Nowhere => d.seen = c.seen
      <3>1. p # Nowhere  BY ModulesAssumption DEF Grown, Nowhere
      <3> QED  BY <3>1
    <2> QED  BY <1>2, <1>5, <2>1 DEF Fine, Shaped, Walking
  <1>8. Watched(d)'
    <2>1. \A m \in d.steady : Loaded(m)'  BY <1>2, <1>3 DEF Fine, Watched
    <2>2. ASSUME Walking(d), d.op = "module_at"
          PROVE  /\ At(d.asked)' \subseteq d.seen
                 /\ \A m \in d.seen \cap d.steady : place'[m] = d.asked
      <3>1. Walking(c) /\ c.op = "module_at"  BY <1>2, <2>2 DEF Walking
      <3>2. Busy(c)  BY <3>1 DEF Walking, Busy, LinuxPCs, MacSeeks
      <3>3. d.seen = IF c.asked = p THEN c.seen \cup {l} ELSE c.seen  BY <3>2 DEF Call
      <3>4. At(c.asked) \subseteq c.seen /\ \A m \in c.seen \cap c.steady : place[m] = c.asked
        BY <3>1 DEF Fine, Watched
      <3>5. ASSUME NEW m \in At(c.asked)' PROVE m \in d.seen
        <4>1. m \in Images /\ Loaded(m)' /\ place'[m] = c.asked  BY DEF At
        <4>2. CASE m = l  BY <1>3, <3>3, <4>1, <4>2
        <4>3. CASE m # l
          <5>1. m \in At(c.asked)  BY <1>3, <4>1, <4>3 DEF At
          <5> QED  BY <3>3, <3>4, <5>1
        <4> QED  BY <4>2, <4>3
      <3>6. \A m \in d.seen \cap d.steady : place'[m] = d.asked
        <4>1. \A m \in c.steady : Loaded(m) /\ place'[m] = place[m] /\ m # l
          BY <1>3, <1>6 DEF Fine, Watched, Grown
        <4> QED  BY <1>2, <3>3, <3>4, <4>1
      <3> QED  BY <1>2, <3>5, <3>6
    <2> QED  BY <2>1, <2>2 DEF Watched
  <1>9. LinuxPassed(d)'
    <2> SUFFICES ASSUME ~d.raced, d.op = "get_module", d.pc \in LinuxPCs
                 PROVE  /\ d.pc = "iterate" => d.i = 0
                        /\ d.i <= Len(list)'
                        /\ \A k \in 1 .. d.i : list'[k] = d.held => fixed' /\ d.held = Main
                        /\ d.pc = "compare" => d.i < Len(list)' /\ d.h = list'[d.i + 1]
      BY DEF LinuxPassed
    <2>1. /\ c.pc = "iterate" => c.i = 0
          /\ c.i <= Len(list)
          /\ \A k \in 1 .. c.i : list[k] = c.held => fixed /\ c.held = Main
          /\ c.pc = "compare" => c.i < Len(list) /\ c.h = list[c.i + 1]
      BY <1>2 DEF Fine, LinuxPassed
    <2>2. \A k \in 1 .. c.i : k \in 1 .. Len(list)  BY <1>4, <1>6, <2>1
    <2>3. c.pc = "compare" => c.i + 1 \in 1 .. Len(list)  BY <1>4, <1>6, <2>1
    <2> QED  BY <1>2, <1>4, <1>5, <1>6, <2>1, <2>2, <2>3
  <1>10. MacPassed(d)'
    <2>1. d.pc = "count" => d.i = 0  BY <1>2 DEF Fine, MacPassed
    <2>2. ASSUME ~d.raced, d.pc \in MacSeeks
          PROVE  /\ d.i <= d.count /\ d.count <= Len(list)'
                 /\ \A m \in d.steady : \E k \in 1 .. d.count : list'[k] = m
                 /\ \A k \in 1 .. d.i : ~Sought(d, list[k])'
                 /\ d.pc # "header" => d.i < d.count /\ d.header = place'[list'[d.i + 1]]
                 /\ d.pc \in {"name", "open", "slide"} /\ d.op = "module_at" => d.header = d.asked
                 /\ d.pc \in {"open", "slide"} => d.h = list'[d.i + 1]
      <3>1. /\ c.i <= c.count /\ c.count <= Len(list)
            /\ \A m \in c.steady : \E k \in 1 .. c.count : list[k] = m
            /\ \A k \in 1 .. c.i : ~Sought(c, list[k])
            /\ c.pc # "header" => c.i < c.count /\ c.header = place[list[c.i + 1]]
            /\ c.pc \in {"name", "open", "slide"} /\ c.op = "module_at" => c.header = c.asked
            /\ c.pc \in {"open", "slide"} => c.h = list[c.i + 1]
        BY <1>2, <2>2 DEF Fine, MacPassed
      <3>2. \A k \in 1 .. c.count : k \in 1 .. Len(list)  BY <1>4, <1>6, <3>1
      <3>3. \A k \in 1 .. c.i : k \in 1 .. Len(list)  BY <1>4, <1>6, <3>1
      <3>4. c.pc # "header" => c.i + 1 \in 1 .. Len(list)  BY <1>4, <1>6, <3>1
      <3>5. \A k \in 1 .. c.i : ~Sought(d, list[k])'
        <4>1. \A k \in 1 .. c.i : list'[k] = list[k] /\ place'[list[k]] = place[list[k]]
          BY <1>3, <1>4, <3>3
        <4> QED  BY <1>2, <3>1, <4>1 DEF Sought
      <3>6. c.pc # "header" => list'[c.i + 1] = list[c.i + 1] /\ place'[list[c.i + 1]] = place[list[c.i + 1]]
        BY <1>3, <1>4, <3>4
      <3>7. \A m \in d.steady : \E k \in 1 .. d.count : list'[k] = m  BY <1>2, <1>4, <3>1, <3>2
      <3>8. d.i <= d.count /\ d.count <= Len(list)'  BY <1>2, <1>4, <1>6, <3>1
      <3>9. c.pc # "header" => c.i < c.count /\ c.header = place'[list'[c.i + 1]]  BY <3>1, <3>6
      <3>10. c.pc \in {"open", "slide"} => c.h = list'[c.i + 1]  BY <3>1, <3>6
      <3> QED  BY <1>2, <3>1, <3>5, <3>7, <3>8, <3>9, <3>10, Zenon
    <2> QED  BY <2>1, <2>2 DEF MacPassed
  <1>11. Ended(d, o)' /\ Certain(d, o)' /\ Doomed(d)'
    BY <1>2, <1>5 DEF Fine, Ended, Certain, Doomed, Walking
  <1>12. Placed(o)'
    BY <1>3, <1>5 DEF Fine, Placed, AddressOf, Moved
  <1> QED  BY <1>1, <1>7, <1>8, <1>9, <1>10, <1>11, <1>12 DEF Fine

\* A call that an image is unloaded under.
LEMMA FineShrunk ==
  ASSUME TypeOK, ListOK, NEW l, Shrunk(l), user'[Main] = 0,
         NEW c \in Call, NEW o \in Object, Fine(c, o), o.handle # l,
         NEW d, d = IF Busy(c) THEN [c EXCEPT !.steady = @ \ {l}, !.raced = TRUE] ELSE c
  PROVE  d \in Call /\ Fine(d, o)'
  <1>1. d \in Call  BY DEF Call
  <1>2. /\ d.pc = c.pc /\ d.op = c.op /\ d.name = c.name /\ d.asked = c.asked /\ d.held = c.held
        /\ d.must = c.must /\ d.i = c.i /\ d.count = c.count /\ d.header = c.header /\ d.h = c.h
        /\ d.seen = c.seen /\ (c.raced => d.raced)
        /\ d.steady = IF c.pc = "idle" THEN c.steady ELSE c.steady \ {l}
        /\ c.pc = "idle" => d = c
        /\ c.pc # "idle" => d.raced
    BY DEF Call, Busy
  <1>3. /\ \A m : Loaded(m)' <=> Loaded(m) /\ m # l
        /\ \A m \in Images : m # l => place'[m] = place[m]
        /\ l \in Images /\ place'[l] = Nowhere
    BY ShrunkList DEF Shrunk, Images, TypeOK
  <1>4. platform' = platform /\ fixed' = fixed  BY DEF Shrunk
  <1>5. Shaped(d, o)'  BY <1>2, <1>4 DEF Fine, Shaped, Walking
  <1>6. Watched(d)'
    <2>1. \A m \in d.steady : Loaded(m)'
      <3>1. c.pc = "idle" => d.steady = {}  BY <1>2 DEF Fine, Shaped, NoCall
      <3>2. \A m \in c.steady : Loaded(m)  BY DEF Fine, Watched
      <3> QED  BY <1>2, <1>3, <3>1, <3>2
    <2>2. ASSUME Walking(d), d.op = "module_at"
          PROVE  /\ At(d.asked)' \subseteq d.seen
                 /\ \A m \in d.seen \cap d.steady : place'[m] = d.asked
      <3>1. Walking(c) /\ c.op = "module_at" /\ c.pc # "idle"
        BY <1>2, <2>2 DEF Walking, LinuxPCs, MacSeeks
      <3>2. At(c.asked) \subseteq c.seen /\ \A m \in c.seen \cap c.steady : place[m] = c.asked
        BY <3>1 DEF Fine, Watched
      <3>3. At(c.asked)' \subseteq At(c.asked)  BY <1>3 DEF At
      <3>4. c.seen \subseteq Images  BY DEF Call
      <3> QED  BY <1>2, <1>3, <3>1, <3>2, <3>3, <3>4
    <2> QED  BY <2>1, <2>2 DEF Watched
  <1>7. LinuxPassed(d)'  BY <1>2 DEF LinuxPassed, LinuxPCs
  <1>8. MacPassed(d)'  BY <1>2 DEF Fine, MacPassed, MacSeeks
  <1>9. Ended(d, o)' /\ Certain(d, o)' /\ Doomed(d)'
    BY <1>2, <1>4 DEF Fine, Ended, Certain, Doomed, Walking
  <1>10. Placed(o)'  BY <1>3, <1>4 DEF Fine, Placed, AddressOf, Moved
  <1> QED  BY <1>1, <1>5, <1>6, <1>7, <1>8, <1>9, <1>10 DEF Fine

-----------------------------------------------------------------------------
(* The handles of threads, counted *)

One(x, l) == IF x = l THEN 1 ELSE 0

\* The handles of l among those of one thread, and among those of all.
Own(c, o, l) ==
  One(HeldAs(c, o, "object"), l) + One(HeldAs(c, o, "name"), l) + One(HeldAs(c, o, "image"), l)

HandlesOf(cs, os, l) == {e \in Threads \X Kinds : HeldAs(cs[e[1]], os[e[1]], e[2]) = l}

Counts(cs, os, rs, us) ==
  \A l \in Images : rs[l] = us[l] + (IF l = Main THEN 1 ELSE 0) + Cardinality(HandlesOf(cs, os, l))

LEMMA BalancedCounts ==
  Balanced <=> Counts(call, object, refs, user) /\ \A l \in Images : Loaded(l) <=> refs[l] > 0
  BY DEF Balanced, Counts, Handles, HandlesOf

LEMMA OneMore ==
  ASSUME NEW S, IsFiniteSet(S), NEW e, e \notin S, NEW x, NEW l,
         NEW R, \A y : y \in R <=> y \in S \/ (y = e /\ x = l)
  PROVE  IsFiniteSet(R) /\ Cardinality(R) = Cardinality(S) + One(x, l) /\ Cardinality(S) \in Nat
  <1>1. CASE x = l
    <2>1. R = S \cup {e}  BY <1>1
    <2> QED  BY <1>1, <2>1, FS_AddElement, FS_CardinalityType DEF One
  <1>2. CASE x # l
    <2>1. R = S  BY <1>2
    <2> QED  BY <1>2, <2>1, FS_CardinalityType DEF One
  <1> QED  BY <1>1, <1>2

HandlesBut(cs, os, t, l) ==
  {e \in (Threads \ {t}) \X Kinds : HeldAs(cs[e[1]], os[e[1]], e[2]) = l}

LEMMA Counted ==
  ASSUME NEW cs, NEW os, NEW t \in Threads, NEW l
  PROVE  /\ Cardinality(HandlesOf(cs, os, l))
               = Cardinality(HandlesBut(cs, os, t, l)) + Own(cs[t], os[t], l)
         /\ Cardinality(HandlesBut(cs, os, t, l)) \in Nat
         /\ IsFiniteSet(HandlesOf(cs, os, l))
  <1> DEFINE a == HeldAs(cs[t], os[t], "object")
             b == HeldAs(cs[t], os[t], "name")
             c == HeldAs(cs[t], os[t], "image")
             S == HandlesBut(cs, os, t, l)
             A == S \cup {e \in {<<t, "object">>} : a = l}
             B == A \cup {e \in {<<t, "name">>} : b = l}
             C == B \cup {e \in {<<t, "image">>} : c = l}
  <1>1. HandlesOf(cs, os, l) = C
    <2>1. ASSUME NEW e PROVE e \in HandlesOf(cs, os, l) <=> e \in C
      <3>1. CASE e \in Threads \X Kinds
        <4>1. PICK u \in Threads, k \in Kinds : e = <<u, k>>  BY <3>1
        <4>2. e[1] = u /\ e[2] = k  BY <4>1
        <4>3. e \in HandlesOf(cs, os, l) <=> HeldAs(cs[u], os[u], k) = l  BY <4>1, <4>2 DEF HandlesOf
        <4>4. e \in S <=> u # t /\ HeldAs(cs[u], os[u], k) = l  BY <4>1, <4>2 DEF HandlesBut
        <4>5. k \in {"object", "name", "image"}  BY DEF Kinds
        <4>6. e \in C <=> e \in S \/ (u = t /\ HeldAs(cs[t], os[t], k) = l)
          BY <4>1, <4>5
        <4> QED  BY <4>3, <4>4, <4>6
      <3>2. CASE ~(e \in Threads \X Kinds)  BY <3>2 DEF HandlesOf, HandlesBut, Kinds
      <3> QED  BY <3>1, <3>2
    <2> QED  BY <2>1
  <1>2. IsFiniteSet(S)
    <2>1. IsFiniteSet(Kinds)
      <3>1. PICK X : X = {} /\ IsFiniteSet(X)  BY FS_EmptySet
      <3>2. IsFiniteSet(X \cup {"object"})  BY <3>1, FS_AddElement
      <3>3. IsFiniteSet((X \cup {"object"}) \cup {"name"})  BY <3>2, FS_AddElement
      <3>4. IsFiniteSet(((X \cup {"object"}) \cup {"name"}) \cup {"image"})  BY <3>3, FS_AddElement
      <3>5. Kinds = ((X \cup {"object"}) \cup {"name"}) \cup {"image"}  BY <3>1 DEF Kinds
      <3> QED  BY <3>4, <3>5
    <2>2. IsFiniteSet(Threads \X Kinds)  BY <2>1, FS_Product, ModulesAssumption
    <2>3. S \subseteq Threads \X Kinds  BY DEF HandlesBut
    <2> QED  BY <2>2, <2>3, FS_Subset
  <1>3. <<t, "object">> \notin S /\ <<t, "name">> \notin A /\ <<t, "image">> \notin B
    BY DEF HandlesBut
  <1> HIDE DEF a, b, c, S
  <1>4. IsFiniteSet(A) /\ Cardinality(A) = Cardinality(S) + One(a, l) /\ Cardinality(S) \in Nat
    <2>1. \A y : y \in A <=> y \in S \/ (y = <<t, "object">> /\ a = l)  OBVIOUS
    <2> QED  BY <1>2, <1>3, <2>1, OneMore
  <1>5. IsFiniteSet(B) /\ Cardinality(B) = Cardinality(A) + One(b, l)
    <2>1. \A y : y \in B <=> y \in A \/ (y = <<t, "name">> /\ b = l)  OBVIOUS
    <2> HIDE DEF A
    <2> QED  BY <1>3, <1>4, <2>1, OneMore
  <1>6. IsFiniteSet(C) /\ Cardinality(C) = Cardinality(B) + One(c, l)
    <2>1. \A y : y \in C <=> y \in B \/ (y = <<t, "image">> /\ c = l)  OBVIOUS
    <2> HIDE DEF B
    <2> QED  BY <1>3, <1>5, <2>1, OneMore
  <1>7. One(a, l) \in Nat /\ One(b, l) \in Nat /\ One(c, l) \in Nat  BY DEF One
  <1>8. Own(cs[t], os[t], l) = One(a, l) + One(b, l) + One(c, l)  BY DEF Own, a, b, c
  <1> HIDE DEF A, B, C
  <1> QED  BY <1>1, <1>4, <1>5, <1>6, <1>7, <1>8 DEF S

LEMMA HandlesFinite ==
  ASSUME NEW cs, NEW os, NEW l
  PROVE  IsFiniteSet(HandlesOf(cs, os, l)) /\ Cardinality(HandlesOf(cs, os, l)) \in Nat
  <1>1. CASE Threads = {}
    <2>1. HandlesOf(cs, os, l) = {}  BY <1>1 DEF HandlesOf
    <2> QED  BY <2>1, FS_EmptySet
  <1>2. CASE Threads # {}
    <2>1. PICK t : t \in Threads  BY <1>2
    <2> QED  BY <2>1, Counted, FS_CardinalityType
  <1> QED  BY <1>1, <1>2

LEMMA Recounted ==
  ASSUME NEW cs \in [Threads -> Call], NEW os \in [Threads -> Object], NEW rs, NEW us,
         NEW t \in Threads, NEW c1, NEW o1, NEW rs1,
         Counts(cs, os, rs, us), us \in [Images -> Nat],
         \A l \in Images : rs1[l] = rs[l] + Own(c1, o1, l) - Own(cs[t], os[t], l)
  PROVE  Counts([cs EXCEPT ![t] = c1], [os EXCEPT ![t] = o1], rs1, us)
  <1>0. PICK cs1, os1 : cs1 = [cs EXCEPT ![t] = c1] /\ os1 = [os EXCEPT ![t] = o1]  OBVIOUS
  <1>1. ASSUME NEW l \in Images
        PROVE rs1[l] = us[l] + (IF l = Main THEN 1 ELSE 0) + Cardinality(HandlesOf(cs1, os1, l))
    <2>1. cs1[t] = c1 /\ os1[t] = o1  BY <1>0
    <2>2. HandlesBut(cs1, os1, t, l) = HandlesBut(cs, os, t, l)
      <3>1. \A u \in Threads \ {t} : cs1[u] = cs[u] /\ os1[u] = os[u]  BY <1>0
      <3>2. ASSUME NEW e \in (Threads \ {t}) \X Kinds
            PROVE  HeldAs(cs1[e[1]], os1[e[1]], e[2]) = HeldAs(cs[e[1]], os[e[1]], e[2])
        BY <3>1
      <3> QED  BY <3>2 DEF HandlesBut
    <2>3. Cardinality(HandlesOf(cs1, os1, l)) = Cardinality(HandlesBut(cs1, os1, t, l)) + Own(cs1[t], os1[t], l)
      BY Counted, ZenonT(60)
    <2>4. /\ Cardinality(HandlesOf(cs, os, l)) = Cardinality(HandlesBut(cs, os, t, l)) + Own(cs[t], os[t], l)
          /\ Cardinality(HandlesBut(cs, os, t, l)) \in Nat
      BY Counted
    <2>5. Own(cs[t], os[t], l) \in Nat /\ Own(c1, o1, l) \in Nat  BY DEF Own, One
    <2>6. us[l] \in Nat  OBVIOUS
    <2>7. rs[l] = us[l] + (IF l = Main THEN 1 ELSE 0) + Cardinality(HandlesOf(cs, os, l))
      BY DEF Counts
    <2>8. rs1[l] = rs[l] + Own(c1, o1, l) - Own(cs[t], os[t], l)  OBVIOUS
    <2>9. Cardinality(HandlesOf(cs1, os1, l)) = Cardinality(HandlesBut(cs, os, t, l)) + Own(c1, o1, l)
      BY <2>1, <2>2, <2>3
    <2> QED  BY <2>4, <2>5, <2>6, <2>7, <2>8, <2>9
  <1> QED  BY <1>0, <1>1 DEF Counts

\* An image that a thread has a handle of is loaded, and one with no references has no handle.
LEMMA HandleFacts ==
  ASSUME IInv, NEW t \in Threads, NEW l \in Images
  PROVE  /\ Own(call[t], object[t], l) \in Nat
         /\ refs[l] >= Own(call[t], object[t], l) + (IF l = Main THEN 1 ELSE 0)
         /\ Own(call[t], object[t], l) > 0 => Loaded(l)
  <1>1. Cardinality(HandlesOf(call, object, l))
          = Cardinality(HandlesBut(call, object, t, l)) + Own(call[t], object[t], l)
        /\ Cardinality(HandlesBut(call, object, t, l)) \in Nat
    BY Counted
  <1>2. Own(call[t], object[t], l) \in Nat  BY DEF Own, One
  <1>3. user[l] \in Nat /\ refs[l] \in Nat  BY DEF IInv, TypeOK
  <1>4. refs[l] = user[l] + (IF l = Main THEN 1 ELSE 0) + Cardinality(HandlesOf(call, object, l))
        /\ (Loaded(l) <=> refs[l] > 0)
    BY BalancedCounts DEF IInv, Counts
  <1> QED  BY <1>1, <1>2, <1>3, <1>4

\* The image of an object is loaded.
LEMMA ObjectLoaded ==
  ASSUME IInv, NEW t \in Threads, object[t].handle \in Images
  PROVE  Loaded(object[t].handle)
  <1>1. Loaded(Main)
    <2>1. 1 \in DOMAIN list /\ list[1] = Main  BY ListFacts, EmptySeq DEF IInv, ListOK, TypeOK
    <2> QED  BY <2>1 DEF Loaded
  <1>2. object[t] \in Object  BY DEF IInv, TypeOK
  <1>3. CASE ~object[t].owning
    <2>1. object[t] # NoObject  BY ModulesAssumption DEF NoObject
    <2> QED  BY <1>1, <1>3, <2>1 DEF IInv, Fine, Placed
  <1>4. CASE object[t].owning
    <2>1. HeldAs(call[t], object[t], "object") = object[t].handle  BY <1>4 DEF HeldAs
    <2>2. Own(call[t], object[t], object[t].handle) > 0  BY <2>1 DEF Own, One
    <2> QED  BY <2>2, HandleFacts
  <1> QED  BY <1>2, <1>3, <1>4 DEF Object

-----------------------------------------------------------------------------
(* The steps, by what they do to the list and to the counts *)

LocksOK ==
  /\ walker \in Threads \cup {NoThread}
  /\ loading \in [does : {"nothing", "load", "unload", "close"}, to : Images \cup {NoImage},
                 by : Threads \cup {NoThread}]

\* Thread t goes on as c1 with the object o1, and the list stays as it is.
LEMMA Stays ==
  ASSUME IInv, NEW t \in Threads, NEW c1 \in Call, NEW o1 \in Object, Fine(c1, o1),
         Still, user' = user, LocksOK',
         call' = [call EXCEPT ![t] = c1], object' = [object EXCEPT ![t] = o1],
         refs' \in [Images -> Nat],
         \A l \in Images : refs'[l] = refs[l] + Own(c1, o1, l) - Own(call[t], object[t], l),
         \A l \in Images : refs'[l] > 0 <=> refs[l] > 0
  PROVE  IInv'
  <1>1. call' \in [Threads -> Call] /\ object' \in [Threads -> Object]  BY DEF IInv, TypeOK
  <1>2. TypeOK'  BY <1>1 DEF IInv, TypeOK, Still, LocksOK
  <1>3. ListOK' /\ \A l : Loaded(l)' <=> Loaded(l)  BY StillList DEF IInv, ListOK
  <1>4. Balanced'
    <2>1. Counts(call', object', refs', user')
      <3>1. call \in [Threads -> Call] /\ object \in [Threads -> Object] /\ user \in [Images -> Nat]
        BY DEF IInv, TypeOK
      <3>2. Counts(call, object, refs, user)  BY BalancedCounts DEF IInv
      <3>3. Counts([call EXCEPT ![t] = c1], [object EXCEPT ![t] = o1], refs', user)
        BY <3>1, <3>2, Recounted
      <3> QED  BY <3>3
    <2>2. \A l \in Images : Loaded(l)' <=> refs'[l] > 0  BY <1>3 DEF IInv, Balanced
    <2> QED  BY <2>1, <2>2 DEF Balanced, Counts, Handles, HandlesOf
  <1>5. ASSUME NEW u \in Threads PROVE Fine(call[u], object[u])'
    <2>1. PICK c, o : c = call'[u] /\ o = object'[u]  OBVIOUS
    <2>2. Fine(c, o)  BY <2>1 DEF IInv, TypeOK
    <2>3. Fine(c, o)'  BY <2>2, FineStill
    <2> QED  BY <2>1, <2>3
  <1> QED  BY <1>2, <1>3, <1>4, <1>5 DEF IInv

\* What an unload makes of the calls cs, when no object os has a handle of the image.
LEMMA Unloaded ==
  ASSUME TypeOK, ListOK, NEW l, Shrunk(l), user'[Main] = 0,
         NEW cs \in [Threads -> Call], NEW os \in [Threads -> Object],
         \A u \in Threads : Fine(cs[u], os[u]) /\ os[u].handle # l,
         call' = SawUnload(cs, l), object' = os
  PROVE  /\ call' \in [Threads -> Call]
         /\ \A u \in Threads : Fine(call[u], object[u])'
         /\ \A m : HandlesOf(call', object', m) = HandlesOf(cs, os, m)
  <1>1. ASSUME NEW u \in Threads
        PROVE  /\ call'[u] \in Call /\ Fine(call[u], object[u])'
               /\ \A k \in Kinds : HeldAs(call'[u], object'[u], k) = HeldAs(cs[u], os[u], k)
    <2>1. PICK c, o, d : c = cs[u] /\ o = os[u] /\ d = call'[u]  OBVIOUS
    <2>2. d = IF Busy(c) THEN [c EXCEPT !.steady = @ \ {l}, !.raced = TRUE] ELSE c
      BY <2>1 DEF SawUnload
    <2>3. c \in Call /\ o \in Object /\ Fine(c, o) /\ o.handle # l  BY <2>1
    <2>4. d \in Call /\ Fine(d, o)'  BY <2>2, <2>3, FineShrunk
    <2>5. \A k \in Kinds : HeldAs(d, o, k) = HeldAs(c, o, k)  BY <2>2, <2>3 DEF HeldAs, Call
    <2> QED  BY <2>1, <2>4, <2>5
  <1>2. call' \in [Threads -> Call]
    <2>1. call' = [u \in Threads |-> call'[u]]  BY DEF SawUnload
    <2> QED  BY <1>1, <2>1
  <1>3. ASSUME NEW m PROVE HandlesOf(call', object', m) = HandlesOf(cs, os, m)
    <2>1. ASSUME NEW e \in Threads \X Kinds
          PROVE HeldAs(call'[e[1]], object'[e[1]], e[2]) = HeldAs(cs[e[1]], os[e[1]], e[2])
      BY <1>1
    <2> QED  BY <2>1 DEF HandlesOf
  <1> QED  BY <1>1, <1>2, <1>3

\* A reference to l is given back.
LEMMA Closed ==
  ASSUME IInv, NEW l \in Images, UNCHANGED <<platform, fixed>>, LocksOK',
         NEW cs \in [Threads -> Call], NEW os \in [Threads -> Object],
         \A u \in Threads : Fine(cs[u], os[u]),
         Close(l, cs), object' = os,
         user' \in [Images -> 0 .. MaxUser], user'[Main] = 0,
         refs[l] > (IF l = Main THEN 1 ELSE 0),
         Counts(cs, os, [refs EXCEPT ![l] = @ - 1], user')
  PROVE  IInv'
  <1>1. refs \in [Images -> Nat] /\ refs' = [refs EXCEPT ![l] = @ - 1]  BY DEF IInv, TypeOK, Close
  <1>2. refs' \in [Images -> Nat] /\ \A m \in Images : refs'[m] = IF m = l THEN refs[l] - 1 ELSE refs[m]
    BY <1>1
  <1>3. \A m \in Images : Loaded(m) <=> refs[m] > 0  BY DEF IInv, Balanced
  <1>4. CASE refs[l] = 1
    <2>1. l \in Libs  BY <1>4 DEF Images
    <2>2. Loaded(l)  BY <1>3, <1>4
    <2>3. Shrunk(l)  BY <1>4, <2>1, <2>2 DEF Close, Shrunk
    <2>4. call' = SawUnload(cs, l)  BY <1>4 DEF Close
    <2>5. HandlesOf(cs, os, l) = {}
      <3>1. refs'[l] = user'[l] + (IF l = Main THEN 1 ELSE 0) + Cardinality(HandlesOf(cs, os, l))
        BY <1>1 DEF Counts
      <3>2. user'[l] \in Nat  OBVIOUS
      <3>3. PICK X : X = HandlesOf(cs, os, l)  OBVIOUS
      <3>4. IsFiniteSet(X) /\ Cardinality(X) \in Nat  BY <3>3, HandlesFinite
      <3>6. Cardinality(X) = 0  BY <1>2, <1>4, <3>1, <3>2, <3>3, <3>4
      <3> QED  BY <3>3, <3>4, <3>6, FS_EmptySet
    <2>6. ASSUME NEW u \in Threads PROVE os[u].handle # l
      <3>1. HeldAs(cs[u], os[u], "object") # l
        <4>1. <<u, "object">> \in Threads \X Kinds  BY DEF Kinds
        <4>2. <<u, "object">> \notin HandlesOf(cs, os, l)  BY <2>5
        <4> QED  BY <4>1, <4>2 DEF HandlesOf
      <3>2. CASE os[u].owning  BY <3>1, <3>2 DEF HeldAs
      <3>3. CASE ~os[u].owning
        <4>1. l # Main  BY <2>1, ModulesAssumption
        <4>2. os[u] # NoObject => os[u].handle = Main  BY <3>3 DEF Fine, Placed
        <4>3. NoObject.handle # l  BY ModulesAssumption DEF NoObject
        <4> QED  BY <4>1, <4>2, <4>3
      <3> QED  BY <3>2, <3>3
    <2>7. TypeOK /\ ListOK  BY DEF IInv
    <2>8. /\ ListOK' /\ list' \in Seq(Images) /\ place' \in [Images -> Bases \cup {Nowhere}]
          /\ \A m : Loaded(m)' <=> Loaded(m) /\ m # l
      BY <2>3, <2>7, ShrunkList
    <2>9. /\ call' \in [Threads -> Call]
          /\ \A u \in Threads : Fine(call[u], object[u])'
          /\ \A m : HandlesOf(call', object', m) = HandlesOf(cs, os, m)
      BY <2>3, <2>4, <2>6, <2>7, Unloaded
    <2>10. TypeOK'  BY <1>2, <2>7, <2>8, <2>9 DEF TypeOK, LocksOK
    <2>11. Balanced'
      <3>1. Counts(call', object', refs', user')  BY <1>1, <2>9 DEF Counts
      <3>2. ASSUME NEW m \in Images PROVE Loaded(m)' <=> refs'[m] > 0
        <4>1. CASE m = l
          <5>1. refs'[m] = 0  BY <1>2, <1>4, <4>1
          <5> QED  BY <2>8, <4>1, <5>1
        <4>2. CASE m # l
          <5>1. refs'[m] = refs[m]  BY <1>2, <4>2
          <5> QED  BY <1>3, <2>8, <4>2, <5>1
        <4> QED  BY <4>1, <4>2
      <3> QED  BY <3>1, <3>2 DEF Balanced, Counts, Handles, HandlesOf
    <2> QED  BY <2>8, <2>9, <2>10, <2>11 DEF IInv
  <1>5. CASE refs[l] # 1
    <2>1. Still /\ call' = cs  BY <1>5 DEF Close, Still
    <2>2. TypeOK'  BY <1>2, <2>1 DEF IInv, TypeOK, LocksOK, Still
    <2>3. ListOK' /\ \A m : Loaded(m)' <=> Loaded(m)  BY <2>1, StillList DEF IInv
    <2>4. Balanced'
      <3>1. Counts(call', object', refs', user')  BY <1>1, <2>1
      <3>2. \A m \in Images : refs'[m] > 0 <=> refs[m] > 0
        <4>1. refs[l] \in Nat  BY <1>1
        <4> QED  BY <1>2, <1>5, <4>1
      <3>3. \A m \in Images : Loaded(m)' <=> refs'[m] > 0  BY <1>3, <2>3, <3>2
      <3> QED  BY <3>1, <3>3 DEF Balanced, Counts, Handles, HandlesOf
    <2>5. ASSUME NEW u \in Threads PROVE Fine(call[u], object[u])'
      <3>1. PICK c, o : c = call'[u] /\ o = object'[u]  OBVIOUS
      <3>2. Fine(c, o)'  BY <2>1, <3>1, FineStill
      <3> QED  BY <3>1, <3>2
    <2> QED  BY <2>2, <2>3, <2>4, <2>5 DEF IInv
  <1> QED  BY <1>4, <1>5

\* Thread t goes on as c1 with the object o1, and gives back a reference to l.
LEMMA Closes ==
  ASSUME IInv, NEW t \in Threads, NEW c1 \in Call, NEW o1 \in Object, Fine(c1, o1),
         NEW l \in Images, Close(l, [call EXCEPT ![t] = c1]),
         object' = [object EXCEPT ![t] = o1], UNCHANGED <<platform, fixed, user>>, LocksOK',
         \A m \in Images : Own(c1, o1, m) + One(l, m) = Own(call[t], object[t], m)
  PROVE  IInv'
  <1> DEFINE rs == [refs EXCEPT ![l] = @ - 1]
             cs == [call EXCEPT ![t] = c1]
             os == [object EXCEPT ![t] = o1]
  <1>1. /\ call \in [Threads -> Call] /\ object \in [Threads -> Object]
        /\ user \in [Images -> 0 .. MaxUser] /\ user[Main] = 0 /\ refs \in [Images -> Nat]
    BY DEF IInv, TypeOK, ListOK
  <1>2. cs \in [Threads -> Call] /\ os \in [Threads -> Object]  BY <1>1
  <1>3. \A u \in Threads : Fine(cs[u], os[u])  BY <1>1 DEF IInv
  <1>4. \A m \in Images : Own(c1, o1, m) \in Nat  BY DEF Own, One
  <1>5. \A m \in Images : rs[m] = refs[m] + Own(c1, o1, m) - Own(call[t], object[t], m)
    <2>1. ASSUME NEW m \in Images
          PROVE  rs[m] = refs[m] + Own(c1, o1, m) - Own(call[t], object[t], m)
      <3>1. rs[m] = refs[m] - One(l, m)  BY <1>1 DEF One
      <3>2. One(l, m) \in Nat  BY DEF One
      <3>3. Own(call[t], object[t], m) = Own(c1, o1, m) + One(l, m)  OBVIOUS
      <3>4. refs[m] \in Nat  BY <1>1
      <3> QED  BY <1>4, <3>1, <3>2, <3>3, <3>4
    <2> QED  BY <2>1
  <1>6. Counts(cs, os, rs, user)
    <2>1. Counts(call, object, refs, user) /\ user \in [Images -> Nat]
      BY <1>1, BalancedCounts DEF IInv
    <2> HIDE DEF rs
    <2> QED  BY <1>1, <1>5, <2>1, Recounted
  <1>7. refs[l] > (IF l = Main THEN 1 ELSE 0)
    <2>1. Own(call[t], object[t], l) > 0
      <3>1. One(l, l) = 1  BY DEF One
      <3> QED  BY <1>4, <3>1
    <2>2. /\ Own(call[t], object[t], l) \in Nat
          /\ refs[l] >= Own(call[t], object[t], l) + (IF l = Main THEN 1 ELSE 0)
      BY HandleFacts
    <2>3. refs[l] \in Nat  BY <1>1
    <2> QED  BY <2>1, <2>2, <2>3
  <1> HIDE DEF cs, os
  <1>8. Close(l, cs) /\ object' = os  BY DEF cs, os
  <1> QED  BY <1>1, <1>2, <1>3, <1>6, <1>7, <1>8, Closed

-----------------------------------------------------------------------------
(* The rest of the program *)

LEMMA UserBeginsOK ==
  ASSUME IInv, NEW l \in Libs, UserBegins(l)
  PROVE  IInv'
  <1>1. LocksOK' /\ Still /\ UNCHANGED <<refs, user, call, object>>
    BY DEF UserBegins, LocksOK, Still, IInv, TypeOK, Images
  <1>2. TypeOK'  BY <1>1 DEF IInv, TypeOK, LocksOK, Still
  <1>3. ListOK' /\ \A m : Loaded(m)' <=> Loaded(m)  BY <1>1, StillList DEF IInv, ListOK
  <1>4. Balanced'  BY <1>1, <1>3 DEF IInv, Balanced, Handles
  <1>5. ASSUME NEW u \in Threads PROVE Fine(call[u], object[u])'
    <2>1. PICK c, o : c = call[u] /\ o = object[u]  OBVIOUS
    <2>2. Fine(c, o)'  BY <1>1, <2>1, FineStill DEF IInv
    <2> QED  BY <1>1, <2>1, <2>2
  <1> QED  BY <1>2, <1>3, <1>4, <1>5 DEF IInv

\* What the rest of the program adds to its references or takes from them changes no handle.
LEMMA UserCounts ==
  ASSUME IInv, NEW l \in Images, NEW x \in {1, -1}, NEW rs, NEW us,
         rs = [refs EXCEPT ![l] = @ + x], us = [user EXCEPT ![l] = @ + x]
  PROVE  Counts(call, object, rs, us)
  <1>1. Counts(call, object, refs, user)  BY BalancedCounts DEF IInv
  <1>2. refs \in [Images -> Nat] /\ user \in [Images -> 0 .. MaxUser]  BY DEF IInv, TypeOK
  <1>3. ASSUME NEW m \in Images
        PROVE  rs[m] = us[m] + (IF m = Main THEN 1 ELSE 0) + Cardinality(HandlesOf(call, object, m))
    <2>1. PICK n : n = Cardinality(HandlesOf(call, object, m))  OBVIOUS
    <2>2. refs[m] = user[m] + (IF m = Main THEN 1 ELSE 0) + n  BY <1>1, <2>1 DEF Counts
    <2>3. refs[m] \in Nat /\ user[m] \in Nat  BY <1>2
    <2>4. n \in Nat  BY <2>1, HandlesFinite
    <2>5. CASE m = l
      <3>1. rs[m] = refs[m] + x /\ us[m] = user[m] + x  BY <1>2, <2>5
      <3> QED  BY <2>1, <2>2, <2>3, <2>4, <3>1
    <2>6. CASE m # l
      <3>1. rs[m] = refs[m] /\ us[m] = user[m]  BY <1>2, <2>6
      <3> QED  BY <2>1, <2>2, <3>1
    <2> QED  BY <2>5, <2>6
  <1> QED  BY <1>3 DEF Counts

LEMMA UserUnloadOK ==
  ASSUME IInv, NEW l \in Libs, UserUnload(l)
  PROVE  IInv'
  <1>1. l \in Images /\ l # Main /\ Main \in Images  BY ModulesAssumption DEF Images
  <1>2. /\ UNCHANGED <<platform, fixed, object>> /\ LocksOK'
        /\ Close(l, call) /\ user[l] > 0 /\ user' = [user EXCEPT ![l] = @ - 1]
    BY DEF UserUnload, UserEnds, LocksOK, IInv, TypeOK, Nothing
  <1>3. /\ call \in [Threads -> Call] /\ object \in [Threads -> Object]
        /\ refs \in [Images -> Nat] /\ user \in [Images -> 0 .. MaxUser] /\ user[Main] = 0
        /\ \A u \in Threads : Fine(call[u], object[u])
    BY DEF IInv, TypeOK, ListOK
  <1>4. user' \in [Images -> 0 .. MaxUser] /\ user'[Main] = 0
    <2>1. user[l] - 1 \in 0 .. MaxUser  BY <1>1, <1>2, <1>3, ModulesAssumption
    <2> QED  BY <1>1, <1>2, <1>3, <2>1
  <1>5. refs[l] > 0
    <2>1. PICK n : n = Cardinality(HandlesOf(call, object, l))  OBVIOUS
    <2>2. refs[l] = user[l] + 0 + n
      BY <1>1, <2>1, BalancedCounts DEF IInv, Counts
    <2>3. n \in Nat  BY <2>1, HandlesFinite
    <2> QED  BY <1>1, <1>2, <1>3, <2>2, <2>3
  <1>6. Counts(call, object, [refs EXCEPT ![l] = @ - 1], user')
    <2>1. PICK x \in {1, -1} : x = -1  OBVIOUS
    <2>2. [refs EXCEPT ![l] = @ - 1] = [refs EXCEPT ![l] = @ + x]
      <3>1. refs[l] - 1 = refs[l] + x  BY <1>1, <1>3, <2>1
      <3> QED  BY <3>1
    <2>3. user' = [user EXCEPT ![l] = @ + x]
      <3>1. user[l] - 1 = user[l] + x  BY <1>1, <1>3, <2>1
      <3> QED  BY <1>2, <3>1
    <2>4. Counts(call, object, [refs EXCEPT ![l] = @ + x], user')  BY <1>1, <2>3, UserCounts
    <2> QED  BY <2>2, <2>4
  <1> QED  BY <1>1, <1>2, <1>3, <1>4, <1>5, <1>6, Closed

LEMMA UserLoadOK ==
  ASSUME IInv, NEW l \in Libs, UserLoad(l)
  PROVE  IInv'
  <1>1. l \in Images /\ l # Main /\ Main \in Images  BY ModulesAssumption DEF Images
  <1>2. /\ UNCHANGED <<platform, fixed, object>> /\ LocksOK'
        /\ user[l] < MaxUser /\ user' = [user EXCEPT ![l] = @ + 1]
        /\ refs' = [refs EXCEPT ![l] = @ + 1]
    BY DEF UserLoad, UserEnds, Open, LocksOK, IInv, TypeOK, Nothing
  <1>3. /\ call \in [Threads -> Call] /\ object \in [Threads -> Object]
        /\ refs \in [Images -> Nat] /\ user \in [Images -> 0 .. MaxUser] /\ user[Main] = 0
        /\ \A u \in Threads : Fine(call[u], object[u])
        /\ TypeOK /\ ListOK /\ Balanced
    BY DEF IInv, TypeOK, ListOK
  <1>4. user' \in [Images -> 0 .. MaxUser] /\ user'[Main] = 0
    <2>1. user[l] + 1 \in 0 .. MaxUser  BY <1>1, <1>2, <1>3, ModulesAssumption
    <2> QED  BY <1>1, <1>2, <1>3, <2>1
  <1>5. refs' \in [Images -> Nat] /\ \A m \in Images : refs'[m] = IF m = l THEN refs[l] + 1 ELSE refs[m]
    BY <1>1, <1>2, <1>3
  <1>6. Counts(call, object, refs', user')
    <2>1. PICK x \in {1, -1} : x = 1  OBVIOUS
    <2>2. refs' = [refs EXCEPT ![l] = @ + x] /\ user' = [user EXCEPT ![l] = @ + x]  BY <1>2, <2>1
    <2> QED  BY <1>1, <2>2, UserCounts
  <1>7. CASE Loaded(l)
    <2>1. Still /\ call' = call  BY <1>7 DEF UserLoad, Still
    <2>2. TypeOK'  BY <1>2, <1>3, <1>4, <1>5, <2>1 DEF TypeOK, LocksOK, Still
    <2>3. ListOK' /\ \A m : Loaded(m)' <=> Loaded(m)  BY <1>3, <1>4, <2>1, StillList
    <2>4. \A m \in Images : Loaded(m)' <=> refs'[m] > 0
      <3>1. \A m \in Images : refs'[m] > 0 <=> refs[m] > 0 \/ m = l  BY <1>1, <1>3, <1>5
      <3> QED  BY <1>3, <1>7, <2>3, <3>1 DEF Balanced
    <2>5. Balanced'
      <3>1. Counts(call', object', refs', user')  BY <1>2, <1>6, <2>1
      <3> QED  BY <2>4, <3>1 DEF Balanced, Counts, Handles, HandlesOf
    <2>6. ASSUME NEW u \in Threads PROVE Fine(call[u], object[u])'
      <3>1. PICK c, o : c = call[u] /\ o = object[u]  OBVIOUS
      <3>2. Fine(c, o)'  BY <1>3, <2>1, <3>1, FineStill
      <3> QED  BY <1>2, <2>1, <3>1, <3>2
    <2> QED  BY <2>2, <2>3, <2>5, <2>6 DEF IInv
  <1>8. CASE ~Loaded(l)
    <2>1. PICK p \in Places : /\ list' = Append(list, l) /\ place' = [place EXCEPT ![l] = p]
                              /\ call' = SawLoad(call, l, p)
      BY <1>8 DEF UserLoad
    <2>2. Grown(l, p)  BY <1>2, <1>8, <2>1 DEF Grown
    <2>3. /\ ListOK' /\ list' \in Seq(Images) /\ place' \in [Images -> Bases \cup {Nowhere}]
          /\ \A m : Loaded(m)' <=> Loaded(m) \/ m = l
      BY <1>3, <1>4, <2>2, GrownList
    <2>4. ASSUME NEW u \in Threads
          PROVE  /\ call'[u] \in Call /\ Fine(call[u], object[u])'
                 /\ \A k \in Kinds : HeldAs(call'[u], object'[u], k) = HeldAs(call[u], object[u], k)
      <3>1. PICK c, o, d : c = call[u] /\ o = object[u] /\ d = call'[u]  OBVIOUS
      <3>2. d = IF Busy(c) /\ c.asked = p THEN [c EXCEPT !.seen = @ \cup {l}] ELSE c
        BY <2>1, <3>1 DEF SawLoad
      <3>3. c \in Call /\ o \in Object /\ Fine(c, o) /\ (o.handle \in Images => Loaded(o.handle))
        BY <1>3, <3>1, ObjectLoaded
      <3>4. d \in Call /\ Fine(d, o)'  BY <1>3, <1>4, <2>2, <3>2, <3>3, FineGrown
      <3>5. \A k \in Kinds : HeldAs(d, o, k) = HeldAs(c, o, k)  BY <3>2, <3>3 DEF HeldAs, Call
      <3> QED  BY <1>2, <3>1, <3>4, <3>5
    <2>5. call' \in [Threads -> Call]
      <3>1. call' = [u \in Threads |-> call'[u]]  BY <2>1 DEF SawLoad
      <3> QED  BY <2>4, <3>1
    <2>6. ASSUME NEW m PROVE HandlesOf(call', object', m) = HandlesOf(call, object, m)
      <3>1. ASSUME NEW e \in Threads \X Kinds
            PROVE HeldAs(call'[e[1]], object'[e[1]], e[2]) = HeldAs(call[e[1]], object[e[1]], e[2])
        BY <2>4
      <3> QED  BY <3>1 DEF HandlesOf
    <2>7. TypeOK'  BY <1>2, <1>3, <1>4, <1>5, <2>3, <2>5 DEF TypeOK, LocksOK
    <2>8. \A m \in Images : Loaded(m)' <=> refs'[m] > 0
      <3>1. \A m \in Images : refs'[m] > 0 <=> refs[m] > 0 \/ m = l  BY <1>1, <1>3, <1>5
      <3> QED  BY <1>3, <2>3, <3>1 DEF Balanced
    <2>9. Balanced'
      <3>1. Counts(call', object', refs', user')  BY <1>6, <2>6 DEF Counts
      <3> QED  BY <2>8, <3>1 DEF Balanced, Counts, Handles, HandlesOf
    <2> QED  BY <2>3, <2>4, <2>7, <2>9 DEF IInv
  <1> QED  BY <1>7, <1>8

-----------------------------------------------------------------------------
(* The steps of a thread *)

\* Thread t takes no reference and gives none back.
LEMMA Moves ==
  ASSUME IInv, NEW t \in Threads, NEW c1 \in Call, NEW o1 \in Object, Fine(c1, o1),
         UNCHANGED <<platform, fixed, list, place, refs, user>>, LocksOK',
         call' = [call EXCEPT ![t] = c1], object' = [object EXCEPT ![t] = o1],
         \A l \in Images : Own(c1, o1, l) = Own(call[t], object[t], l)
  PROVE  IInv'
  <1>1. Still  BY DEF Still
  <1>2. refs' \in [Images -> Nat]  BY DEF IInv, TypeOK
  <1>3. ASSUME NEW l \in Images PROVE refs'[l] = refs[l] + Own(c1, o1, l) - Own(call[t], object[t], l)
    <2>1. Own(c1, o1, l) \in Nat  BY DEF Own, One
    <2>2. refs[l] \in Nat  BY DEF IInv, TypeOK
    <2> QED  BY <2>1, <2>2
  <1>4. \A l \in Images : refs'[l] > 0 <=> refs[l] > 0  OBVIOUS
  <1> QED  BY <1>1, <1>2, <1>3, <1>4, Stays

\* Thread t takes a reference to a loaded image.
LEMMA Takes ==
  ASSUME IInv, NEW t \in Threads, NEW c1 \in Call, NEW o1 \in Object, Fine(c1, o1),
         NEW m \in Images, Loaded(m), Open(m),
         UNCHANGED <<platform, fixed, list, place, user>>, LocksOK',
         call' = [call EXCEPT ![t] = c1], object' = [object EXCEPT ![t] = o1],
         \A l \in Images : Own(c1, o1, l) = Own(call[t], object[t], l) + One(m, l)
  PROVE  IInv'
  <1>1. Still  BY DEF Still
  <1>2. refs \in [Images -> Nat]  BY DEF IInv, TypeOK
  <1>3. refs' \in [Images -> Nat] /\ \A l \in Images : refs'[l] = refs[l] + One(m, l)
    BY <1>2 DEF Open, One
  <1>4. ASSUME NEW l \in Images PROVE refs'[l] = refs[l] + Own(c1, o1, l) - Own(call[t], object[t], l)
    <2>1. One(m, l) \in Nat /\ refs[l] \in Nat /\ Own(call[t], object[t], l) \in Nat
      BY <1>2 DEF One, Own
    <2>2. Own(c1, o1, l) = Own(call[t], object[t], l) + One(m, l)  OBVIOUS
    <2>3. refs'[l] = refs[l] + One(m, l)  BY <1>3
    <2> QED  BY <2>1, <2>2, <2>3
  <1>5. refs[m] > 0  BY DEF IInv, Balanced
  <1>6. ASSUME NEW l \in Images PROVE refs'[l] > 0 <=> refs[l] > 0
    <2>1. CASE l = m  BY <1>2, <1>3, <1>5, <2>1 DEF One
    <2>2. CASE l # m  BY <1>2, <1>3, <2>2 DEF One
    <2> QED  BY <2>1, <2>2
  <1> QED  BY <1>1, <1>3, <1>4, <1>6, Stays

LEMMA ThreadFacts ==
  ASSUME IInv, NEW t \in Threads
  PROVE  /\ call[t] \in Call /\ object[t] \in Object /\ Fine(call[t], object[t])
         /\ call = [call EXCEPT ![t] = call[t]] /\ object = [object EXCEPT ![t] = object[t]]
         /\ TypeOK /\ ListOK /\ LocksOK
         /\ ~Busy(call[t]) => call[t] = NoCall
  BY DEF IInv, TypeOK, LocksOK, Busy, Fine, Shaped

\* A thread that is not in a call has the handle of its object.
LEMMA FineIdle ==
  ASSUME NEW o, Placed(o)
  PROVE  /\ NoCall \in Call /\ Fine(NoCall, o)
         /\ \A l \in Images : Own(NoCall, o, l) = One(HeldAs(NoCall, o, "object"), l)
  <1>1. NoCall \in Call  BY DEF NoCall, Call, PCs, AnyBase
  <1>2. Fine(NoCall, o)
    BY DEF NoCall, Fine, Shaped, Watched, LinuxPassed, MacPassed, Ended, Certain, Doomed, Walking,
           LinuxPCs, MacSeeks
  <1>3. ASSUME NEW l \in Images PROVE Own(NoCall, o, l) = One(HeldAs(NoCall, o, "object"), l)
    <2>1. NoImage # l  BY ModulesAssumption
    <2>2. HeldAs(NoCall, o, "name") = NoImage /\ HeldAs(NoCall, o, "image") = NoImage
      BY DEF HeldAs, NoCall
    <2>3. One(NoImage, l) = 0  BY <2>1 DEF One
    <2>4. One(HeldAs(NoCall, o, "object"), l) \in Nat  BY DEF One
    <2> QED  BY <2>2, <2>3, <2>4 DEF Own
  <1> QED  BY <1>1, <1>2, <1>3

LEMMA NoObjectFacts ==
  /\ NoObject \in Object /\ Placed(NoObject) /\ NoObject.handle \notin Images
  /\ \A c : HeldAs(c, NoObject, "object") = NoImage
  /\ \A l \in Images : One(NoImage, l) = 0 /\ Own(NoCall, NoObject, l) = 0
  <1>1. NoObject \in Object  BY DEF NoObject, Object, AnyBase
  <1>2. Placed(NoObject)  BY DEF Placed
  <1>3. NoObject.handle \notin Images /\ NoImage \notin Images  BY ModulesAssumption DEF NoObject
  <1>4. \A c : HeldAs(c, NoObject, "object") = NoImage  BY DEF NoObject, HeldAs
  <1>5. \A l \in Images : One(NoImage, l) = 0  BY <1>3 DEF One
  <1>6. \A l \in Images : Own(NoCall, NoObject, l) = 0  BY <1>2, <1>4, <1>5, FineIdle
  <1> QED  BY <1>1, <1>2, <1>3, <1>4, <1>5, <1>6

LEMMA DestroyOK ==
  ASSUME IInv, NEW t \in Threads, Destroy(t)
  PROVE  IInv'
  <1>1. /\ call[t] = NoCall /\ object[t] \in Object /\ Fine(call[t], object[t]) /\ TypeOK
        /\ call = [call EXCEPT ![t] = call[t]] /\ LocksOK
    BY ThreadFacts DEF Destroy
  <1>2. /\ LocksOK' /\ UNCHANGED <<platform, fixed, list, place, refs, user>>
        /\ object' = [object EXCEPT ![t] = NoObject]
    BY <1>1 DEF Destroy, loader, locks, LocksOK, Holds
  <1>3. NoCall \in Call /\ Fine(NoCall, NoObject)  BY NoObjectFacts, FineIdle
  <1>4. \A l \in Images : Own(NoCall, object[t], l) = One(HeldAs(NoCall, object[t], "object"), l)
    BY <1>1, FineIdle DEF Fine
  <1>5. CASE object[t].owning /\ object[t].handle # NoImage
    <2>1. PICK l, S, d : /\ l = object[t].handle /\ S = {list[k] : k \in DOMAIN list}
                         /\ d = [NoCall EXCEPT !.op = "none", !.pc = "release", !.steady = S, !.held = l]
      OBVIOUS
    <2>2. l \in Images  BY <1>1, <1>5, <2>1 DEF Object
    <2>3. S \subseteq Images  BY <1>1, <2>1, ListFacts
    <2>4. \A m \in S : Loaded(m)  BY <2>1 DEF Loaded
    <2>5. d = [pc |-> "release", op |-> "none", name |-> NoImage, asked |-> Nowhere, held |-> l,
               must |-> FALSE, i |-> 0, count |-> 0, header |-> Nowhere, h |-> NoImage,
               steady |-> S, seen |-> {}, raced |-> FALSE]
      BY <2>1 DEF NoCall
    <2>6. /\ d.pc = "release" /\ d.op = "none" /\ d.held = l /\ d.steady = S /\ d.must = FALSE
          /\ d.seen = {} /\ d.asked = Nowhere /\ d.raced = FALSE /\ d.h = NoImage
      BY <2>5
    <2>7. d \in Call  BY <2>2, <2>3, <2>5 DEF Call, PCs, AnyBase
    <2>8. Fine(d, NoObject)
      <3>1. Shaped(d, NoObject)  BY <2>2, <2>6 DEF Shaped, Walking, LinuxPCs, MacSeeks
      <3>2. Watched(d)  BY <2>4, <2>6 DEF Watched
      <3>3. LinuxPassed(d) /\ MacPassed(d) /\ Ended(d, NoObject) /\ Certain(d, NoObject) /\ Doomed(d)
        BY <2>6 DEF LinuxPassed, MacPassed, Ended, Certain, Doomed, LinuxPCs, MacSeeks
      <3> QED  BY <3>1, <3>2, <3>3, NoObjectFacts DEF Fine
    <2>9. call' = [call EXCEPT ![t] = d]  BY <1>5, <2>1 DEF Destroy, GoesOn, Begun
    <2>10. \A m \in Images : Own(d, NoObject, m) = Own(call[t], object[t], m)
      <3>1. /\ HeldAs(d, NoObject, "object") = NoImage /\ HeldAs(d, NoObject, "name") = l
            /\ HeldAs(d, NoObject, "image") = NoImage
        BY <2>6, NoObjectFacts DEF HeldAs
      <3>2. HeldAs(NoCall, object[t], "object") = l  BY <1>5, <2>1 DEF HeldAs
      <3>3. \A m \in Images : One(l, m) \in Nat /\ One(NoImage, m) = 0  BY NoObjectFacts DEF One
      <3>4. \A m \in Images : Own(d, NoObject, m) = One(l, m)  BY <3>1, <3>3 DEF Own
      <3> QED  BY <1>1, <1>4, <3>2, <3>4
    <2> QED  BY <1>2, <2>7, <2>8, <2>9, <2>10, NoObjectFacts, Moves
  <1>6. CASE ~(object[t].owning /\ object[t].handle # NoImage)
    <2>1. call' = call  BY <1>6 DEF Destroy
    <2>2. \A m \in Images : Own(NoCall, NoObject, m) = Own(call[t], object[t], m)
      <3>1. HeldAs(NoCall, object[t], "object") = NoImage  BY <1>6 DEF HeldAs
      <3> QED  BY <1>1, <1>4, <3>1, NoObjectFacts
    <2>3. call' = [call EXCEPT ![t] = NoCall]  BY <1>1, <2>1
    <2> QED  BY <1>2, <1>3, <2>2, <2>3, NoObjectFacts, Moves
  <1> QED  BY <1>5, <1>6

LEMMA IdleFacts ==
  ASSUME IInv, NEW t \in Threads, Idle(t)
  PROVE  /\ call[t] = NoCall /\ object[t] = NoObject /\ LocksOK /\ TypeOK
         /\ call = [call EXCEPT ![t] = NoCall] /\ object = [object EXCEPT ![t] = NoObject]
         /\ \A l \in Images : Own(call[t], object[t], l) = 0
  BY ThreadFacts, NoObjectFacts DEF Idle

\* The object of an image with a reference.
Made(x, l) == [header |-> x, handle |-> l, slide |-> x, owning |-> TRUE, raced |-> FALSE]

LEMMA MadeFacts ==
  ASSUME TypeOK, NEW l \in Images, NEW x, x = AddressOf(l), NEW o, o = Made(x, l)
  PROVE  /\ o \in Object /\ Placed(o) /\ o # NoObject /\ o.handle = l
         /\ \A c : HeldAs(c, o, "object") = l
  <1>1. x \in AnyBase  BY DEF TypeOK, AddressOf, Moved, AnyBase
  <1>2. o.header = x /\ o.handle = l /\ o.slide = x /\ o.owning = TRUE  BY DEF Made
  <1>3. o \in Object  BY <1>1 DEF Object, Made
  <1>4. o # NoObject  BY <1>2, ModulesAssumption DEF NoObject
  <1>5. Placed(o)  BY <1>2 DEF Placed
  <1> QED  BY <1>2, <1>3, <1>4, <1>5 DEF HeldAs

LEMMA WinGetProcessModuleOK ==
  ASSUME IInv, NEW t \in Threads, WinGetProcessModule(t)
  PROVE  IInv'
  <1>1. PICK o1 : o1 = [Made(place[Main], Main) EXCEPT !.owning = FALSE]  OBVIOUS
  <1>2. platform = "win32" /\ Idle(t) /\ object' = [object EXCEPT ![t] = o1] /\ UNCHANGED <<loader, call>>
    BY <1>1 DEF WinGetProcessModule, Holds, New, Made
  <1>3. /\ o1.header = place[Main] /\ o1.handle = Main /\ o1.slide = place[Main]
        /\ o1.owning = FALSE /\ o1.raced = FALSE
    BY <1>1 DEF Made
  <1>4. Main \in Images  BY DEF Images
  <1>5. place[Main] \in AnyBase  BY <1>4 DEF IInv, TypeOK, AnyBase
  <1>6. o1 \in Object  BY <1>1, <1>4, <1>5 DEF Object, Made
  <1>7. Placed(o1)  BY <1>2, <1>3, <1>4 DEF Placed, AddressOf
  <1>8. HeldAs(NoCall, o1, "object") = NoImage  BY <1>3 DEF HeldAs
  <1>9. NoCall \in Call /\ Fine(NoCall, o1) /\ \A l \in Images : Own(NoCall, o1, l) = 0
    BY <1>7, <1>8, FineIdle, NoObjectFacts
  <1>10. call' = [call EXCEPT ![t] = NoCall] /\ LocksOK'
         /\ UNCHANGED <<platform, fixed, list, place, refs, user>>
    BY <1>2, IdleFacts DEF loader, locks, LocksOK
  <1>11. \A l \in Images : Own(NoCall, o1, l) = Own(call[t], object[t], l)  BY <1>2, <1>9, IdleFacts
  <1> QED  BY <1>2, <1>6, <1>9, <1>10, <1>11, Moves

LEMMA WinTakeOK ==
  ASSUME IInv, NEW t \in Threads, NEW l \in Images, Loaded(l), platform = "win32", Idle(t), WinTake(t, l)
  PROVE  IInv'
  <1>1. PICK o1 : o1 = Made(place[l], l)  OBVIOUS
  <1>2. AddressOf(l) = place[l]  BY DEF AddressOf
  <1>3. TypeOK /\ LocksOK /\ call = [call EXCEPT ![t] = NoCall]  BY IdleFacts
  <1>4. o1 \in Object /\ Placed(o1) /\ HeldAs(NoCall, o1, "object") = l
    BY <1>1, <1>2, <1>3, MadeFacts
  <1>5. NoCall \in Call /\ Fine(NoCall, o1) /\ \A m \in Images : Own(NoCall, o1, m) = One(l, m)
    BY <1>4, FineIdle
  <1>6. /\ Open(l) /\ object' = [object EXCEPT ![t] = o1]
        /\ UNCHANGED <<platform, fixed, list, place, user, call>> /\ LocksOK'
    BY <1>1, <1>3 DEF WinTake, Holds, New, Made, locks, LocksOK
  <1>7. \A m \in Images : Own(NoCall, o1, m) = Own(call[t], object[t], m) + One(l, m)
    <2>1. \A m \in Images : One(l, m) \in Nat  BY DEF One
    <2> QED  BY <1>5, <2>1, IdleFacts
  <1>8. call' = [call EXCEPT ![t] = NoCall]  BY <1>3, <1>6
  <1> QED  BY <1>4, <1>5, <1>6, <1>7, <1>8, Takes

LEMMA WinGetModuleOK ==
  ASSUME IInv, NEW t \in Threads, WinGetModule(t)
  PROVE  IInv'
  BY WinTakeOK DEF WinGetModule

LEMMA WinModuleAtOK ==
  ASSUME IInv, NEW t \in Threads, WinModuleAt(t)
  PROVE  IInv'
  BY WinTakeOK DEF WinModuleAt, At

LEMMA OpenNamedOK ==
  ASSUME IInv, NEW t \in Threads, NEW l \in Images, NEW pc, NEW must \in BOOLEAN,
         OpenNamed(t, l, "get_module", pc, must),
         \/ pc = "iterate" /\ platform = "linux" /\ (must => l = Main)
         \/ pc = "count" /\ platform = "mac" /\ ~must
  PROVE  IInv'
  <1>1. PICK c1 : c1 = [Begun("get_module", pc) EXCEPT !.name = l, !.held = l, !.must = must,
                                                      !.count = Len(list)]
    OBVIOUS
  <1>2. /\ c1.pc = pc /\ c1.op = "get_module" /\ c1.name = l /\ c1.asked = Nowhere /\ c1.held = l
        /\ c1.must = must /\ c1.i = 0 /\ c1.count = Len(list) /\ c1.header = Nowhere
        /\ c1.h = NoImage /\ c1.steady = {list[k] : k \in DOMAIN list} /\ c1.seen = {}
        /\ c1.raced = FALSE
    BY <1>1 DEF Begun, NoCall
  <1>3. /\ Loaded(l) /\ Idle(t) /\ Open(l) /\ call' = [call EXCEPT ![t] = c1]
        /\ UNCHANGED <<platform, fixed, list, place, user, object, locks>>
    BY <1>1 DEF OpenNamed, GoesOn
  <1>4. TypeOK /\ LocksOK /\ object = [object EXCEPT ![t] = NoObject]  BY <1>3, IdleFacts
  <1>5. Len(list) \in Nat /\ DOMAIN list = 1 .. Len(list) /\ \A k \in 1 .. Len(list) : list[k] \in Images
    BY <1>4, ListFacts
  <1>6. c1 \in Call
    <2>1. {list[k] : k \in DOMAIN list} \subseteq Images  BY <1>5
    <2> QED  BY <1>1, <1>5, <2>1 DEF Begun, NoCall, Call, PCs, AnyBase
  <1>7. Fine(c1, NoObject)
    <2>1. Shaped(c1, NoObject)  BY <1>2 DEF Shaped, LinuxPCs, MacSeeks, Walking
    <2>2. Watched(c1)  BY <1>2 DEF Watched, Loaded
    <2>3. LinuxPassed(c1)  BY <1>2, <1>5 DEF LinuxPassed
    <2>4. MacPassed(c1)  BY <1>2 DEF MacPassed, MacSeeks
    <2>5. Ended(c1, NoObject) /\ Certain(c1, NoObject) /\ Doomed(c1)
      BY <1>2 DEF Ended, Certain, Doomed
    <2> QED  BY <2>1, <2>2, <2>3, <2>4, <2>5, NoObjectFacts DEF Fine
  <1>8. ASSUME NEW m \in Images
        PROVE  Own(c1, NoObject, m) = Own(call[t], object[t], m) + One(l, m)
    <2>1. HeldAs(c1, NoObject, "name") = l /\ HeldAs(c1, NoObject, "image") = NoImage
      BY <1>2 DEF HeldAs
    <2>2. One(l, m) \in Nat  BY DEF One
    <2> QED  BY <1>3, <2>1, <2>2, IdleFacts, NoObjectFacts DEF Own
  <1>9. LocksOK' /\ object' = [object EXCEPT ![t] = NoObject]  BY <1>3, <1>4 DEF locks, LocksOK
  <1> QED  BY <1>3, <1>6, <1>7, <1>8, <1>9, NoObjectFacts, Takes

LEMMA GetModulesOK ==
  ASSUME IInv, NEW t \in Threads,
         LinuxGetModule(t) \/ LinuxGetProcessModule(t) \/ MacGetModule(t)
  PROVE  IInv'
  <1>1. Main \in Images  BY DEF Images
  <1> QED  BY <1>1, OpenNamedOK DEF LinuxGetModule, LinuxGetProcessModule, MacGetModule

LEMMA ModuleAtOK ==
  ASSUME IInv, NEW t \in Threads, ModuleAt(t)
  PROVE  IInv'
  <1>1. PICK p \in Bases :
          /\ platform # "win32" /\ Idle(t)
          /\ GoesOn(t, [Begun("module_at", IF platform = "linux" THEN "iterate" ELSE "count")
                          EXCEPT !.asked = p, !.seen = At(p)])
          /\ UNCHANGED <<loader, object>>
    BY DEF ModuleAt, Bases
  <1>2. PICK pc : pc = IF platform = "linux" THEN "iterate" ELSE "count"  OBVIOUS
  <1>3. PICK c1 : c1 = [Begun("module_at", pc) EXCEPT !.asked = p, !.seen = At(p)]  OBVIOUS
  <1>4. /\ c1.pc = pc /\ c1.op = "module_at" /\ c1.name = NoImage /\ c1.asked = p /\ c1.held = NoImage
        /\ c1.must = FALSE /\ c1.i = 0 /\ c1.count = 0 /\ c1.header = Nowhere
        /\ c1.h = NoImage /\ c1.steady = {list[k] : k \in DOMAIN list} /\ c1.seen = At(p)
        /\ c1.raced = FALSE
    BY <1>3 DEF Begun, NoCall
  <1>5. call' = [call EXCEPT ![t] = c1]  BY <1>1, <1>2, <1>3 DEF GoesOn
  <1>6. TypeOK /\ LocksOK /\ object = [object EXCEPT ![t] = NoObject]  BY <1>1, IdleFacts
  <1>7. platform \in {"linux", "mac"}  BY <1>1, <1>6, ModulesAssumption DEF TypeOK
  <1>8. c1 \in Call
    <2>1. {list[k] : k \in DOMAIN list} \subseteq Images  BY <1>6, ListFacts
    <2>2. At(p) \subseteq Images  BY DEF At
    <2> QED  BY <1>2, <1>3, <2>1, <2>2 DEF Begun, NoCall, Call, PCs, AnyBase
  <1>9. Fine(c1, NoObject)
    <2>1. Shaped(c1, NoObject)  BY <1>2, <1>4, <1>7 DEF Shaped, LinuxPCs, MacSeeks, Walking
    <2>2. Watched(c1)  BY <1>4 DEF Watched, Loaded, At
    <2>3. LinuxPassed(c1)  BY <1>4 DEF LinuxPassed
    <2>4. MacPassed(c1)  BY <1>2, <1>4 DEF MacPassed, MacSeeks
    <2>5. Ended(c1, NoObject) /\ Certain(c1, NoObject) /\ Doomed(c1)
      BY <1>2, <1>4 DEF Ended, Certain, Doomed
    <2> QED  BY <2>1, <2>2, <2>3, <2>4, <2>5, NoObjectFacts DEF Fine
  <1>10. ASSUME NEW m \in Images PROVE Own(c1, NoObject, m) = Own(call[t], object[t], m)
    <2>1. HeldAs(c1, NoObject, "name") = NoImage /\ HeldAs(c1, NoObject, "image") = NoImage
      BY <1>2, <1>4 DEF HeldAs
    <2> QED  BY <1>1, <2>1, IdleFacts, NoObjectFacts DEF Own
  <1>11. LocksOK' /\ UNCHANGED <<platform, fixed, list, place, refs, user>>
         /\ object' = [object EXCEPT ![t] = NoObject]
    BY <1>1, <1>6 DEF locks, LocksOK, loader
  <1> QED  BY <1>5, <1>8, <1>9, <1>10, <1>11, NoObjectFacts, Moves

-----------------------------------------------------------------------------
(* Linux *)

LEMMA IndexFacts ==
  ASSUME TypeOK, ListOK
  PROVE  /\ Len(list) \in Nat /\ Len(list) > 0 /\ list[1] = Main /\ Main \in Images
         /\ \A k \in 1 .. Len(list) : list[k] \in Images /\ Loaded(list[k]) /\ place[list[k]] \in Bases
         /\ \A m : Loaded(m) <=> \E k \in 1 .. Len(list) : list[k] = m
  <1>1. /\ Len(list) \in Nat /\ DOMAIN list = 1 .. Len(list)
        /\ \A k \in 1 .. Len(list) : list[k] \in Images
    BY ListFacts
  <1>2. Len(list) > 0 /\ list[1] = Main  BY <1>1, EmptySeq DEF ListOK, TypeOK
  <1>3. \A m : Loaded(m) <=> \E k \in 1 .. Len(list) : list[k] = m  BY <1>1 DEF Loaded
  <1>4. \A m \in Images : Loaded(m) => place[m] \in Bases  BY DEF TypeOK, ListOK
  <1> QED  BY <1>1, <1>2, <1>3, <1>4 DEF Images

LEMMA LinuxEnterOK ==
  ASSUME IInv, NEW t \in Threads, LinuxEnter(t)
  PROVE  IInv'
  <1>1. PICK c, o, d : c = call[t] /\ o = object[t] /\ d = [c EXCEPT !.pc = "walk"]  OBVIOUS
  <1>2. c \in Call /\ o \in Object /\ Fine(c, o) /\ LocksOK /\ TypeOK /\ ListOK
    BY <1>1, ThreadFacts
  <1>3. /\ d \in Call /\ d.pc = "walk" /\ d.op = c.op /\ d.name = c.name /\ d.asked = c.asked
        /\ d.held = c.held /\ d.must = c.must /\ d.i = c.i /\ d.count = c.count
        /\ d.header = c.header /\ d.h = c.h /\ d.steady = c.steady /\ d.seen = c.seen
        /\ d.raced = c.raced
    BY <1>1, <1>2 DEF Call, PCs
  <1>4. c.pc = "iterate"  BY <1>1 DEF LinuxEnter, Is
  <1>5. Shaped(d, o)  BY <1>2, <1>3, <1>4 DEF Fine, Shaped, Walking, LinuxPCs, MacSeeks
  <1>6. Watched(d)  BY <1>2, <1>3, <1>4 DEF Fine, Watched, Walking, LinuxPCs
  <1>7. LinuxPassed(d)  BY <1>2, <1>3, <1>4 DEF Fine, LinuxPassed, LinuxPCs
  <1>8. MacPassed(d)  BY <1>3 DEF MacPassed, MacSeeks
  <1>9. Ended(d, o) /\ Doomed(d)  BY <1>3 DEF Ended, Doomed
  <1>10. Certain(d, o)  BY <1>2, <1>3, <1>4 DEF Fine, Certain, Walking, LinuxPCs
  <1>11. Fine(d, o)  BY <1>2, <1>5, <1>6, <1>7, <1>8, <1>9, <1>10 DEF Fine
  <1>12. \A l \in Images : Own(d, o, l) = Own(call[t], object[t], l)
    BY <1>1, <1>3, <1>4 DEF Own, HeldAs
  <1>13. /\ UNCHANGED <<platform, fixed, list, place, refs, user>> /\ LocksOK'
         /\ call' = [call EXCEPT ![t] = d] /\ object' = [object EXCEPT ![t] = o]
    BY <1>1, <1>2, ThreadFacts DEF LinuxEnter, GoesOn, LocksOK
  <1> QED  BY <1>1, <1>2, <1>3, <1>11, <1>12, <1>13, Moves, ZenonT(60)

LEMMA LinuxEndOK ==
  ASSUME IInv, NEW t \in Threads, LinuxEnd(t)
  PROVE  IInv'
  <1>1. PICK c, o, d : c = call[t] /\ o = object[t] /\ d = [c EXCEPT !.pc = "release"]  OBVIOUS
  <1>2. c \in Call /\ o \in Object /\ Fine(c, o) /\ LocksOK /\ TypeOK /\ ListOK
    BY <1>1, ThreadFacts
  <1>3. /\ d \in Call /\ d.pc = "release" /\ d.op = c.op /\ d.name = c.name /\ d.asked = c.asked
        /\ d.held = c.held /\ d.must = c.must /\ d.i = c.i /\ d.count = c.count
        /\ d.header = c.header /\ d.h = c.h /\ d.steady = c.steady /\ d.seen = c.seen
        /\ d.raced = c.raced
    BY <1>1, <1>2 DEF Call, PCs
  <1>4. c.pc = "walk" /\ c.op = "get_module" /\ c.i = Len(list)
    BY <1>1 DEF LinuxEnd, LinuxWalks, Is
  <1>5. o = NoObject /\ platform = "linux"  BY <1>2, <1>4 DEF Fine, Shaped, Walking, LinuxPCs
  <1>6. Shaped(d, o)  BY <1>2, <1>3, <1>4, <1>5 DEF Fine, Shaped, Walking, LinuxPCs, MacSeeks
  <1>7. Watched(d)  BY <1>2, <1>3, <1>4 DEF Fine, Watched, Walking, LinuxPCs
  <1>8. LinuxPassed(d) /\ MacPassed(d) /\ Doomed(d)
    BY <1>3 DEF LinuxPassed, LinuxPCs, MacPassed, MacSeeks, Doomed
  <1>9. Ended(d, o)
    <2>1. ASSUME ~c.raced, c.held \in c.steady PROVE fixed /\ c.held = Main
      <3>1. Loaded(c.held)  BY <1>2, <2>1 DEF Fine, Watched
      <3>2. PICK k \in 1 .. c.i : list[k] = c.held  BY <1>2, <1>4, <3>1, IndexFacts
      <3> QED  BY <1>2, <1>4, <2>1, <3>2 DEF Fine, LinuxPassed, LinuxPCs
    <2> QED  BY <1>3, <2>1 DEF Ended
  <1>10. Certain(d, o)
    <2>1. c.must => fixed /\ platform = "linux" /\ c.held = Main
      BY <1>2, <1>4, IndexFacts DEF Fine, Certain, LinuxPCs, Walking
    <2> QED  BY <1>3, <2>1 DEF Certain
  <1>11. Fine(d, o)  BY <1>2, <1>6, <1>7, <1>8, <1>9, <1>10 DEF Fine
  <1>12. \A l \in Images : Own(d, o, l) = Own(call[t], object[t], l)
    BY <1>1, <1>3, <1>4 DEF Own, HeldAs
  <1>13. /\ UNCHANGED <<platform, fixed, list, place, refs, user>> /\ LocksOK'
         /\ call' = [call EXCEPT ![t] = d] /\ object' = [object EXCEPT ![t] = o]
    BY <1>1, <1>2, ThreadFacts DEF LinuxEnd, LinuxLeave, GoesOn, LocksOK
  <1> QED  BY <1>1, <1>2, <1>3, <1>11, <1>12, <1>13, Moves, ZenonT(60)

LEMMA LinuxOpenOK ==
  ASSUME IInv, NEW t \in Threads, LinuxOpen(t)
  PROVE  IInv'
  <1>1. PICK c, o, l : c = call[t] /\ o = object[t] /\ l = list[c.i + 1]  OBVIOUS
  <1>2. c \in Call /\ o \in Object /\ Fine(c, o) /\ LocksOK /\ TypeOK /\ ListOK
    BY <1>1, ThreadFacts
  <1>3. c.pc = "walk" /\ c.op = "get_module" /\ c.i < Len(list) /\ c.i \in Nat
    BY <1>1, <1>2 DEF LinuxOpen, LinuxWalks, Is, Call
  <1>4. o = NoObject /\ platform = "linux"  BY <1>2, <1>3 DEF Fine, Shaped, Walking, LinuxPCs
  <1>5. c.i + 1 \in 1 .. Len(list) /\ l \in Images /\ Loaded(l) /\ place[l] \in Bases
    BY <1>1, <1>2, <1>3, IndexFacts
  <1>6. /\ UNCHANGED <<platform, fixed, list, place, user>> /\ LocksOK'
        /\ object' = [object EXCEPT ![t] = o]
    BY <1>1, <1>2, ThreadFacts DEF LinuxOpen, locks, LocksOK
  <1>7. ~c.raced => c.i <= Len(list) /\ \A k \in 1 .. c.i : list[k] = c.held => fixed /\ c.held = Main
    BY <1>2, <1>3 DEF Fine, LinuxPassed, LinuxPCs
  <1>8. c.must => platform = "linux" /\ c.held = Main /\ (~fixed => c.i = 0)
    BY <1>2, <1>3 DEF Fine, Certain, Walking, LinuxPCs
  <1>9. CASE Moved(l) = 0
    <2>1. fixed /\ l = Main
      <3>1. 0 \notin Bases  BY ModulesAssumption DEF Bases
      <3> QED  BY <1>5, <1>9, <3>1 DEF Moved
    <2>2. PICK d : d = [c EXCEPT !.i = @ + 1]  OBVIOUS
    <2>3. /\ d \in Call /\ d.pc = c.pc /\ d.op = c.op /\ d.name = c.name /\ d.asked = c.asked
          /\ d.held = c.held /\ d.must = c.must /\ d.i = c.i + 1 /\ d.count = c.count
          /\ d.header = c.header /\ d.h = c.h /\ d.steady = c.steady /\ d.seen = c.seen
          /\ d.raced = c.raced
      BY <1>2, <2>2 DEF Call
    <2>4. Shaped(d, o)  BY <1>2, <1>3, <2>3 DEF Fine, Shaped, Walking, LinuxPCs, MacSeeks
    <2>5. Watched(d)  BY <1>2, <2>3 DEF Fine, Watched, Walking
    <2>6. LinuxPassed(d)
      <3>1. d.i <= Len(list)  BY <1>2, <1>3, <2>3, IndexFacts
      <3>2. ASSUME ~c.raced, NEW k \in 1 .. d.i, list[k] = c.held PROVE fixed /\ c.held = Main
        <4>1. k \in 1 .. c.i \/ k = c.i + 1  BY <1>3, <2>3
        <4> QED  BY <1>1, <1>7, <2>1, <3>2, <4>1
      <3> QED  BY <1>3, <2>3, <3>1, <3>2 DEF LinuxPassed
    <2>7. MacPassed(d) /\ Ended(d, o) /\ Doomed(d)
      BY <1>3, <2>3 DEF MacPassed, MacSeeks, Ended, Doomed
    <2>8. Certain(d, o)  BY <1>3, <1>8, <2>1, <2>3 DEF Certain
    <2>9. Fine(d, o)  BY <1>2, <2>4, <2>5, <2>6, <2>7, <2>8 DEF Fine
    <2>10. \A m \in Images : Own(d, o, m) = Own(call[t], object[t], m)
      BY <1>1, <1>3, <2>3 DEF Own, HeldAs
    <2>11. call' = [call EXCEPT ![t] = d] /\ refs' = refs  BY <1>1, <1>9, <2>2 DEF LinuxOpen, GoesOn
    <2> QED  BY <1>2, <1>6, <2>3, <2>9, <2>10, <2>11, Moves, ZenonT(60)
  <1>10. CASE Moved(l) # 0
    <2>2. PICK d : d = [c EXCEPT !.pc = "compare", !.h = l]  OBVIOUS
    <2>3. /\ d \in Call /\ d.pc = "compare" /\ d.op = c.op /\ d.name = c.name
          /\ d.asked = c.asked /\ d.held = c.held /\ d.must = c.must /\ d.i = c.i
          /\ d.count = c.count /\ d.header = c.header /\ d.h = l /\ d.steady = c.steady
          /\ d.seen = c.seen /\ d.raced = c.raced
      BY <1>2, <1>5, <2>2 DEF Call, PCs
    <2>4. Shaped(d, o)  BY <1>2, <1>3, <1>5, <2>3 DEF Fine, Shaped, Walking, LinuxPCs, MacSeeks
    <2>5. Watched(d)  BY <1>2, <1>3, <2>3 DEF Fine, Watched, Walking, LinuxPCs
    <2>6. LinuxPassed(d)  BY <1>1, <1>3, <1>7, <2>3 DEF LinuxPassed
    <2>7. MacPassed(d) /\ Ended(d, o) /\ Doomed(d)
      BY <2>3 DEF MacPassed, MacSeeks, Ended, Doomed
    <2>8. Certain(d, o)
      <3>1. c.i = 0 => l = Main  BY <1>1, <1>2, IndexFacts
      <3> QED  BY <1>3, <1>8, <2>3, <3>1 DEF Certain
    <2>9. Fine(d, o)  BY <1>2, <2>4, <2>5, <2>6, <2>7, <2>8 DEF Fine
    <2>10. ASSUME NEW m \in Images PROVE Own(d, o, m) = Own(call[t], object[t], m) + One(l, m)
      <3>1. /\ HeldAs(d, o, "object") = HeldAs(c, o, "object") /\ HeldAs(d, o, "name") = HeldAs(c, o, "name")
            /\ HeldAs(d, o, "image") = l /\ HeldAs(c, o, "image") = NoImage
        BY <1>3, <2>3 DEF HeldAs
      <3>2. \A x : One(x, m) \in Nat  BY DEF One
      <3> QED  BY <1>1, <3>1, <3>2, NoObjectFacts DEF Own
    <2>11. call' = [call EXCEPT ![t] = d] /\ Open(l)  BY <1>1, <1>10, <2>2 DEF LinuxOpen, GoesOn
    <2> QED  BY <1>2, <1>5, <1>6, <2>3, <2>9, <2>10, <2>11, Takes
  <1> QED  BY <1>9, <1>10

LEMMA LinuxFoundOK ==
  ASSUME IInv, NEW t \in Threads, LinuxFound(t)
  PROVE  IInv'
  <1>1. PICK c, o, l, d, o1 : /\ c = call[t] /\ o = object[t] /\ l = c.h
                             /\ d = [c EXCEPT !.pc = "release", !.h = NoImage]
                             /\ o1 = Made(Moved(l), l)
    OBVIOUS
  <1>2. c \in Call /\ o \in Object /\ Fine(c, o) /\ LocksOK /\ TypeOK /\ ListOK
    BY <1>1, ThreadFacts
  <1>3. /\ d \in Call /\ d.pc = "release" /\ d.op = c.op /\ d.name = c.name
        /\ d.asked = c.asked /\ d.held = c.held /\ d.must = c.must /\ d.i = c.i
        /\ d.count = c.count /\ d.header = c.header /\ d.h = NoImage /\ d.steady = c.steady
        /\ d.seen = c.seen /\ d.raced = c.raced
    BY <1>1, <1>2, ZenonT(60) DEF Call, PCs
  <1>4. c.pc = "compare" /\ l = c.held  BY <1>1 DEF LinuxFound, Is
  <1>5. o = NoObject /\ platform = "linux" /\ c.op = "get_module" /\ l \in Images
    BY <1>2, <1>4 DEF Fine, Shaped, Walking, LinuxPCs
  <1>6. o1 \in Object /\ Placed(o1) /\ o1 # NoObject /\ o1.handle = l /\ HeldAs(d, o1, "object") = l
    BY <1>1, <1>2, <1>5, MadeFacts DEF AddressOf
  <1>7. Shaped(d, o1)  BY <1>2, <1>3, <1>4, <1>5, <1>6 DEF Fine, Shaped, Walking, LinuxPCs, MacSeeks
  <1>8. Watched(d)  BY <1>2, <1>3, <1>4 DEF Fine, Watched, Walking, LinuxPCs
  <1>9. LinuxPassed(d) /\ MacPassed(d) /\ Doomed(d)
    BY <1>3 DEF LinuxPassed, LinuxPCs, MacPassed, MacSeeks, Doomed
  <1>10. Ended(d, o1)  BY <1>6 DEF Ended
  <1>11. Certain(d, o1)  BY <1>2, <1>3, <1>4, <1>6 DEF Fine, Certain, Walking, LinuxPCs
  <1>12. Fine(d, o1)  BY <1>6, <1>7, <1>8, <1>9, <1>10, <1>11 DEF Fine
  <1>13. ASSUME NEW m \in Images PROVE Own(d, o1, m) = Own(call[t], object[t], m)
    <2>1. /\ HeldAs(d, o1, "object") = l /\ HeldAs(d, o1, "name") = l /\ HeldAs(d, o1, "image") = NoImage
          /\ HeldAs(c, o, "object") = NoImage /\ HeldAs(c, o, "name") = l /\ HeldAs(c, o, "image") = l
      BY <1>1, <1>3, <1>4, <1>5, <1>6, NoObjectFacts DEF HeldAs
    <2>2. One(l, m) \in Nat /\ One(NoImage, m) = 0  BY NoObjectFacts DEF One
    <2> QED  BY <1>1, <2>1, <2>2 DEF Own
  <1>14. /\ UNCHANGED <<platform, fixed, list, place, refs, user>> /\ LocksOK'
         /\ call' = [call EXCEPT ![t] = d] /\ object' = [object EXCEPT ![t] = o1]
    BY <1>1, <1>2 DEF LinuxFound, Holds, GoesOn, New, Made, LocksOK
  <1> QED  BY <1>3, <1>6, <1>12, <1>13, <1>14, Moves, ZenonT(60)

\* The call after the callback has closed an image it does not want.
Dropping(c, l) == [c EXCEPT !.pc = IF refs[l] = 1 THEN "fault" ELSE "walk",
                            !.i = @ + 1, !.h = NoImage, !.raced = @ \/ refs[l] = 1]

LEMMA Dropped ==
  ASSUME NEW c \in Call, NEW l, NEW d, d = Dropping(c, l)
  PROVE  /\ d \in Call /\ d.pc = (IF refs[l] = 1 THEN "fault" ELSE "walk") /\ d.op = c.op
         /\ d.name = c.name /\ d.asked = c.asked /\ d.held = c.held /\ d.must = c.must
         /\ d.i = c.i + 1 /\ d.count = c.count /\ d.header = c.header /\ d.h = NoImage
         /\ d.steady = c.steady /\ d.seen = c.seen /\ (d.raced <=> c.raced \/ refs[l] = 1)
  <1>1. CASE refs[l] = 1
    <2>1. d = [c EXCEPT !.pc = "fault", !.i = @ + 1, !.h = NoImage, !.raced = TRUE]  BY <1>1 DEF Dropping
    <2>2. /\ d \in Call /\ d.pc = "fault" /\ d.op = c.op /\ d.name = c.name /\ d.asked = c.asked
          /\ d.held = c.held /\ d.must = c.must /\ d.i = c.i + 1 /\ d.count = c.count
          /\ d.header = c.header /\ d.h = NoImage /\ d.steady = c.steady /\ d.seen = c.seen
          /\ d.raced = TRUE
      <3>1. c.i + 1 \in Nat  BY DEF Call
      <3>2. d \in Call  BY <2>1, <3>1 DEF Call, PCs
      <3>3. /\ d.pc = "fault" /\ d.op = c.op /\ d.name = c.name /\ d.asked = c.asked
            /\ d.held = c.held /\ d.must = c.must
        BY <2>1 DEF Call
      <3>4. /\ d.i = c.i + 1 /\ d.count = c.count /\ d.header = c.header /\ d.h = NoImage
            /\ d.steady = c.steady /\ d.seen = c.seen /\ d.raced = TRUE
        BY <2>1 DEF Call
      <3> QED  BY <3>2, <3>3, <3>4
    <2> QED  BY <1>1, <2>2
  <1>2. CASE refs[l] # 1
    <2>1. (c.raced \/ refs[l] = 1) = c.raced  BY <1>2 DEF Call
    <2>2. d = [c EXCEPT !.pc = "walk", !.i = @ + 1, !.h = NoImage, !.raced = c.raced]
      BY <1>2, <2>1 DEF Dropping
    <2>3. d = [c EXCEPT !.pc = "walk", !.i = @ + 1, !.h = NoImage]
      BY <2>2 DEF Call
    <2>4. /\ d \in Call /\ d.pc = "walk" /\ d.op = c.op /\ d.name = c.name /\ d.asked = c.asked
          /\ d.held = c.held /\ d.must = c.must /\ d.i = c.i + 1 /\ d.count = c.count
          /\ d.header = c.header /\ d.h = NoImage /\ d.steady = c.steady /\ d.seen = c.seen
          /\ d.raced = c.raced
      <3>1. c.i + 1 \in Nat  BY DEF Call
      <3>2. d \in Call  BY <2>3, <3>1 DEF Call, PCs
      <3>3. /\ d.pc = "walk" /\ d.op = c.op /\ d.name = c.name /\ d.asked = c.asked
            /\ d.held = c.held /\ d.must = c.must
        BY <2>3 DEF Call
      <3>4. /\ d.i = c.i + 1 /\ d.count = c.count /\ d.header = c.header /\ d.h = NoImage
            /\ d.steady = c.steady /\ d.seen = c.seen /\ d.raced = c.raced
        BY <2>3 DEF Call
      <3> QED  BY <3>2, <3>3, <3>4
    <2> QED  BY <1>2, <2>4
  <1> QED  BY <1>1, <1>2

LEMMA LinuxCloseOK ==
  ASSUME IInv, NEW t \in Threads, LinuxClose(t)
  PROVE  IInv'
  <1>1. PICK c, o, l, d : c = call[t] /\ o = object[t] /\ l = c.h /\ d = Dropping(c, l)
    OBVIOUS
  <1>2. c \in Call /\ o \in Object /\ Fine(c, o) /\ LocksOK /\ TypeOK /\ ListOK
    BY <1>1, ThreadFacts
  <1>3. /\ d \in Call /\ d.pc = (IF refs[l] = 1 THEN "fault" ELSE "walk") /\ d.op = c.op
        /\ d.name = c.name /\ d.asked = c.asked /\ d.held = c.held /\ d.must = c.must
        /\ d.i = c.i + 1 /\ d.count = c.count /\ d.header = c.header /\ d.h = NoImage
        /\ d.steady = c.steady /\ d.seen = c.seen /\ (d.raced <=> c.raced \/ refs[l] = 1)
    BY <1>1, <1>2, Dropped
  <1>4. c.pc = "compare" /\ l # c.held  BY <1>1 DEF LinuxClose, Is
  <1>5. o = NoObject /\ platform = "linux" /\ c.op = "get_module" /\ l \in Images
    BY <1>1, <1>2, <1>4 DEF Fine, Shaped, Walking, LinuxPCs
  <1>6. Shaped(d, o)  BY <1>2, <1>3, <1>4, <1>5 DEF Fine, Shaped, Walking, LinuxPCs, MacSeeks
  <1>7. Watched(d)  BY <1>2, <1>3, <1>4, <1>5 DEF Fine, Watched, Walking, LinuxPCs
  <1>8. LinuxPassed(d)
    <2> SUFFICES ASSUME ~d.raced, d.pc = "walk"
                 PROVE  d.i <= Len(list) /\ \A k \in 1 .. d.i : list[k] = d.held => fixed /\ d.held = Main
      BY <1>3 DEF LinuxPassed, LinuxPCs
    <2>1. /\ c.i < Len(list) /\ c.h = list[c.i + 1]
          /\ \A k \in 1 .. c.i : list[k] = c.held => fixed /\ c.held = Main
      BY <1>2, <1>3, <1>4, <1>5 DEF Fine, LinuxPassed, LinuxPCs
    <2>2. c.i \in Nat /\ Len(list) \in Nat  BY <1>2, IndexFacts DEF Call
    <2>3. \A k \in 1 .. c.i + 1 : k \in 1 .. c.i \/ k = c.i + 1  BY <2>2
    <2>4. \A k \in 1 .. c.i + 1 : list[k] = c.held => fixed /\ c.held = Main
      BY <1>1, <1>4, <2>1, <2>3
    <2>5. c.i + 1 <= Len(list)  BY <2>1, <2>2
    <2> QED  BY <1>3, <2>4, <2>5
  <1>9. MacPassed(d) /\ Ended(d, o)  BY <1>3 DEF MacPassed, MacSeeks, Ended
  <1>10. Doomed(d)  BY <1>3, <1>5 DEF Doomed
  <1>11. Certain(d, o)
    <2>1. c.must => platform = "linux" /\ c.held = Main /\ fixed
      BY <1>1, <1>2, <1>4 DEF Fine, Certain, Walking, LinuxPCs
    <2> QED  BY <1>3, <2>1 DEF Certain
  <1>12. Fine(d, o)  BY <1>2, <1>6, <1>7, <1>8, <1>9, <1>10, <1>11 DEF Fine
  <1>13. ASSUME NEW m \in Images PROVE Own(d, o, m) + One(l, m) = Own(call[t], object[t], m)
    <2>1. /\ HeldAs(d, o, "object") = HeldAs(c, o, "object") /\ HeldAs(d, o, "name") = HeldAs(c, o, "name")
          /\ HeldAs(d, o, "image") = NoImage /\ HeldAs(c, o, "image") = l
      BY <1>1, <1>3, <1>4 DEF HeldAs
    <2>2. \A x : One(x, m) \in Nat  BY DEF One
    <2> QED  BY <1>1, <2>1, <2>2, NoObjectFacts DEF Own
  <1>14. /\ Close(l, [call EXCEPT ![t] = d]) /\ object' = [object EXCEPT ![t] = o]
         /\ UNCHANGED <<platform, fixed, user>> /\ LocksOK'
    BY <1>1, <1>2, ThreadFacts DEF LinuxClose, Dropping, locks, LocksOK
  <1> QED  BY <1>2, <1>3, <1>5, <1>12, <1>13, <1>14, Closes

LEMMA LinuxClosesOK ==
  ASSUME IInv, NEW t \in Threads, LinuxCloses(t)
  PROVE  IInv'
  <1>1. PICK c, o : c = call[t] /\ o = object[t]  OBVIOUS
  <1>2. /\ c \in Call /\ o \in Object /\ Fine(c, o) /\ LocksOK
        /\ call = [call EXCEPT ![t] = c] /\ object = [object EXCEPT ![t] = o]
    BY <1>1, ThreadFacts
  <1>3. c.held \in Images \cup {NoImage}  BY <1>2 DEF Call
  <1>4. LocksOK' /\ UNCHANGED <<platform, fixed, list, place, refs, user, call, object>>
    BY <1>1, <1>2, <1>3 DEF LinuxCloses, LocksOK
  <1>5. call' = [call EXCEPT ![t] = c] /\ object' = [object EXCEPT ![t] = o]  BY <1>2, <1>4
  <1>6. \A l \in Images : Own(c, o, l) = Own(call[t], object[t], l)  BY <1>1
  <1> QED  BY <1>2, <1>4, <1>5, <1>6, Moves

LEMMA ReleaseOK ==
  ASSUME IInv, NEW t \in Threads, Release(t)
  PROVE  IInv'
  <1>1. PICK c, o, l, d : /\ c = call[t] /\ o = object[t] /\ l = c.held
                         /\ d = [NoCall EXCEPT !.pc = IF c.must /\ o = NoObject THEN "aborted" ELSE "idle"]
    OBVIOUS
  <1>2. c \in Call /\ o \in Object /\ Fine(c, o) /\ LocksOK /\ TypeOK /\ ListOK
    BY <1>1, ThreadFacts
  <1>3. c.pc = "release"  BY <1>1 DEF Release, Is
  <1>4. l \in Images  BY <1>1, <1>2, <1>3 DEF Fine, Shaped, Walking
  <1>5. d \in Call  BY <1>1 DEF NoCall, Call, PCs, AnyBase
  <1>6. d.held = NoImage /\ d.steady = {} /\ ~d.raced /\ ~d.must
    BY <1>1 DEF NoCall
  <1>7. d.pc = IF c.must /\ o = NoObject THEN "aborted" ELSE "idle"  BY <1>1 DEF NoCall
  <1>8. d.pc = "idle" => d = NoCall  BY <1>1, <1>7 DEF NoCall
  <1>9. Shaped(d, o)  BY <1>6, <1>7, <1>8 DEF Shaped, Walking, LinuxPCs, MacSeeks
  <1>10. Watched(d)  BY <1>6, <1>7 DEF Watched, Walking, LinuxPCs, MacSeeks
  <1>11. LinuxPassed(d) /\ MacPassed(d) /\ Ended(d, o)
    BY <1>7 DEF LinuxPassed, LinuxPCs, MacPassed, MacSeeks, Ended
  <1>12. Certain(d, o)  BY <1>6 DEF Certain
  <1>13. Doomed(d)
    <2>1. c.must /\ o = NoObject => platform = "linux" /\ fixed  BY <1>2, <1>3 DEF Fine, Certain
    <2> QED  BY <1>7, <2>1 DEF Doomed
  <1>14. Fine(d, o)  BY <1>2, <1>9, <1>10, <1>11, <1>12, <1>13 DEF Fine
  <1>15. ASSUME NEW m \in Images PROVE Own(d, o, m) + One(l, m) = Own(call[t], object[t], m)
    <2>1. /\ HeldAs(d, o, "object") = HeldAs(c, o, "object") /\ HeldAs(d, o, "name") = NoImage
          /\ HeldAs(d, o, "image") = NoImage
          /\ HeldAs(c, o, "name") = l /\ HeldAs(c, o, "image") = NoImage
      BY <1>1, <1>3, <1>6, <1>7 DEF HeldAs
    <2>2. \A x : One(x, m) \in Nat  BY DEF One
    <2> QED  BY <1>1, <2>1, <2>2, NoObjectFacts DEF Own
  <1>16. /\ Close(l, [call EXCEPT ![t] = d]) /\ object' = [object EXCEPT ![t] = o]
         /\ UNCHANGED <<platform, fixed, user>> /\ LocksOK'
    BY <1>1, <1>2, ThreadFacts DEF Release, Nothing, LocksOK
  <1> QED  BY <1>2, <1>4, <1>5, <1>14, <1>15, <1>16, Closes

LEMMA LinuxFindOK ==
  ASSUME IInv, NEW t \in Threads, LinuxFind(t)
  PROVE  IInv'
  <1>1. PICK c, o : c = call[t] /\ o = object[t]  OBVIOUS
  <1>2. c \in Call /\ o \in Object /\ Fine(c, o) /\ LocksOK /\ TypeOK /\ ListOK
    BY <1>1, ThreadFacts
  <1>3. c.pc = "walk" /\ c.op = "module_at"  BY <1>1 DEF LinuxFind, Is
  <1>4. o = NoObject /\ platform = "linux" /\ c.held = NoImage
    BY <1>2, <1>3 DEF Fine, Shaped, Walking, LinuxPCs
  <1>5. ASSUME NEW m \in Images PROVE Own(call[t], object[t], m) = 0
    <2>1. HeldAs(c, o, "object") = NoImage /\ HeldAs(c, o, "name") = NoImage /\ HeldAs(c, o, "image") = NoImage
      BY <1>3, <1>4, NoObjectFacts DEF HeldAs
    <2> QED  BY <1>1, <2>1, NoObjectFacts DEF Own
  <1>6. UNCHANGED <<platform, fixed, list, place, user>> /\ LocksOK'
    BY <1>2 DEF LinuxFind, LocksOK
  <1>7. CASE Return(t, NoObject) /\ UNCHANGED refs
    <2>1. call' = [call EXCEPT ![t] = NoCall] /\ object' = [object EXCEPT ![t] = NoObject]
      BY <1>7 DEF Return, Holds, GoesOn
    <2>2. NoCall \in Call /\ Fine(NoCall, NoObject)  BY FineIdle, NoObjectFacts
    <2>3. \A m \in Images : Own(NoCall, NoObject, m) = Own(call[t], object[t], m)
      BY <1>5, NoObjectFacts
    <2> QED  BY <1>6, <1>7, <2>1, <2>2, <2>3, NoObjectFacts, Moves
  <1>8. CASE \E l \in Images : /\ Loaded(l) /\ Open(l)
                               /\ Return(t, New(Moved(l), l, Moved(l), FALSE))
    <2>1. PICK l \in Images : /\ Loaded(l) /\ Open(l)
                              /\ Return(t, New(Moved(l), l, Moved(l), FALSE))
      BY <1>8
    <2>2. PICK o1 : o1 = Made(Moved(l), l)  OBVIOUS
    <2>3. o1 \in Object /\ Placed(o1) /\ HeldAs(NoCall, o1, "object") = l
      BY <1>2, <1>4, <2>2, MadeFacts DEF AddressOf
    <2>4. NoCall \in Call /\ Fine(NoCall, o1) /\ \A m \in Images : Own(NoCall, o1, m) = One(l, m)
      BY <2>3, FineIdle
    <2>5. call' = [call EXCEPT ![t] = NoCall] /\ object' = [object EXCEPT ![t] = o1]
      BY <2>1, <2>2 DEF Return, Holds, GoesOn, New, Made
    <2>6. \A m \in Images : Own(NoCall, o1, m) = Own(call[t], object[t], m) + One(l, m)
      <3>1. \A m \in Images : One(l, m) \in Nat  BY DEF One
      <3> QED  BY <1>5, <2>4, <3>1
    <2> QED  BY <1>6, <2>1, <2>3, <2>4, <2>5, <2>6, Takes
  <1> QED  BY <1>7, <1>8 DEF LinuxFind

-----------------------------------------------------------------------------
(* macOS *)

LEMMA MacGetProcessModuleOK ==
  ASSUME IInv, NEW t \in Threads, MacGetProcessModule(t)
  PROVE  IInv'
  <1>1. PICK o1 : o1 = Made(place[Main], Main)  OBVIOUS
  <1>2. platform = "mac" /\ Idle(t)  BY DEF MacGetProcessModule
  <1>3. AddressOf(Main) = place[Main] /\ Main \in Images  BY <1>2 DEF AddressOf, Images
  <1>4. TypeOK /\ ListOK /\ LocksOK /\ call = [call EXCEPT ![t] = NoCall]
    BY <1>2, IdleFacts, ThreadFacts
  <1>5. Loaded(Main)
    <2>1. 1 \in 1 .. Len(list) /\ list[1] = Main  BY <1>4, IndexFacts
    <2> QED  BY <1>4, <2>1, IndexFacts
  <1>6. o1 \in Object /\ Placed(o1) /\ HeldAs(NoCall, o1, "object") = Main
    BY <1>1, <1>3, <1>4, MadeFacts
  <1>7. NoCall \in Call /\ Fine(NoCall, o1) /\ \A m \in Images : Own(NoCall, o1, m) = One(Main, m)
    BY <1>6, FineIdle
  <1>8. /\ Open(Main) /\ object' = [object EXCEPT ![t] = o1]
        /\ UNCHANGED <<platform, fixed, list, place, user, call>> /\ LocksOK'
    BY <1>1, <1>4 DEF MacGetProcessModule, Holds, New, Made, locks, LocksOK
  <1>9. \A m \in Images : Own(NoCall, o1, m) = Own(call[t], object[t], m) + One(Main, m)
    <2>1. \A m \in Images : One(Main, m) \in Nat  BY DEF One
    <2> QED  BY <1>2, <1>7, <2>1, IdleFacts
  <1>10. call' = [call EXCEPT ![t] = NoCall]  BY <1>4, <1>8
  <1> QED  BY <1>3, <1>5, <1>6, <1>7, <1>8, <1>9, <1>10, Takes

\* What a step that only reads the list must show.
LEMMA MacReads ==
  ASSUME IInv, NEW t \in Threads, NEW d \in Call,
         UNCHANGED <<platform, fixed, list, place, refs, user, walker, loading, object>>,
         call' = [call EXCEPT ![t] = d], NEW o, o = object[t], Fine(d, o),
         \A m \in Images : Own(d, o, m) = Own(call[t], object[t], m)
  PROVE  IInv'
  <1>1. o \in Object /\ object' = [object EXCEPT ![t] = o] /\ LocksOK  BY ThreadFacts
  <1>2. LocksOK'  BY <1>1 DEF LocksOK
  <1> QED  BY <1>1, <1>2, Moves

LEMMA MacCountOK ==
  ASSUME IInv, NEW t \in Threads, MacCount(t)
  PROVE  IInv'
  <1>1. PICK c, o, d : c = call[t] /\ o = object[t] /\ d = [c EXCEPT !.pc = "header", !.count = Len(list)]
    OBVIOUS
  <1>2. c \in Call /\ o \in Object /\ Fine(c, o) /\ LocksOK /\ TypeOK /\ ListOK
    BY <1>1, ThreadFacts
  <1>3. /\ d \in Call /\ d.pc = "header" /\ d.op = c.op /\ d.name = c.name
        /\ d.asked = c.asked /\ d.held = c.held /\ d.must = c.must /\ d.i = c.i
        /\ d.count = Len(list) /\ d.header = c.header /\ d.h = c.h /\ d.steady = c.steady
        /\ d.seen = c.seen /\ d.raced = c.raced
    BY <1>1, <1>2, ListFacts, ZenonT(60) DEF Call, PCs
  <1>4. c.pc = "count"  BY <1>1 DEF MacCount, MacStep, Is
  <1>5. Shaped(d, o)  BY <1>2, <1>3, <1>4 DEF Fine, Shaped, Walking, LinuxPCs, MacSeeks
  <1>6. Watched(d)  BY <1>2, <1>3, <1>4 DEF Fine, Watched, Walking, MacSeeks
  <1>7. LinuxPassed(d) /\ Ended(d, o) /\ Doomed(d)  BY <1>3 DEF LinuxPassed, LinuxPCs, Ended, Doomed
  <1>8. MacPassed(d)
    <2>1. c.i = 0  BY <1>2, <1>4 DEF Fine, MacPassed
    <2>2. \A l \in c.steady : \E k \in 1 .. Len(list) : list[k] = l
      BY <1>2, IndexFacts DEF Fine, Watched
    <2> QED  BY <1>2, <1>3, <2>1, <2>2, IndexFacts DEF MacPassed
  <1>9. Certain(d, o)  BY <1>2, <1>3, <1>4 DEF Fine, Certain, Shaped
  <1>10. Fine(d, o)  BY <1>2, <1>5, <1>6, <1>7, <1>8, <1>9 DEF Fine
  <1>11. \A m \in Images : Own(d, o, m) = Own(call[t], object[t], m)
    BY <1>1, <1>3, <1>4 DEF Own, HeldAs
  <1>12. /\ call' = [call EXCEPT ![t] = d]
         /\ UNCHANGED <<platform, fixed, list, place, refs, user, walker, loading, object>>
    BY <1>1 DEF MacCount, MacStep, GoesOn, loader, locks
  <1>13. d \in Call /\ o = object[t]  BY <1>1, <1>3
  <1> QED  BY <1>10, <1>11, <1>12, <1>13, MacReads

LEMMA MacEndOK ==
  ASSUME IInv, NEW t \in Threads, MacEnd(t)
  PROVE  IInv'
  <1>1. PICK c, o, d : c = call[t] /\ o = object[t] /\ d = [c EXCEPT !.pc = "release"]
    OBVIOUS
  <1>2. c \in Call /\ o \in Object /\ Fine(c, o) /\ LocksOK /\ TypeOK /\ ListOK
    BY <1>1, ThreadFacts
  <1>3. /\ d \in Call /\ d.pc = "release" /\ d.op = c.op /\ d.name = c.name
        /\ d.asked = c.asked /\ d.held = c.held /\ d.must = c.must /\ d.i = c.i
        /\ d.count = c.count /\ d.header = c.header /\ d.h = c.h /\ d.steady = c.steady
        /\ d.seen = c.seen /\ d.raced = c.raced
    BY <1>1, <1>2 DEF Call, PCs
  <1>4. c.pc = "header" /\ c.i = c.count  BY <1>1 DEF MacEnd, MacStep, Is
  <1>5. o = NoObject /\ platform = "mac" /\ c.op \in {"get_module", "module_at"}
        /\ (c.op = "get_module" => c.held \in Images) /\ (c.op = "module_at" => c.held = NoImage)
    BY <1>2, <1>4 DEF Fine, Shaped, Walking, MacSeeks
  <1>6. UNCHANGED <<platform, fixed, list, place, refs, user, walker, loading, object>>
    BY DEF MacEnd, MacStep, loader, locks
  <1>7. CASE c.held = NoImage
    <2>1. call' = [call EXCEPT ![t] = NoCall]  BY <1>1, <1>7 DEF MacEnd, GoesOn
    <2>2. NoCall \in Call /\ Fine(NoCall, o)  BY <1>2, FineIdle DEF Fine
    <2>3. \A m \in Images : Own(NoCall, o, m) = Own(call[t], object[t], m)
      BY <1>1, <1>4, <1>7 DEF Own, HeldAs, NoCall
    <2> QED  BY <1>1, <1>6, <2>1, <2>2, <2>3, MacReads
  <1>8. CASE c.held # NoImage
    <2>1. c.op = "get_module"  BY <1>5, <1>8
    <2>2. Shaped(d, o)  BY <1>2, <1>3, <1>4, <1>5, <2>1 DEF Fine, Shaped, Walking, LinuxPCs, MacSeeks
    <2>3. Watched(d)  BY <1>2, <1>3, <1>4 DEF Fine, Watched, Walking, MacSeeks
    <2>4. LinuxPassed(d) /\ MacPassed(d) /\ Doomed(d)
      BY <1>3 DEF LinuxPassed, LinuxPCs, MacPassed, MacSeeks, Doomed
    <2>5. Ended(d, o)
      <3>1. ASSUME ~c.raced, c.held \in c.steady PROVE FALSE
        <4>1. /\ \A l \in c.steady : \E k \in 1 .. c.count : list[k] = l
              /\ \A k \in 1 .. c.i : ~Sought(c, list[k])
          BY <1>2, <1>4, <3>1 DEF Fine, MacPassed, MacSeeks
        <4> QED  BY <1>4, <2>1, <3>1, <4>1 DEF Sought
      <3> QED  BY <1>3, <3>1 DEF Ended
    <2>6. Certain(d, o)
      <3>1. ~c.must  BY <1>2, <1>5 DEF Fine, Certain
      <3> QED  BY <1>3, <3>1 DEF Certain
    <2>7. Fine(d, o)  BY <1>2, <2>2, <2>3, <2>4, <2>5, <2>6 DEF Fine
    <2>8. \A m \in Images : Own(d, o, m) = Own(call[t], object[t], m)
      BY <1>1, <1>3, <1>4 DEF Own, HeldAs
    <2>9. call' = [call EXCEPT ![t] = d]  BY <1>1, <1>8 DEF MacEnd, GoesOn
    <2>10. d \in Call /\ o = object[t]  BY <1>1, <1>3
    <2> QED  BY <1>6, <2>7, <2>8, <2>9, <2>10, MacReads
  <1> QED  BY <1>7, <1>8

\* The loop goes on past an image that is not looked for, or that an unload has moved.
LEMMA NextImageFine ==
  ASSUME IInv, NEW c \in Call, NEW o, Fine(c, o), c.pc \in MacSeeks, NEW d, d = NextImage(c),
         ~c.raced => c.i < c.count /\ ~Sought(c, list[c.i + 1])
  PROVE  /\ d \in Call /\ Fine(d, o)
         /\ c.pc # "slide" => \A m : Own(d, o, m) = Own(c, o, m)
  <1>1. /\ d \in Call /\ d.pc = "header" /\ d.op = c.op /\ d.name = c.name
        /\ d.asked = c.asked /\ d.held = c.held /\ d.must = c.must /\ d.i = c.i + 1
        /\ d.count = c.count /\ d.header = Nowhere /\ d.h = NoImage /\ d.steady = c.steady
        /\ d.seen = c.seen /\ d.raced = c.raced
    <2>1. c.i + 1 \in Nat  BY DEF Call
    <2>2. d \in Call  BY <2>1 DEF NextImage, Call, PCs, AnyBase
    <2>3. /\ d.pc = "header" /\ d.op = c.op /\ d.name = c.name /\ d.asked = c.asked
          /\ d.held = c.held /\ d.must = c.must /\ d.i = c.i + 1
      BY DEF NextImage, Call
    <2>4. /\ d.count = c.count /\ d.header = Nowhere /\ d.h = NoImage
          /\ d.steady = c.steady /\ d.seen = c.seen /\ d.raced = c.raced
      BY DEF NextImage, Call
    <2> QED  BY <2>2, <2>3, <2>4
  <1>2. Shaped(d, o)  BY <1>1 DEF Fine, Shaped, Walking, LinuxPCs, MacSeeks
  <1>3. Watched(d)  BY <1>1 DEF Fine, Watched, Walking, MacSeeks
  <1>4. LinuxPassed(d) /\ Ended(d, o) /\ Doomed(d)  BY <1>1 DEF LinuxPassed, LinuxPCs, Ended, Doomed
  <1>5. MacPassed(d)
    <2>1. ASSUME ~c.raced
          PROVE  /\ c.i + 1 <= c.count /\ c.count <= Len(list)
                 /\ \A l \in c.steady : \E k \in 1 .. c.count : list[k] = l
                 /\ \A k \in 1 .. c.i + 1 : ~Sought(d, list[k])
      <3>1. /\ c.count <= Len(list)
            /\ \A l \in c.steady : \E k \in 1 .. c.count : list[k] = l
            /\ \A k \in 1 .. c.i : ~Sought(c, list[k])
        BY <2>1 DEF Fine, MacPassed
      <3>2. c.i \in Nat /\ c.count \in Nat  BY DEF Call
      <3>3. \A k \in 1 .. c.i + 1 : k \in 1 .. c.i \/ k = c.i + 1  BY <3>2
      <3>4. \A k \in 1 .. c.i + 1 : ~Sought(c, list[k])  BY <2>1, <3>1, <3>3
      <3>5. \A k \in 1 .. c.i + 1 : ~Sought(d, list[k])  BY <1>1, <3>4 DEF Sought
      <3> QED  BY <2>1, <3>1, <3>2, <3>5
    <2> QED  BY <1>1, <2>1 DEF MacPassed
  <1>6. Certain(d, o)  BY <1>1 DEF Fine, Certain, Shaped
  <1>7. Fine(d, o)  BY <1>2, <1>3, <1>4, <1>5, <1>6 DEF Fine
  <1>8. c.pc \in {"header", "magic", "name", "open"} => \A m : Own(d, o, m) = Own(c, o, m)
    BY <1>1 DEF Own, HeldAs
  <1> QED  BY <1>1, <1>7, <1>8 DEF MacSeeks

\* As long as no image is unloaded, the index refers to the same image.
LEMMA MacIndex ==
  ASSUME TypeOK, ListOK, NEW c \in Call, NEW o, Fine(c, o), c.pc \in MacSeeks, ~c.raced, c.i < c.count
  PROVE  /\ c.i + 1 \in 1 .. Len(list) /\ list[c.i + 1] \in Images /\ Loaded(list[c.i + 1])
         /\ PlaceAt(c.i) = place[list[c.i + 1]] /\ PlaceAt(c.i) \in Bases
         /\ ImageAt(c.i) = list[c.i + 1]
  <1>1. c.i \in Nat /\ c.count \in Nat /\ c.count <= Len(list) /\ Len(list) \in Nat
    BY IndexFacts DEF Fine, MacPassed, Call
  <1>2. c.i + 1 \in 1 .. Len(list) /\ c.i < Len(list)  BY <1>1
  <1> QED  BY <1>2, IndexFacts DEF PlaceAt, ImageAt

LEMMA PlaceAtType ==
  ASSUME TypeOK, ListOK, NEW i \in Nat
  PROVE  PlaceAt(i) \in AnyBase /\ ImageAt(i) \in Images
  <1>1. CASE i < Len(list)
    <2>1. i + 1 \in 1 .. Len(list)  BY <1>1, IndexFacts
    <2> QED  BY <1>1, <2>1, IndexFacts DEF PlaceAt, ImageAt, AnyBase
  <1>2. CASE ~(i < Len(list))  BY <1>2, IndexFacts DEF PlaceAt, ImageAt, AnyBase
  <1> QED  BY <1>1, <1>2

LEMMA MacHeaderOK ==
  ASSUME IInv, NEW t \in Threads, MacHeader(t)
  PROVE  IInv'
  <1>1. PICK c, o : c = call[t] /\ o = object[t]  OBVIOUS
  <1>2. c \in Call /\ o \in Object /\ Fine(c, o) /\ LocksOK /\ TypeOK /\ ListOK
    BY <1>1, ThreadFacts
  <1>3. c.pc = "header" /\ c.i < c.count  BY <1>1 DEF MacHeader, MacStep, Is
  <1>4. UNCHANGED <<platform, fixed, list, place, refs, user, walker, loading, object>>
    BY DEF MacHeader, MacStep, loader, locks
  <1> DEFINE magic == [c EXCEPT !.pc = "magic", !.header = PlaceAt(c.i)]
             name == [c EXCEPT !.pc = "name", !.header = PlaceAt(c.i)]
  <1>5. PICK e : e = IF PlaceAt(c.i) = Nowhere THEN NextImage(c)
                     ELSE IF c.op = "get_module" THEN magic
                     ELSE IF PlaceAt(c.i) = c.asked THEN name
                     ELSE NextImage(c)
    OBVIOUS
  <1>6. call' = [call EXCEPT ![t] = e]  BY <1>1, <1>5 DEF MacHeader, GoesOn
  <1> HIDE DEF magic, name
  <1>7. c.pc \in MacSeeks /\ c.i \in Nat  BY <1>2, <1>3 DEF MacSeeks, Call
  <1>8. c.op \in {"get_module", "module_at"}  BY <1>2, <1>3, <1>7 DEF Fine, Shaped, Walking
  <1>9. ~c.raced => PlaceAt(c.i) = place[list[c.i + 1]] /\ PlaceAt(c.i) \in Bases
    BY <1>2, <1>3, <1>7, MacIndex
  <1>10. Nowhere \notin Bases  BY ModulesAssumption DEF Bases, Nowhere
  <1>11. CASE PlaceAt(c.i) = Nowhere \/ (c.op # "get_module" /\ PlaceAt(c.i) # c.asked)
    <2>1. PICK d : d = NextImage(c)  OBVIOUS
    <2>2. call' = [call EXCEPT ![t] = d]
      <3>1. e = d  BY <1>11, <1>5, <2>1
      <3> QED  BY <1>6, <3>1
    <2>3. ~c.raced => ~Sought(c, list[c.i + 1])
      BY <1>9, <1>10, <1>11 DEF Sought
    <2>4. d \in Call /\ Fine(d, o) /\ \A m : Own(d, o, m) = Own(c, o, m)
      BY <1>2, <1>3, <1>7, <2>1, <2>3, NextImageFine
    <2>5. \A m \in Images : Own(d, o, m) = Own(call[t], object[t], m)  BY <1>1, <2>4
    <2>6. d \in Call /\ o = object[t] /\ Fine(d, o)  BY <1>1, <2>4
    <2> QED  BY <1>4, <2>2, <2>5, <2>6, MacReads
  <1>12. CASE PlaceAt(c.i) # Nowhere /\ (c.op = "get_module" \/ PlaceAt(c.i) = c.asked)
    <2>1. PICK pc \in PCs : pc = IF c.op = "get_module" THEN "magic" ELSE "name"  BY DEF PCs
    <2>2. PICK h \in AnyBase : h = PlaceAt(c.i)  BY <1>2, <1>7, PlaceAtType
    <2>3. PICK d : d = [c EXCEPT !.pc = pc, !.header = h]  OBVIOUS
    <2>4. call' = [call EXCEPT ![t] = d]
      <3>1. CASE c.op = "get_module"
        <4>1. d = magic  BY <2>1, <2>2, <2>3, <3>1 DEF magic
        <4>2. e = magic  BY <1>12, <1>5, <3>1, Zenon
        <4> QED  BY <1>6, <4>1, <4>2
      <3>2. CASE c.op # "get_module"
        <4>1. d = name  BY <2>1, <2>2, <2>3, <3>2 DEF name
        <4>2. e = name  BY <1>12, <1>5, <3>2
        <4> QED  BY <1>6, <4>1, <4>2
      <3> QED  BY <3>1, <3>2
    <2>5. /\ d \in Call /\ d.pc = pc /\ d.op = c.op /\ d.name = c.name /\ d.asked = c.asked
          /\ d.held = c.held /\ d.must = c.must /\ d.i = c.i /\ d.count = c.count
          /\ d.header = h /\ d.h = c.h /\ d.steady = c.steady /\ d.seen = c.seen
          /\ d.raced = c.raced
      BY <1>2, <2>3 DEF Call
    <2>6. Shaped(d, o)
      BY <1>2, <1>7, <1>8, <2>1, <2>5 DEF Fine, Shaped, Walking, LinuxPCs, MacSeeks
    <2>7. Watched(d)  BY <1>2, <1>3, <2>1, <2>5 DEF Fine, Watched, Walking, MacSeeks
    <2>8. LinuxPassed(d) /\ Ended(d, o) /\ Doomed(d)
      BY <2>1, <2>5 DEF LinuxPassed, LinuxPCs, Ended, Doomed
    <2>9. MacPassed(d)
      <3>1. ~c.raced => /\ c.i <= c.count /\ c.count <= Len(list)
                        /\ \A l \in c.steady : \E k \in 1 .. c.count : list[k] = l
                        /\ \A k \in 1 .. c.i : ~Sought(c, list[k])
        BY <1>2, <1>3, <1>7 DEF Fine, MacPassed
      <3>2. c.op = "module_at" => h = c.asked  BY <1>12, <2>2
      <3>3. ~c.raced => h = place[list[c.i + 1]]  BY <1>9, <2>2
      <3>4. \A x : Sought(d, x) <=> Sought(c, x)  BY <2>5 DEF Sought
      <3> QED  BY <1>3, <2>1, <2>5, <3>1, <3>2, <3>3, <3>4 DEF MacPassed
    <2>10. Certain(d, o)  BY <1>2, <1>7, <2>5 DEF Fine, Certain, Shaped
    <2>11. Fine(d, o)  BY <1>2, <2>6, <2>7, <2>8, <2>9, <2>10 DEF Fine
    <2>12. \A m \in Images : Own(d, o, m) = Own(call[t], object[t], m)
      BY <1>1, <1>3, <2>1, <2>5 DEF Own, HeldAs
    <2>13. d \in Call /\ o = object[t]  BY <1>1, <2>5
    <2> QED  BY <1>4, <2>4, <2>11, <2>12, <2>13, MacReads
  <1> QED  BY <1>11, <1>12

LEMMA MacMagicOK ==
  ASSUME IInv, NEW t \in Threads, MacMagic(t)
  PROVE  IInv'
  <1>1. PICK c, o : c = call[t] /\ o = object[t]  OBVIOUS
  <1>2. c \in Call /\ o \in Object /\ Fine(c, o) /\ LocksOK /\ TypeOK /\ ListOK
    BY <1>1, ThreadFacts
  <1>3. PICK pc \in PCs : pc = IF At(c.header) = {} THEN "fault" ELSE "name"  BY DEF PCs
  <1>4. PICK d : d = [c EXCEPT !.pc = pc]  OBVIOUS
  <1>5. /\ d \in Call /\ d.pc = pc /\ d.op = c.op /\ d.name = c.name /\ d.asked = c.asked
        /\ d.held = c.held /\ d.must = c.must /\ d.i = c.i /\ d.count = c.count
        /\ d.header = c.header /\ d.h = c.h /\ d.steady = c.steady /\ d.seen = c.seen
        /\ d.raced = c.raced
    BY <1>2, <1>4 DEF Call
  <1>6. c.pc = "magic"  BY <1>1 DEF MacMagic, MacStep, Is
  <1>7. c.pc \in MacSeeks /\ c.op = "get_module" /\ platform = "mac"
    BY <1>2, <1>6 DEF Fine, Shaped, MacSeeks
  <1>8. Shaped(d, o)  BY <1>2, <1>3, <1>5, <1>7 DEF Fine, Shaped, Walking, LinuxPCs, MacSeeks
  <1>9. Watched(d)  BY <1>2, <1>3, <1>5, <1>6 DEF Fine, Watched, Walking, MacSeeks
  <1>10. LinuxPassed(d) /\ Ended(d, o)  BY <1>3, <1>5 DEF LinuxPassed, LinuxPCs, Ended
  <1>11. MacPassed(d)
    <2>1. ~c.raced => /\ c.i < c.count /\ c.count <= Len(list) /\ c.i <= c.count
                      /\ \A l \in c.steady : \E k \in 1 .. c.count : list[k] = l
                      /\ \A k \in 1 .. c.i : ~Sought(c, list[k])
                      /\ c.header = place[list[c.i + 1]]
      BY <1>2, <1>6, <1>7 DEF Fine, MacPassed
    <2>2. \A x : Sought(d, x) <=> Sought(c, x)  BY <1>5 DEF Sought
    <2> QED  BY <1>3, <1>5, <1>7, <2>1, <2>2 DEF MacPassed
  <1>12. Certain(d, o)  BY <1>2, <1>5, <1>7 DEF Fine, Certain
  <1>13. Doomed(d)
    <2>1. ASSUME ~c.raced PROVE At(c.header) # {}
      <3>1. c.i < c.count /\ c.header = place[list[c.i + 1]]  BY <1>2, <1>6, <1>7, <2>1 DEF Fine, MacPassed
      <3>2. list[c.i + 1] \in Images /\ Loaded(list[c.i + 1])  BY <1>2, <1>7, <2>1, <3>1, MacIndex
      <3> QED  BY <3>1, <3>2 DEF At
    <2> QED  BY <1>3, <1>5, <1>7, <2>1 DEF Doomed
  <1>14. Fine(d, o)  BY <1>2, <1>8, <1>9, <1>10, <1>11, <1>12, <1>13 DEF Fine
  <1>15. \A m \in Images : Own(d, o, m) = Own(call[t], object[t], m)
    BY <1>1, <1>3, <1>5, <1>6 DEF Own, HeldAs
  <1>16. call' = [call EXCEPT ![t] = d] /\ UNCHANGED <<platform, fixed, list, place, refs, user, walker, loading, object>>
    BY <1>1, <1>3, <1>4 DEF MacMagic, MacStep, GoesOn, loader, locks
  <1>17. d \in Call /\ o = object[t]  BY <1>1, <1>5
  <1> QED  BY <1>14, <1>15, <1>16, <1>17, MacReads

LEMMA MacNameOK ==
  ASSUME IInv, NEW t \in Threads, MacName(t)
  PROVE  IInv'
  <1>1. PICK c, o : c = call[t] /\ o = object[t]  OBVIOUS
  <1>2. c \in Call /\ o \in Object /\ Fine(c, o) /\ LocksOK /\ TypeOK /\ ListOK
    BY <1>1, ThreadFacts
  <1>3. PICK h \in Images : h = ImageAt(c.i)  BY <1>2, PlaceAtType DEF Call
  <1>4. PICK d : d = [c EXCEPT !.pc = "open", !.h = h]  OBVIOUS
  <1>5. /\ d \in Call /\ d.pc = "open" /\ d.op = c.op /\ d.name = c.name
        /\ d.asked = c.asked /\ d.held = c.held /\ d.must = c.must /\ d.i = c.i
        /\ d.count = c.count /\ d.header = c.header /\ d.h = h /\ d.steady = c.steady
        /\ d.seen = c.seen /\ d.raced = c.raced
    BY <1>2, <1>3, <1>4 DEF Call, PCs
  <1>6. c.pc = "name"  BY <1>1 DEF MacName, MacStep, Is
  <1>7. c.pc \in MacSeeks  BY <1>6 DEF MacSeeks
  <1>8. Shaped(d, o)  BY <1>2, <1>5, <1>7 DEF Fine, Shaped, Walking, LinuxPCs, MacSeeks
  <1>9. Watched(d)  BY <1>2, <1>5, <1>6 DEF Fine, Watched, Walking, MacSeeks
  <1>10. LinuxPassed(d) /\ Ended(d, o) /\ Doomed(d)  BY <1>5 DEF LinuxPassed, LinuxPCs, Ended, Doomed
  <1>11. MacPassed(d)
    <2>1. ~c.raced => /\ c.i < c.count /\ c.count <= Len(list) /\ c.i <= c.count
                      /\ \A l \in c.steady : \E k \in 1 .. c.count : list[k] = l
                      /\ \A k \in 1 .. c.i : ~Sought(c, list[k])
                      /\ c.header = place[list[c.i + 1]]
                      /\ c.op = "module_at" => c.header = c.asked
      BY <1>2, <1>6, <1>7 DEF Fine, MacPassed
    <2>2. ~c.raced => h = list[c.i + 1]  BY <1>2, <1>3, <1>7, <2>1, MacIndex
    <2>3. \A x : Sought(d, x) <=> Sought(c, x)  BY <1>5 DEF Sought
    <2> QED  BY <1>5, <2>1, <2>2, <2>3 DEF MacPassed
  <1>12. Certain(d, o)  BY <1>2, <1>5, <1>7 DEF Fine, Certain, Shaped
  <1>14. Fine(d, o)  BY <1>2, <1>8, <1>9, <1>10, <1>11, <1>12 DEF Fine
  <1>15. \A m \in Images : Own(d, o, m) = Own(call[t], object[t], m)
    BY <1>1, <1>5, <1>6 DEF Own, HeldAs
  <1>16. call' = [call EXCEPT ![t] = d] /\ UNCHANGED <<platform, fixed, list, place, refs, user, walker, loading, object>>
    BY <1>1, <1>3, <1>4 DEF MacName, MacStep, GoesOn, loader, locks
  <1>17. d \in Call /\ o = object[t]  BY <1>1, <1>5
  <1> QED  BY <1>14, <1>15, <1>16, <1>17, MacReads

LEMMA MacOpenOK ==
  ASSUME IInv, NEW t \in Threads, MacOpen(t)
  PROVE  IInv'
  <1>1. PICK c, o, x : c = call[t] /\ o = object[t] /\ x = IF Loaded(c.h) THEN c.h ELSE NoImage
    OBVIOUS
  <1>2. c \in Call /\ o \in Object /\ Fine(c, o) /\ LocksOK /\ TypeOK /\ ListOK
    BY <1>1, ThreadFacts
  <1>3. c.pc = "open" /\ c.pc \in MacSeeks  BY <1>1 DEF MacOpen, Is, MacSeeks
  <1>4. /\ UNCHANGED <<platform, fixed, list, place, user, walker, loading, object>>
        /\ IF c.op = "get_module" /\ x # c.held
           THEN GoesOn(t, NextImage(c)) /\ UNCHANGED refs
           ELSE /\ GoesOn(t, [c EXCEPT !.pc = "slide", !.h = x])
                /\ IF x = NoImage THEN UNCHANGED refs ELSE Open(x)
    BY <1>1 DEF MacOpen, locks
  <1>5. ~c.raced => c.i < c.count /\ c.h = list[c.i + 1]  BY <1>2, <1>3 DEF Fine, MacPassed
  <1>6. ~c.raced => Loaded(c.h) /\ c.h \in Images /\ x = c.h
    BY <1>1, <1>2, <1>3, <1>5, MacIndex
  <1>7. x \in Images \cup {NoImage} /\ (x \in Images => Loaded(x))
    BY <1>1, <1>2, ModulesAssumption DEF Call
  <1>8. CASE c.op = "get_module" /\ x # c.held
    <2>1. PICK d : d = NextImage(c)  OBVIOUS
    <2>2. call' = [call EXCEPT ![t] = d] /\ UNCHANGED <<platform, fixed, list, place, refs, user, walker, loading, object>>
      BY <1>4, <1>8, <2>1 DEF GoesOn
    <2>3. ~c.raced => ~Sought(c, list[c.i + 1])  BY <1>5, <1>6, <1>8 DEF Sought
    <2>4. d \in Call /\ Fine(d, o) /\ \A m : Own(d, o, m) = Own(c, o, m)
      BY <1>2, <1>3, <1>5, <2>1, <2>3, NextImageFine
    <2>5. \A m \in Images : Own(d, o, m) = Own(call[t], object[t], m)  BY <1>1, <2>4
    <2>6. d \in Call /\ o = object[t] /\ Fine(d, o)  BY <1>1, <2>4
    <2> QED  BY <2>2, <2>5, <2>6, MacReads
  <1>9. CASE ~(c.op = "get_module" /\ x # c.held)
    <2>1. PICK d : d = [c EXCEPT !.pc = "slide", !.h = x]  OBVIOUS
    <2>2. /\ d \in Call /\ d.pc = "slide" /\ d.op = c.op /\ d.name = c.name
          /\ d.asked = c.asked /\ d.held = c.held /\ d.must = c.must /\ d.i = c.i
          /\ d.count = c.count /\ d.header = c.header /\ d.h = x /\ d.steady = c.steady
          /\ d.seen = c.seen /\ d.raced = c.raced
      BY <1>2, <1>7, <2>1 DEF Call, PCs
    <2>3. call' = [call EXCEPT ![t] = d]  BY <1>4, <1>9, <2>1 DEF GoesOn
    <2>4. Shaped(d, o)
      <3>1. c.op = "module_at" => x \in Images \/ c.raced  BY <1>6
      <3>2. c.op = "get_module" => x = c.held  BY <1>9
      <3> QED  BY <1>2, <1>3, <2>2, <3>1, <3>2 DEF Fine, Shaped, Walking, LinuxPCs, MacSeeks
    <2>5. Watched(d)  BY <1>2, <1>3, <2>2 DEF Fine, Watched, Walking, MacSeeks
    <2>6. LinuxPassed(d) /\ Ended(d, o) /\ Doomed(d)
      BY <2>2 DEF LinuxPassed, LinuxPCs, Ended, Doomed
    <2>7. MacPassed(d)
      <3>1. ~c.raced => /\ c.i < c.count /\ c.count <= Len(list) /\ c.i <= c.count
                        /\ \A l \in c.steady : \E k \in 1 .. c.count : list[k] = l
                        /\ \A k \in 1 .. c.i : ~Sought(c, list[k])
                        /\ c.header = place[list[c.i + 1]]
                        /\ c.op = "module_at" => c.header = c.asked
        BY <1>2, <1>3 DEF Fine, MacPassed
      <3>2. \A y : Sought(d, y) <=> Sought(c, y)  BY <2>2 DEF Sought
      <3>3. ~c.raced => x = list[c.i + 1]  BY <1>5, <1>6
      <3> QED  BY <2>2, <3>1, <3>2, <3>3 DEF MacPassed
    <2>8. Certain(d, o)  BY <1>2, <1>3, <2>2 DEF Fine, Certain, Shaped
    <2>9. Fine(d, o)  BY <1>2, <2>4, <2>5, <2>6, <2>7, <2>8 DEF Fine
    <2>10. \A m : Own(d, o, m) = Own(c, o, m) + One(x, m) - One(NoImage, m)
      <3>1. ASSUME NEW m PROVE Own(d, o, m) = Own(c, o, m) + One(x, m) - One(NoImage, m)
        <4>1. /\ HeldAs(d, o, "object") = HeldAs(c, o, "object") /\ HeldAs(d, o, "name") = HeldAs(c, o, "name")
              /\ HeldAs(d, o, "image") = x /\ HeldAs(c, o, "image") = NoImage
          BY <1>3, <2>2 DEF HeldAs
        <4>2. \A y : One(y, m) \in Nat  BY DEF One
        <4> QED  BY <4>1, <4>2 DEF Own
      <3> QED  BY <3>1
    <2>11. d \in Call /\ o = object[t] /\ o \in Object /\ LocksOK  BY <1>1, <1>2, <2>2
    <2>12. CASE x = NoImage
      <3>1. UNCHANGED <<platform, fixed, list, place, refs, user, walker, loading, object>>
        BY <1>4, <1>9, <2>12
      <3>2. \A m \in Images : Own(d, o, m) = Own(call[t], object[t], m)
        <4>1. \A m : Own(c, o, m) \in Nat /\ One(x, m) \in Nat  BY DEF Own, One
        <4> QED  BY <1>1, <2>10, <2>12, <4>1
      <3> QED  BY <2>3, <2>9, <2>11, <3>1, <3>2, MacReads
    <2>13. CASE x # NoImage
      <3>1. Open(x) /\ x \in Images /\ Loaded(x)  BY <1>4, <1>7, <1>9, <2>13
      <3>2. \A m \in Images : Own(d, o, m) = Own(call[t], object[t], m) + One(x, m)
        <4>1. \A m : Own(c, o, m) \in Nat /\ One(x, m) \in Nat  BY DEF Own, One
        <4> QED  BY <1>1, <2>10, <4>1, NoObjectFacts
      <3>3. LocksOK' /\ object' = [object EXCEPT ![t] = o]
            /\ UNCHANGED <<platform, fixed, list, place, user>>
        BY <1>4, <2>11, ThreadFacts DEF LocksOK
      <3> QED  BY <2>3, <2>9, <2>11, <3>1, <3>2, <3>3, Takes
    <2> QED  BY <2>12, <2>13
  <1> QED  BY <1>8, <1>9

LEMMA MacSlideOK ==
  ASSUME IInv, NEW t \in Threads, MacSlide(t)
  PROVE  IInv'
  <1>1. PICK c, o, o1 : /\ c = call[t] /\ o = object[t]
                       /\ o1 = [header |-> c.header, handle |-> c.h, slide |-> PlaceAt(c.i),
                                owning |-> TRUE, raced |-> c.raced]
    OBVIOUS
  <1>2. c \in Call /\ o \in Object /\ Fine(c, o) /\ LocksOK /\ TypeOK /\ ListOK
    BY <1>1, ThreadFacts
  <1>3. c.pc = "slide" /\ c.pc \in MacSeeks  BY <1>1 DEF MacSlide, MacStep, Is, MacSeeks
  <1>4. /\ o = NoObject /\ platform = "mac" /\ c.op \in {"get_module", "module_at"}
        /\ c.op = "get_module" => c.held \in Images /\ c.h = c.held
        /\ c.op = "module_at" => c.held = NoImage /\ (c.h \in Images \/ c.raced)
    BY <1>2, <1>3 DEF Fine, Shaped, Walking
  <1>5. /\ o1.header = c.header /\ o1.handle = c.h /\ o1.slide = PlaceAt(c.i)
        /\ o1.owning = TRUE /\ o1.raced = c.raced
    BY <1>1
  <1>6. o1 \in Object
    <2>1. PlaceAt(c.i) \in AnyBase  BY <1>2, PlaceAtType DEF Call
    <2>2. c.header \in AnyBase /\ c.h \in Images \cup {NoImage} /\ c.raced \in BOOLEAN
      BY <1>2 DEF Call
    <2> QED  BY <1>1, <2>1, <2>2 DEF Object
  <1>7. o1 # NoObject  BY <1>5 DEF NoObject
  <1>8. Placed(o1)
    <2>1. ASSUME ~c.raced
          PROVE  c.h \in Images /\ c.header = place[c.h] /\ PlaceAt(c.i) = place[c.h]
      <3>1. c.i < c.count /\ c.header = place[list[c.i + 1]] /\ c.h = list[c.i + 1]
        BY <1>2, <1>3, <2>1 DEF Fine, MacPassed
      <3>2. list[c.i + 1] \in Images /\ PlaceAt(c.i) = place[list[c.i + 1]]
        BY <1>2, <1>3, <2>1, <3>1, MacIndex
      <3> QED  BY <3>1, <3>2
    <2>2. \A l : AddressOf(l) = place[l]  BY <1>4 DEF AddressOf
    <2> QED  BY <1>5, <2>1, <2>2 DEF Placed
  <1>9. UNCHANGED <<platform, fixed, list, place, refs, user>> /\ LocksOK'
        /\ object' = [object EXCEPT ![t] = o1]
    BY <1>1, <1>2 DEF MacSlide, MacStep, Holds, New, loader, locks, LocksOK
  <1>10. ASSUME NEW m \in Images PROVE Own(c, o, m) = One(c.held, m) + One(c.h, m)
    <2>1. HeldAs(c, o, "object") = NoImage /\ HeldAs(c, o, "name") = c.held /\ HeldAs(c, o, "image") = c.h
      BY <1>3, <1>4, NoObjectFacts DEF HeldAs
    <2>2. One(c.held, m) \in Nat /\ One(c.h, m) \in Nat /\ One(NoImage, m) = 0
      BY NoObjectFacts DEF One
    <2> QED  BY <2>1, <2>2 DEF Own
  <1>11. \A x : HeldAs(x, o1, "object") = c.h  BY <1>5 DEF HeldAs
  <1>12. CASE c.held = NoImage
    <2>1. call' = [call EXCEPT ![t] = NoCall]  BY <1>1, <1>12 DEF MacSlide, GoesOn
    <2>2. NoCall \in Call /\ Fine(NoCall, o1) /\ \A m \in Images : Own(NoCall, o1, m) = One(c.h, m)
      BY <1>8, <1>11, FineIdle
    <2>3. \A m \in Images : Own(NoCall, o1, m) = Own(call[t], object[t], m)
      <3>1. \A m \in Images : One(NoImage, m) = 0 /\ One(c.h, m) \in Nat  BY NoObjectFacts DEF One
      <3>2. c = call[t] /\ o = object[t]  BY <1>1
      <3>3. ASSUME NEW m \in Images PROVE Own(NoCall, o1, m) = Own(c, o, m)
        BY <1>10, <1>12, <2>2, <3>1
      <3> QED  BY <3>2, <3>3
    <2> QED  BY <1>6, <1>9, <2>1, <2>2, <2>3, Moves
  <1>13. CASE c.held # NoImage
    <2>1. PICK d : d = [c EXCEPT !.pc = "release", !.h = NoImage]  OBVIOUS
    <2>2. /\ d \in Call /\ d.pc = "release" /\ d.op = c.op /\ d.name = c.name
          /\ d.asked = c.asked /\ d.held = c.held /\ d.must = c.must /\ d.i = c.i
          /\ d.count = c.count /\ d.header = c.header /\ d.h = NoImage /\ d.steady = c.steady
          /\ d.seen = c.seen /\ d.raced = c.raced
      BY <1>2, <2>1 DEF Call, PCs
    <2>3. c.op = "get_module"  BY <1>4, <1>13
    <2>4. Shaped(d, o1)
      BY <1>2, <1>3, <1>4, <1>5, <2>2, <2>3 DEF Fine, Shaped, Walking, LinuxPCs, MacSeeks
    <2>5. Watched(d)  BY <1>2, <2>2, <2>3 DEF Fine, Watched
    <2>6. LinuxPassed(d) /\ MacPassed(d) /\ Doomed(d)
      BY <2>2 DEF LinuxPassed, LinuxPCs, MacPassed, MacSeeks, Doomed
    <2>7. Ended(d, o1)  BY <1>7 DEF Ended
    <2>8. Certain(d, o1)  BY <1>2, <1>4, <2>2 DEF Fine, Certain
    <2>9. Fine(d, o1)  BY <1>8, <2>4, <2>5, <2>6, <2>7, <2>8 DEF Fine
    <2>10. ASSUME NEW m \in Images PROVE Own(d, o1, m) = Own(call[t], object[t], m)
      <3>1. HeldAs(d, o1, "object") = c.h /\ HeldAs(d, o1, "name") = c.held /\ HeldAs(d, o1, "image") = NoImage
        BY <1>11, <2>2 DEF HeldAs
      <3>2. One(c.held, m) \in Nat /\ One(c.h, m) \in Nat /\ One(NoImage, m) = 0
        BY NoObjectFacts DEF One
      <3> QED  BY <1>1, <1>10, <3>1, <3>2 DEF Own
    <2>11. call' = [call EXCEPT ![t] = d]  BY <1>1, <1>13, <2>1 DEF MacSlide, GoesOn
    <2>12. d \in Call  BY <2>2
    <2> QED  BY <1>6, <1>9, <2>9, <2>10, <2>11, <2>12, Moves
  <1> QED  BY <1>12, <1>13

-----------------------------------------------------------------------------
(* The theorems *)

\* Every step of the program and of the library keeps the invariant.
LEMMA Steps ==
  ASSUME IInv, [Next]_vars
  PROVE  IInv'
  <1>0. platform \in Platforms /\ UserLibs[platform] \subseteq Libs /\ Callers[platform] \subseteq Threads
    BY ModulesAssumption DEF IInv, TypeOK
  <1>1. ASSUME NEW l \in Libs, UserBegins(l) \/ UserLoad(l) \/ UserUnload(l) PROVE IInv'
    BY <1>1, UserBeginsOK, UserLoadOK, UserUnloadOK
  <1>2. ASSUME NEW t \in Threads, Starts(t) PROVE IInv'
    BY <1>2, WinGetProcessModuleOK, WinGetModuleOK, WinModuleAtOK, GetModulesOK, ModuleAtOK,
       MacGetProcessModuleOK DEF Starts
  <1>3. ASSUME NEW t \in Threads, Walk(t) PROVE IInv'
    BY <1>3, LinuxEnterOK, LinuxEndOK, LinuxOpenOK, LinuxFoundOK, LinuxCloseOK, LinuxFindOK,
       LinuxClosesOK, ReleaseOK,
       MacCountOK, MacEndOK, MacHeaderOK, MacMagicOK, MacNameOK, MacOpenOK, MacSlideOK DEF Walk
  <1>4. ASSUME NEW t \in Threads, Destroy(t) PROVE IInv'
    BY <1>4, DestroyOK
  <1>5. CASE UNCHANGED vars
    <2>1. Still /\ UNCHANGED <<refs, user, call, object, walker, loading>>
      BY <1>5 DEF vars, locks, Still
    <2>2. TypeOK'  BY <2>1 DEF IInv, TypeOK, Still
    <2>3. ListOK' /\ \A m : Loaded(m)' <=> Loaded(m)  BY <2>1, StillList DEF IInv, ListOK
    <2>4. Balanced'  BY <2>1, <2>3 DEF IInv, Balanced, Handles
    <2>5. ASSUME NEW u \in Threads PROVE Fine(call[u], object[u])'
      <3>1. PICK c, o : c = call[u] /\ o = object[u]  OBVIOUS
      <3>2. Fine(c, o)'  BY <2>1, <3>1, FineStill DEF IInv
      <3> QED  BY <2>1, <3>1, <3>2
    <2> QED  BY <2>2, <2>3, <2>4, <2>5 DEF IInv
  <1> QED  BY <1>0, <1>1, <1>2, <1>3, <1>4, <1>5 DEF Next

LEMMA Starting ==
  ASSUME Init
  PROVE  IInv
  <1>1. Main \in Images /\ Main \notin Libs /\ 1 \in 1 .. 1  BY ModulesAssumption DEF Images
  <1>2. /\ list = <<Main>> /\ Len(list) = 1 /\ list \in Seq(Images) /\ DOMAIN list = 1 .. 1
        /\ list[1] = Main
    BY <1>1 DEF Init
  <1>3. TypeOK
    <2>1. place \in [Images -> Bases \cup {Nowhere}]  BY DEF Init, Bases
    <2>2. refs \in [Images -> Nat] /\ user \in [Images -> 0 .. MaxUser]
      BY ModulesAssumption DEF Init
    <2>3. call \in [Threads -> Call]
      <3>1. NoCall \in Call  BY DEF NoCall, Call, PCs, AnyBase
      <3> QED  BY <3>1 DEF Init
    <2>4. object \in [Threads -> Object]  BY NoObjectFacts DEF Init
    <2>5. /\ platform \in Platforms /\ fixed \in BOOLEAN /\ walker \in Threads \cup {NoThread}
          /\ loading \in [does : {"nothing", "load", "unload", "close"}, to : Images \cup {NoImage},
                         by : Threads \cup {NoThread}]
      BY DEF Init, Nothing
    <2> QED  BY <1>2, <2>1, <2>2, <2>3, <2>4, <2>5 DEF TypeOK
  <1>4. \A l : Loaded(l) <=> l = Main
    <2>1. \A k \in 1 .. 1 : k = 1  OBVIOUS
    <2> QED  BY <1>1, <1>2, <2>1 DEF Loaded
  <1>5. ListOK
    <2>1. \A j, k \in 1 .. 1 : j = k  OBVIOUS
    <2>2. MainPlace # Nowhere  BY ModulesAssumption DEF Nowhere
    <2>3. \A l \in Images : place[l] = IF l = Main THEN MainPlace ELSE Nowhere  BY DEF Init
    <2>4. user[Main] = 0  BY <1>1 DEF Init
    <2>5. list # << >>  BY <1>2
    <2> QED  BY <1>1, <1>2, <1>4, <2>1, <2>2, <2>3, <2>4, <2>5 DEF ListOK
  <1>6. Balanced
    <2>1. ASSUME NEW l \in Images PROVE Handles(l) = {}
      <3>1. \A k \in Kinds : HeldAs(NoCall, NoObject, k) = NoImage  BY DEF HeldAs, NoCall, NoObject, Kinds
      <3>2. \A t \in Threads : call[t] = NoCall /\ object[t] = NoObject  BY DEF Init
      <3>3. NoImage # l  BY ModulesAssumption
      <3> QED  BY <3>1, <3>2, <3>3 DEF Handles
    <2>2. \A l \in Images : user[l] = 0 /\ refs[l] = IF l = Main THEN 1 ELSE 0  BY DEF Init
    <2> QED  BY <1>4, <2>1, <2>2, FS_EmptySet DEF Balanced
  <1>7. ASSUME NEW u \in Threads PROVE Fine(call[u], object[u])
    <2>1. call[u] = NoCall /\ object[u] = NoObject  BY DEF Init
    <2> QED  BY <2>1, FineIdle, NoObjectFacts
  <1> QED  BY <1>3, <1>5, <1>6, <1>7 DEF IInv

LEMMA Invariant == Spec => []IInv
  BY Starting, Steps, PTL DEF Spec

\* Every variable has its type, and the walks of both systems stay within theirs.
THEOREM TypeCorrect == Spec => []TypeOK
  <1>1. IInv => TypeOK  BY DEF IInv
  <1> QED  BY <1>1, Invariant, PTL

\* No reference to an image is lost or given back twice, and an image is unloaded exactly
\* with its last one: process.cpp's handles, of objects and of calls in progress.
THEOREM ReferencesBalanced == Spec => []Balanced
  <1>1. IInv => Balanced  BY DEF IInv
  <1> QED  BY <1>1, Invariant, PTL

\* The image of a module object stays loaded, and where the object says it is.
THEOREM ObjectsPinned == Spec => []Pinned
  <1>1. ASSUME IInv PROVE Pinned
    <2> SUFFICES ASSUME NEW t \in Threads, object[t] # NoObject, ~object[t].raced
                 PROVE  /\ object[t].handle # NoImage /\ Loaded(object[t].handle)
                        /\ object[t].header = AddressOf(object[t].handle)
                        /\ object[t].slide = AddressOf(object[t].handle)
      BY DEF Pinned
    <2>1. /\ object[t].handle \in Images
          /\ object[t].header = AddressOf(object[t].handle)
          /\ object[t].slide = AddressOf(object[t].handle)
      BY <1>1, ThreadFacts DEF Fine, Placed
    <2>2. Loaded(object[t].handle)  BY <1>1, <2>1, ObjectLoaded
    <2> QED  BY <2>1, <2>2, ModulesAssumption
  <1> QED  BY <1>1, Invariant, PTL

\* A call ends the process only after an unload under its walk, or in get_process_module of
\* a Linux executable that is not position independent.
THEOREM EndsOnlyThere == Spec => []DiesOnly
  <1>1. IInv => DiesOnly  BY DEF IInv, Fine, Doomed, DiesOnly, Is
  <1> QED  BY <1>1, Invariant, PTL

-----------------------------------------------------------------------------
(* What a call returns *)

LEMMA ClosePCs ==
  ASSUME NEW l, NEW cs, Close(l, cs), NEW t \in Threads, cs[t] \in Call
  PROVE  call'[t].pc = cs[t].pc
  <1>1. PICK c : c = cs[t] /\ c \in Call  OBVIOUS
  <1>2. call'[t] = c \/ call'[t] = [c EXCEPT !.steady = @ \ {l}, !.raced = TRUE]
    BY <1>1 DEF Close, SawUnload
  <1>3. [c EXCEPT !.steady = @ \ {l}, !.raced = TRUE].pc = c.pc  BY <1>1 DEF Call
  <1> QED  BY <1>1, <1>2, <1>3

LEMMA UserPCs ==
  ASSUME IInv, NEW l \in Libs, UserBegins(l) \/ UserLoad(l) \/ UserUnload(l), NEW t \in Threads
  PROVE  call'[t].pc = call[t].pc
  <1>1. PICK c : c = call[t] /\ c \in Call  BY ThreadFacts
  <1>2. CASE UserBegins(l)  BY <1>2 DEF UserBegins
  <1>3. CASE UserLoad(l)
    <2>1. call' = call \/ \E p \in Places : call' = SawLoad(call, l, p)  BY <1>3 DEF UserLoad
    <2>2. call'[t] = c \/ call'[t] = [c EXCEPT !.seen = @ \cup {l}]  BY <1>1, <2>1 DEF SawLoad
    <2>3. [c EXCEPT !.seen = @ \cup {l}].pc = c.pc  BY <1>1 DEF Call
    <2> QED  BY <1>1, <2>2, <2>3
  <1>4. CASE UserUnload(l)
    <2>1. Close(l, call) /\ call \in [Threads -> Call]  BY <1>4 DEF UserUnload, IInv, TypeOK
    <2> QED  BY <2>1, ClosePCs
  <1> QED  BY <1>2, <1>3, <1>4

\* A step of a thread leaves the stage of every other call alone.
LEMMA OtherPCs ==
  ASSUME IInv, NEW u \in Threads, Starts(u) \/ Walk(u) \/ Destroy(u), NEW t \in Threads, t # u
  PROVE  call'[t].pc = call[t].pc
  <1>1. call \in [Threads -> Call]  BY DEF IInv, TypeOK
  <1>2. ASSUME NEW c, call' = [call EXCEPT ![u] = c] PROVE call'[t].pc = call[t].pc
    BY <1>1, <1>2
  <1>3. CASE Starts(u)
    <2>1. call' = call \/ \E c : call' = [call EXCEPT ![u] = c]
      BY <1>3 DEF Starts, WinGetProcessModule, WinGetModule, WinModuleAt, WinTake, LinuxGetModule,
                  LinuxGetProcessModule, ModuleAt, MacGetProcessModule, MacGetModule, OpenNamed, GoesOn
    <2> QED  BY <1>2, <2>1, SMTT(60)
  <1>4. CASE Destroy(u)
    <2>1. call' = call \/ \E c : call' = [call EXCEPT ![u] = c]  BY <1>4 DEF Destroy, GoesOn
    <2> QED  BY <1>2, <2>1, SMTT(60)
  <1>5. CASE Walk(u)
    <2>1. \/ call' = call \/ \E c : call' = [call EXCEPT ![u] = c]
          \/ \E l, d : Close(l, [call EXCEPT ![u] = d])
      BY <1>5 DEF Walk, LinuxEnter, LinuxEnd, LinuxLeave, LinuxOpen, LinuxFound, LinuxClose, LinuxFind,
                  Return, LinuxCloses, Release, MacCount, MacEnd, MacHeader, MacMagic, MacName, MacOpen, MacSlide, GoesOn
    <2>2. ASSUME NEW l, NEW d, Close(l, [call EXCEPT ![u] = d]) PROVE call'[t].pc = call[t].pc
      <3>1. PICK cs : cs = [call EXCEPT ![u] = d]  OBVIOUS
      <3>2. Close(l, cs) /\ cs[t] = call[t] /\ cs[t] \in Call  BY <1>1, <2>2, <3>1
      <3> QED  BY <3>2, ClosePCs
    <2> QED  BY <1>2, <2>1, <2>2
  <1> QED  BY <1>3, <1>4, <1>5

\* The steps that end a call.
LEMMA QuitsAt ==
  ASSUME IInv, Next, NEW t \in Threads, Quits(t)
  PROVE  Release(t) \/ LinuxFind(t) \/ MacEnd(t) \/ MacSlide(t)
  <1>1. call[t].pc # "idle" /\ call'[t].pc = "idle"  BY DEF Quits, Busy
  <1>2. ~\E l \in Libs : UserBegins(l) \/ UserLoad(l) \/ UserUnload(l)  BY <1>1, UserPCs
  <1>3. PICK u \in Threads : Starts(u) \/ Walk(u) \/ Destroy(u)
    <2>1. UserLibs[platform] \subseteq Libs /\ Callers[platform] \subseteq Threads
      BY ModulesAssumption DEF IInv, TypeOK
    <2> QED  BY <1>2, <2>1 DEF Next
  <1>4. u = t  BY <1>1, <1>3, OtherPCs
  <1>5. ~Starts(t)
    BY <1>1 DEF Starts, WinGetProcessModule, WinGetModule, WinModuleAt, LinuxGetModule, LinuxGetProcessModule,
                ModuleAt, MacGetProcessModule, MacGetModule, OpenNamed, Idle, Busy
  <1>6. ~Destroy(t)  BY <1>1 DEF Destroy, Busy
  <1>7. call \in [Threads -> Call] /\ call[t] \in Call  BY DEF IInv, TypeOK
  <1>8. ASSUME NEW c, call' = [call EXCEPT ![t] = c] PROVE c.pc = "idle"
    BY <1>1, <1>7, <1>8
  <1>9. \A pc : [call[t] EXCEPT !.pc = pc].pc = pc  BY <1>7 DEF Call
  <1>10. ~LinuxEnter(t)
    <2>1. LinuxEnter(t) => call' = [call EXCEPT ![t] = [call[t] EXCEPT !.pc = "walk"]]  BY DEF LinuxEnter, GoesOn
    <2> QED  BY <1>8, <1>9, <2>1
  <1>11. ~LinuxEnd(t)
    <2>1. LinuxEnd(t) => call' = [call EXCEPT ![t] = [call[t] EXCEPT !.pc = "release"]]
      BY DEF LinuxEnd, LinuxLeave, GoesOn
    <2> QED  BY <1>8, <1>9, <2>1
  <1>12. ~MacMagic(t)
    <2>1. ASSUME MacMagic(t) PROVE FALSE
      <3>1. PICK pc : pc = IF At(call[t].header) = {} THEN "fault" ELSE "name"  OBVIOUS
      <3>2. call' = [call EXCEPT ![t] = [call[t] EXCEPT !.pc = pc]]  BY <2>1, <3>1 DEF MacMagic, GoesOn
      <3>3. [call[t] EXCEPT !.pc = pc].pc = pc  BY <1>9
      <3>4. pc # "idle"  BY <3>1
      <3> QED  BY <1>8, <3>2, <3>3, <3>4
    <2> QED  BY <2>1
  <1> DEFINE c == call[t]
  <1> HIDE DEF c
  <1>13. c \in Call /\ c = call[t]  BY <1>7 DEF c
  <1>14. ~LinuxOpen(t)
    <2>1. ASSUME LinuxOpen(t) PROVE FALSE
      <3>1. \/ call' = [call EXCEPT ![t] = [c EXCEPT !.i = @ + 1]]
            \/ \E h : call' = [call EXCEPT ![t] = [c EXCEPT !.pc = "compare", !.h = h]]
        BY <1>13, <2>1 DEF LinuxOpen, GoesOn
      <3>2. [c EXCEPT !.i = @ + 1].pc = c.pc  BY <1>13 DEF Call
      <3>3. \A h : [c EXCEPT !.pc = "compare", !.h = h].pc = "compare"  BY <1>13 DEF Call
      <3> QED  BY <1>1, <1>8, <1>13, <3>1, <3>2, <3>3
    <2> QED  BY <2>1
  <1>15. ~LinuxFound(t)
    <2>1. [c EXCEPT !.pc = "release", !.h = NoImage].pc = "release"  BY <1>13 DEF Call
    <2>2. LinuxFound(t) => call' = [call EXCEPT ![t] = [c EXCEPT !.pc = "release", !.h = NoImage]]
      BY <1>13 DEF LinuxFound, GoesOn
    <2> QED  BY <1>8, <2>1, <2>2
  <1>16. ~LinuxClose(t)
    <2>1. ASSUME LinuxClose(t) PROVE FALSE
      <3>1. PICK d : d = Dropping(c, c.h)  OBVIOUS
      <3>2. d.pc \in {"fault", "walk"} /\ d \in Call  BY <1>13, <3>1, Dropped
      <3>3. Close(c.h, [call EXCEPT ![t] = d])  BY <1>13, <2>1, <3>1 DEF LinuxClose, Dropping
      <3>4. PICK cs : cs = [call EXCEPT ![t] = d]  OBVIOUS
      <3>5. Close(c.h, cs) /\ cs[t] = d  BY <1>7, <3>3, <3>4
      <3>6. call'[t].pc = d.pc  BY <3>2, <3>5, ClosePCs
      <3> QED  BY <1>1, <3>2, <3>6
    <2> QED  BY <2>1
  <1>17. ~MacCount(t)
    <2>1. [c EXCEPT !.pc = "header", !.count = Len(list)].pc = "header"  BY <1>13 DEF Call
    <2>2. MacCount(t) => call' = [call EXCEPT ![t] = [c EXCEPT !.pc = "header", !.count = Len(list)]]
      BY <1>13 DEF MacCount, GoesOn
    <2> QED  BY <1>8, <2>1, <2>2
  <1>18. NextImage(c).pc = "header"  BY <1>13 DEF NextImage, Call
  <1>19. ~MacHeader(t)
    <2>1. ASSUME MacHeader(t) PROVE FALSE
      <3> DEFINE magic == [c EXCEPT !.pc = "magic", !.header = PlaceAt(c.i)]
                 name == [c EXCEPT !.pc = "name", !.header = PlaceAt(c.i)]
      <3>1. magic.pc = "magic" /\ name.pc = "name"  BY <1>13 DEF Call
      <3>2. PICK e : e = IF PlaceAt(c.i) = Nowhere THEN NextImage(c)
                         ELSE IF c.op = "get_module" THEN magic
                         ELSE IF PlaceAt(c.i) = c.asked THEN name
                         ELSE NextImage(c)
        OBVIOUS
      <3>3. call' = [call EXCEPT ![t] = e]  BY <1>13, <2>1, <3>2 DEF MacHeader, GoesOn
      <3> HIDE DEF magic, name
      <3>4. e.pc \in {"header", "magic", "name"}  BY <1>18, <3>1, <3>2
      <3> QED  BY <1>8, <3>3, <3>4
    <2> QED  BY <2>1
  <1>20. ~MacName(t)
    <2>1. \A h : [c EXCEPT !.pc = "open", !.h = h].pc = "open"  BY <1>13 DEF Call
    <2>2. MacName(t) => \E h : call' = [call EXCEPT ![t] = [c EXCEPT !.pc = "open", !.h = h]]
      BY <1>13 DEF MacName, GoesOn
    <2> QED  BY <1>8, <2>1, <2>2
  <1>21. ~MacOpen(t)
    <2>1. \A h : [c EXCEPT !.pc = "slide", !.h = h].pc = "slide"  BY <1>13 DEF Call
    <2>2. MacOpen(t) => \/ call' = [call EXCEPT ![t] = NextImage(c)]
                        \/ \E h : call' = [call EXCEPT ![t] = [c EXCEPT !.pc = "slide", !.h = h]]
      BY <1>13 DEF MacOpen, GoesOn
    <2> QED  BY <1>8, <1>18, <2>1, <2>2
  <1>22. ~LinuxCloses(t)  BY <1>1 DEF LinuxCloses
  <1> QED  BY <1>3, <1>4, <1>5, <1>6, <1>10, <1>11, <1>12, <1>14, <1>15, <1>16, <1>17, <1>19, <1>20,
              <1>21, <1>22 DEF Walk

\* Whether an object is an answer to a call.
Answers(c, o) ==
  ~c.raced =>
    IF o = NoObject THEN Wanted(c) \cap c.steady \subseteq (IF fixed THEN {Main} ELSE {})
    ELSE o.handle \in Wanted(c)

\* Both get_module return the object the walk has made, or none; a destructor was asked for
\* nothing.
LEMMA ReleaseAnswers ==
  ASSUME IInv, NEW t \in Threads, Release(t)
  PROVE  Answers(call[t], object'[t])
  <1>1. PICK c, o : c = call[t] /\ o = object[t]  OBVIOUS
  <1>2. c \in Call /\ Fine(c, o)  BY <1>1, ThreadFacts
  <1>3. c.pc = "release" /\ object' = object  BY <1>1 DEF Release, Is
  <1>4. CASE c.op = "get_module"
    <2>1. c.held \in Images /\ c.name = c.held /\ (o # NoObject => o.handle = c.held)
      BY <1>2, <1>3, <1>4 DEF Fine, Shaped, Walking
    <2>2. ~c.raced /\ o = NoObject /\ c.held \in c.steady => fixed /\ c.held = Main
      BY <1>2, <1>3, <1>4 DEF Fine, Ended
    <2>3. Wanted(c) = {c.held}  BY <1>4, <2>1 DEF Wanted
    <2> QED  BY <1>1, <1>3, <2>1, <2>2, <2>3 DEF Answers
  <1>5. CASE c.op # "get_module"
    <2>1. o = NoObject /\ c.seen = {}  BY <1>2, <1>3, <1>5 DEF Fine, Shaped, Walking
    <2> QED  BY <1>1, <1>3, <1>5, <2>1 DEF Answers, Wanted
  <1> QED  BY <1>4, <1>5

\* module_at of Linux: the image at the address asked for is not moved by nothing, unless
\* it is the executable.
LEMMA LinuxFindAnswers ==
  ASSUME IInv, NEW t \in Threads, LinuxFind(t)
  PROVE  Answers(call[t], object'[t])
  <1>1. PICK c, o : c = call[t] /\ o = object[t]  OBVIOUS
  <1>2. c \in Call /\ Fine(c, o) /\ TypeOK /\ ListOK  BY <1>1, ThreadFacts
  <1>3. c.pc = "walk" /\ c.op = "module_at"  BY <1>1 DEF LinuxFind, Is
  <1>4. /\ c.asked \in Bases /\ At(c.asked) \subseteq c.seen
        /\ \A l \in c.steady : Loaded(l)
        /\ \A l \in c.seen \cap c.steady : place[l] = c.asked
    BY <1>2, <1>3 DEF Fine, Shaped, Watched, Walking, LinuxPCs
  <1>5. Wanted(c) = c.seen  BY <1>3 DEF Wanted
  <1>6. object \in [Threads -> Object] /\ c.steady \subseteq Images  BY <1>2 DEF TypeOK, Call
  <1>7. CASE Return(t, NoObject) /\ {l \in Images : Loaded(l) /\ Moved(l) = c.asked} = {}
    <2>1. object'[t] = NoObject  BY <1>6, <1>7 DEF Return, Holds
    <2>2. ASSUME NEW l \in c.seen \cap c.steady PROVE fixed /\ l = Main
      <3>1. Loaded(l) /\ place[l] = c.asked /\ l \in Images  BY <1>4, <1>6, <2>2
      <3>2. Moved(l) # c.asked  BY <1>7, <3>1
      <3> QED  BY <3>1, <3>2 DEF Moved
    <2> QED  BY <1>1, <1>5, <2>1, <2>2 DEF Answers
  <1>8. CASE \E l \in Images : /\ Loaded(l) /\ Moved(l) = c.asked
                               /\ Return(t, New(Moved(l), l, Moved(l), FALSE))
    <2>1. PICK l \in Images : /\ Loaded(l) /\ Moved(l) = c.asked
                              /\ Return(t, New(Moved(l), l, Moved(l), FALSE))
      BY <1>8
    <2>2. object'[t] = Made(Moved(l), l)  BY <1>6, <2>1 DEF Return, Holds, New, Made
    <2>3. object'[t].handle = l /\ object'[t] # NoObject  BY <2>2 DEF Made, NoObject
    <2>4. c.asked # 0  BY <1>4, ModulesAssumption DEF Bases
    <2>5. l \in c.seen  BY <1>4, <2>1, <2>4 DEF At, Moved
    <2> QED  BY <1>1, <1>5, <2>3, <2>5 DEF Answers
  <1> QED  BY <1>1, <1>7, <1>8 DEF LinuxFind

\* module_at of macOS, when no base was the one asked for ...
LEMMA MacEndAnswers ==
  ASSUME IInv, NEW t \in Threads, MacEnd(t), Quits(t)
  PROVE  Answers(call[t], object'[t])
  <1>1. PICK c, o : c = call[t] /\ o = object[t]  OBVIOUS
  <1>2. c \in Call /\ Fine(c, o) /\ TypeOK /\ ListOK  BY <1>1, ThreadFacts
  <1>3. c.pc = "header" /\ c.i = c.count /\ object' = object  BY <1>1 DEF MacEnd, MacStep, Is
  <1>4. c.held = NoImage
    <2>1. ASSUME c.held # NoImage PROVE FALSE
      <3>1. PICK d : d = [c EXCEPT !.pc = "release"]  OBVIOUS
      <3>2. d.pc = "release"  BY <1>2, <3>1 DEF Call
      <3>3. call' = [call EXCEPT ![t] = d]  BY <1>1, <2>1, <3>1 DEF MacEnd, GoesOn
      <3>4. call'[t] = d  BY <1>2, <3>3 DEF TypeOK
      <3> QED  BY <3>2, <3>4 DEF Quits, Busy
    <2> QED  BY <2>1
  <1>5. NoImage \notin Images  BY ModulesAssumption
  <1>6. o = NoObject /\ c.op = "module_at"
    BY <1>2, <1>3, <1>4, <1>5 DEF Fine, Shaped, Walking, MacSeeks
  <1>7. ASSUME ~c.raced, NEW l \in c.seen \cap c.steady PROVE FALSE
    <2>1. /\ \A m \in c.steady : \E k \in 1 .. c.count : list[k] = m
          /\ \A k \in 1 .. c.i : ~Sought(c, list[k])
      BY <1>2, <1>3, <1>7 DEF Fine, MacPassed, MacSeeks
    <2>2. place[l] = c.asked  BY <1>2, <1>3, <1>6, <1>7 DEF Fine, Watched, Walking, MacSeeks
    <2> QED  BY <1>3, <1>6, <1>7, <2>1, <2>2 DEF Sought
  <1>8. Answers(c, o)  BY <1>6, <1>7 DEF Answers, Wanted
  <1> QED  BY <1>1, <1>3, <1>8

\* ... and when one was.
LEMMA MacSlideAnswers ==
  ASSUME IInv, NEW t \in Threads, MacSlide(t), Quits(t)
  PROVE  Answers(call[t], object'[t])
  <1>1. PICK c, o : c = call[t] /\ o = object[t]  OBVIOUS
  <1>2. c \in Call /\ Fine(c, o) /\ TypeOK /\ ListOK  BY <1>1, ThreadFacts
  <1>3. c.pc = "slide" /\ c.pc \in MacSeeks  BY <1>1 DEF MacSlide, MacStep, Is, MacSeeks
  <1>4. c.held = NoImage
    <2>1. ASSUME c.held # NoImage PROVE FALSE
      <3>1. PICK d : d = [c EXCEPT !.pc = "release", !.h = NoImage]  OBVIOUS
      <3>2. d.pc = "release"  BY <1>2, <3>1 DEF Call
      <3>3. call' = [call EXCEPT ![t] = d]  BY <1>1, <2>1, <3>1 DEF MacSlide, GoesOn
      <3>4. call'[t] = d  BY <1>2, <3>3 DEF TypeOK
      <3> QED  BY <3>2, <3>4 DEF Quits, Busy
    <2> QED  BY <2>1
  <1>5. NoImage \notin Images  BY ModulesAssumption
  <1>6. c.op = "module_at"
    BY <1>2, <1>3, <1>4, <1>5 DEF Fine, Shaped, Walking
  <1>7. PICK o1 : o1 = [header |-> c.header, handle |-> c.h, slide |-> PlaceAt(c.i),
                        owning |-> TRUE, raced |-> c.raced]
    OBVIOUS
  <1>8. o1.handle = c.h /\ o1 # NoObject  BY <1>7 DEF NoObject
  <1>9. object'[t] = o1  BY <1>1, <1>2, <1>7 DEF MacSlide, Holds, New, TypeOK
  <1>10. ~c.raced => c.h \in c.seen
    <2>1. At(c.asked) \subseteq c.seen  BY <1>2, <1>3, <1>6 DEF Fine, Watched, Walking
    <2>2. ASSUME ~c.raced PROVE c.h \in At(c.asked)
      <3>1. /\ c.i < c.count /\ c.header = place[list[c.i + 1]] /\ c.header = c.asked
            /\ c.h = list[c.i + 1]
        BY <1>2, <1>3, <1>6, <2>2 DEF Fine, MacPassed
      <3>2. Loaded(list[c.i + 1]) /\ list[c.i + 1] \in Images
        BY <1>2, <1>3, <2>2, <3>1, MacIndex
      <3> QED  BY <3>1, <3>2 DEF At
    <2> QED  BY <2>1, <2>2
  <1>11. Answers(c, o1)  BY <1>6, <1>8, <1>10 DEF Answers, Wanted
  <1> QED  BY <1>1, <1>9, <1>11

LEMMA CallAnswers ==
  ASSUME IInv, Next, NEW t \in Threads, Quits(t)
  PROVE  Answers(call[t], object'[t])
  BY QuitsAt, ReleaseAnswers, LinuxFindAnswers, MacEndAnswers, MacSlideAnswers

\* What process.hpp:88 and process.hpp:92 say get_module and module_at return: the image
\* of the name, or the one at the address, if it was there all along, and never another.
THEOREM CallsFind == Spec => Found
  <1>1. ASSUME IInv, [Next]_vars
        PROVE  [\A t \in Threads :
                  Quits(t) /\ ~call[t].raced =>
                    IF object'[t] = NoObject
                    THEN Wanted(call[t]) \cap call[t].steady \subseteq (IF fixed THEN {Main} ELSE {})
                    ELSE object'[t].handle \in Wanted(call[t])]_vars
    <2>1. CASE Next  BY <1>1, <2>1, CallAnswers DEF Answers
    <2>2. CASE UNCHANGED vars  BY <2>2
    <2> QED  BY <1>1, <2>1, <2>2
  <1> QED  BY <1>1, Invariant, PTL DEF Spec, Found
=============================================================================
