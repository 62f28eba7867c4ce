------------------------------- MODULE Modules -------------------------------
(***************************************************************************)
(* hat::process::get_process_module, get_module and module_at, and the     *)
(* module objects they return, over a loader that counts the references to *)
(* every image and unloads an image with its last one.  Threads that call  *)
(* the library share the loader with the rest of the program, which loads  *)
(* and unloads images between any two of their steps.                      *)
(*                                                                         *)
(* The loader of Linux has two locks.  dlopen and dlclose run under one,   *)
(* and take the other as well when they change the list of images, which   *)
(* dl_iterate_phdr holds while it calls back.  The callback of get_module  *)
(* opens and closes every image it is shown.  The functions of dyld each   *)
(* take an index into its list, and the list may change from one to the    *)
(* next.  Windows does everything in one call.                             *)
(***************************************************************************)
EXTENDS Integers, Sequences, SequencesExt, FiniteSets

CONSTANTS
  Threads,    \* the threads that may call the library
  Libs,       \* the images other than the executable
  Main,       \* the executable
  Places,     \* the addresses where images may be loaded
  MainPlace,  \* where the executable is
  Platforms,  \* among "linux", "win32", "mac"
  Callers,    \* on each of them, the threads that do
  UserLibs,   \* on each of them, the images the rest of the program loads and unloads
  MaxUser     \* bound on the references the rest of the program holds to an image

Images == Libs \cup {Main}
Nowhere == -1
NoImage == "none"
NoThread == "none"
Nothing == [does |-> "nothing", to |-> NoImage, by |-> NoThread]

ASSUME ModulesAssumption ==
  /\ IsFiniteSet(Threads) /\ NoThread \notin Threads
  /\ Main \notin Libs /\ NoImage \notin Images
  /\ Places \subseteq Nat \ {0} /\ MainPlace \in Nat \ ({0} \cup Places)
  /\ MaxUser \in Nat \ {0}
  /\ Platforms \subseteq {"linux", "win32", "mac"}
  /\ Callers \in [Platforms -> SUBSET Threads] /\ UserLibs \in [Platforms -> SUBSET Libs]

VARIABLES
  platform,
  fixed,     \* on Linux: whether the executable is not position independent
  list,      \* the loader's list of images, in its order
  place,     \* where each image is loaded
  refs,      \* the loader's count of references
  user,      \* the references held by the rest of the program
  call,      \* the calls in progress
  object,    \* the module object each thread holds
  walker,    \* on Linux: the thread that walks the list, and holds its lock
  loading    \* on Linux: what is being done under the other lock, and by which thread of
             \* Threads if not by the rest of the program

locks == <<walker, loading>>
vars == <<platform, fixed, list, place, refs, user, call, object, locks>>
loader == <<platform, fixed, list, place, refs, user, locks>>

Loaded(l) == \E k \in DOMAIN list : list[k] = l

\* dlpi_addr: what an image has been moved by, nothing if it is fixed.
Moved(l) == IF l = Main /\ fixed THEN 0 ELSE place[l]

\* What address() of a module object returns for an image.
AddressOf(l) == IF platform = "linux" THEN Moved(l) ELSE place[l]

\* The image at an address.
At(p) == {l \in Images : Loaded(l) /\ place[l] = p}

\* The image an index refers to now; dlopen of no name is the executable.
ImageAt(i) == IF i < Len(list) THEN list[i + 1] ELSE Main
PlaceAt(i) == IF i < Len(list) THEN place[list[i + 1]] ELSE Nowhere

NoObject == [header |-> Nowhere, handle |-> NoImage, slide |-> Nowhere, owning |-> FALSE,
             raced |-> FALSE]

\* A call that is not in progress.  held is the handle of the name asked for, h the
\* handle of the image a walk is at, must whether the caller cannot do without the
\* answer.  Three fields only observe: steady are the images loaded all along, seen
\* those that were at the address asked for, and raced is whether any image was
\* unloaded meanwhile.
NoCall == [pc |-> "idle", op |-> "none", name |-> NoImage, asked |-> Nowhere, held |-> NoImage,
           must |-> FALSE, i |-> 0, count |-> 0, header |-> Nowhere, h |-> NoImage,
           steady |-> {}, seen |-> {}, raced |-> FALSE]

Init ==
  /\ platform \in Platforms
  /\ fixed \in (IF platform = "linux" THEN BOOLEAN ELSE {FALSE})
  /\ list = <<Main>>
  /\ place = [l \in Images |-> IF l = Main THEN MainPlace ELSE Nowhere]
  /\ refs = [l \in Images |-> IF l = Main THEN 1 ELSE 0]
  /\ user = [l \in Images |-> 0]
  /\ call = [t \in Threads |-> NoCall]
  /\ object = [t \in Threads |-> NoObject]
  /\ walker = NoThread /\ loading = Nothing

-----------------------------------------------------------------------------
(* The loader *)

Busy(c) == c.pc # "idle"

\* The calls in progress after image l has been unloaded.
SawUnload(cs, l) ==
  [t \in Threads |-> IF Busy(cs[t])
                     THEN [cs[t] EXCEPT !.steady = @ \ {l}, !.raced = TRUE]
                     ELSE cs[t]]

\* The calls in progress after image l has been loaded at p.
SawLoad(cs, l, p) ==
  [t \in Threads |-> IF Busy(cs[t]) /\ cs[t].asked = p
                     THEN [cs[t] EXCEPT !.seen = @ \cup {l}]
                     ELSE cs[t]]

\* dlclose: the last reference unloads the image.
Close(l, cs) ==
  /\ refs' = [refs EXCEPT ![l] = @ - 1]
  /\ IF refs[l] = 1
     THEN /\ list' = RemoveAt(list, CHOOSE k \in DOMAIN list : list[k] = l)
          /\ place' = [place EXCEPT ![l] = Nowhere]
          /\ call' = SawUnload(cs, l)
     ELSE /\ UNCHANGED <<list, place>>
          /\ call' = cs

\* dlopen of a loaded image.
Open(l) == refs' = [refs EXCEPT ![l] = @ + 1]

\* The lock of dlopen and dlclose is free.
MayLoad == loading = Nothing

\* On Linux the rest of the program enters dlopen or dlclose, ...
UserBegins(l) ==
  /\ platform = "linux" /\ MayLoad
  /\ \E does \in {"load", "unload"} :
       /\ IF does = "load"
          THEN user[l] < MaxUser /\ (Loaded(l) \/ \E p \in Places : At(p) = {})
          ELSE user[l] > 0
       /\ loading' = [does |-> does, to |-> l, by |-> NoThread]
  /\ UNCHANGED <<platform, fixed, list, place, refs, user, call, object, walker>>

\* ... which waits for the lock of the list if it has to change that.  So does a thread
\* that is in dlclose.
ChangesList == IF loading.does = "load" THEN ~Loaded(loading.to) ELSE refs[loading.to] = 1

UserEnds(l, does) ==
  /\ platform = "linux" =>
       /\ loading = [does |-> does, to |-> l, by |-> NoThread]
       /\ ChangesList => walker = NoThread
  /\ loading' = Nothing

UserLoad(l) ==
  /\ UserEnds(l, "load")
  /\ user[l] < MaxUser
  /\ user' = [user EXCEPT ![l] = @ + 1]
  /\ Open(l)
  /\ IF Loaded(l)
     THEN UNCHANGED <<list, place, call>>
     ELSE \E p \in {q \in Places : At(q) = {}} :
            /\ list' = Append(list, l)
            /\ place' = [place EXCEPT ![l] = p]
            /\ call' = SawLoad(call, l, p)
  /\ UNCHANGED <<platform, fixed, object, walker>>

UserUnload(l) ==
  /\ UserEnds(l, "unload")
  /\ user[l] > 0
  /\ user' = [user EXCEPT ![l] = @ - 1]
  /\ Close(l, call)
  /\ UNCHANGED <<platform, fixed, object, walker>>

-----------------------------------------------------------------------------
(* The functions, between their first step and their last *)

Idle(t) == ~Busy(call[t]) /\ object[t] = NoObject

Is(t, pc) == call[t].pc = pc

\* The call of t goes on as c.
GoesOn(t, c) == call' = [call EXCEPT ![t] = c]

Begun(op, pc) == [NoCall EXCEPT !.op = op, !.pc = pc, !.steady = {list[k] : k \in DOMAIN list}]

New(header, handle, slide, raced) ==
  [header |-> header, handle |-> handle, slide |-> slide, owning |-> TRUE, raced |-> raced]

Holds(t, o) == object' = [object EXCEPT ![t] = o]

\* The destructor of the last copy of a module object closes its handle.
Destroy(t) ==
  LET o == object[t] IN
  /\ ~Busy(call[t]) /\ o # NoObject
  /\ Holds(t, NoObject)
  /\ IF o.owning /\ o.handle # NoImage
     THEN GoesOn(t, [Begun("none", "release") EXCEPT !.held = o.handle])
     ELSE UNCHANGED call
  /\ UNCHANGED loader

-----------------------------------------------------------------------------
(* Windows: one call of the system does it all *)

\* get_process_module takes no reference.
WinGetProcessModule(t) ==
  /\ platform = "win32" /\ Idle(t)
  /\ Holds(t, [New(place[Main], Main, place[Main], FALSE) EXCEPT !.owning = FALSE])
  /\ UNCHANGED <<loader, call>>

WinTake(t, l) ==
  /\ Open(l)
  /\ Holds(t, New(place[l], l, place[l], FALSE))
  /\ UNCHANGED <<platform, fixed, list, place, user, call, locks>>

WinGetModule(t) ==
  /\ platform = "win32" /\ Idle(t)
  /\ \E l \in Images : Loaded(l) /\ WinTake(t, l)

WinModuleAt(t) ==
  /\ platform = "win32" /\ Idle(t)
  /\ \E p \in Places \cup {MainPlace} : \E l \in At(p) : WinTake(t, l)

-----------------------------------------------------------------------------
(* Linux *)

\* The handle of the name; a name that is not loaded ends the call at once.
OpenNamed(t, l, op, pc, must) ==
  /\ Idle(t) /\ Loaded(l) /\ MayLoad
  /\ Open(l)
  /\ GoesOn(t, [Begun(op, pc) EXCEPT !.name = l, !.held = l, !.must = must,
                                     !.count = Len(list)])
  /\ UNCHANGED <<platform, fixed, list, place, user, object, locks>>

LinuxGetModule(t) ==
  /\ platform = "linux"
  /\ \E l \in Images : OpenNamed(t, l, "get_module", "iterate", FALSE)

\* get_process_module is get_module of no name, and needs an answer.
LinuxGetProcessModule(t) ==
  /\ platform = "linux"
  /\ OpenNamed(t, Main, "get_module", "iterate", TRUE)

\* dl_iterate_phdr takes the lock of the list.
LinuxEnter(t) ==
  /\ Is(t, "iterate") /\ walker = NoThread
  /\ walker' = t
  /\ GoesOn(t, [call[t] EXCEPT !.pc = "walk"])
  /\ UNCHANGED <<platform, fixed, list, place, refs, user, object, loading>>

\* The end of the walk: the lock is given back.
LinuxLeave(t, pc) ==
  /\ walker' = NoThread
  /\ GoesOn(t, [call[t] EXCEPT !.pc = pc])

LinuxWalks(t) == Is(t, "walk") /\ call[t].op = "get_module"

LinuxEnd(t) ==
  /\ LinuxWalks(t) /\ call[t].i = Len(list)
  /\ LinuxLeave(t, "release")
  /\ UNCHANGED <<platform, fixed, list, place, refs, user, object, loading>>

\* Slip: the test for images that are not moved turned round.
LinuxOpenUnmoved(t) ==
  LET l == list[call[t].i + 1] IN
  /\ LinuxWalks(t) /\ call[t].i < Len(list)
  /\ IF Moved(l) # 0
     THEN /\ GoesOn(t, [call[t] EXCEPT !.i = @ + 1])
          /\ UNCHANGED refs
     ELSE /\ MayLoad
          /\ Open(l)
          /\ GoesOn(t, [call[t] EXCEPT !.pc = "compare", !.h = l])
  /\ UNCHANGED <<platform, fixed, list, place, user, object, locks>>

\* The callback skips images that are not moved, and opens any other.
LinuxOpen(t) ==
  LET l == list[call[t].i + 1] IN
  /\ LinuxWalks(t) /\ call[t].i < Len(list)
  /\ IF Moved(l) = 0
     THEN /\ GoesOn(t, [call[t] EXCEPT !.i = @ + 1])
          /\ UNCHANGED refs
     ELSE /\ MayLoad
          /\ Open(l)
          /\ GoesOn(t, [call[t] EXCEPT !.pc = "compare", !.h = l])
  /\ UNCHANGED <<platform, fixed, list, place, user, object, locks>>

\* Slip: an object with no handle of its own.
LinuxFoundUnheld(t) ==
  LET l == call[t].h IN
  /\ Is(t, "compare") /\ l = call[t].held /\ MayLoad
  /\ Holds(t, New(Moved(l), l, Moved(l), FALSE))
  /\ refs' = [refs EXCEPT ![l] = @ - 1]
  /\ walker' = NoThread
  /\ GoesOn(t, [call[t] EXCEPT !.pc = "release", !.h = NoImage])
  /\ UNCHANGED <<platform, fixed, list, place, user, loading>>

\* The object keeps the handle of the image it wants.
LinuxFound(t) ==
  LET l == call[t].h IN
  /\ Is(t, "compare") /\ l = call[t].held
  /\ Holds(t, New(Moved(l), l, Moved(l), FALSE))
  /\ walker' = NoThread
  /\ GoesOn(t, [call[t] EXCEPT !.pc = "release", !.h = NoImage])
  /\ UNCHANGED <<platform, fixed, list, place, refs, user, loading>>

\* Any other image is closed.  That may be the last reference: the image goes while
\* the walk is at it, and the walk goes on from there.
LinuxClose(t) ==
  LET l == call[t].h
      next == [call[t] EXCEPT !.pc = IF refs[l] = 1 THEN "fault" ELSE "walk",
                              !.i = @ + 1, !.h = NoImage, !.raced = @ \/ refs[l] = 1] IN
  /\ Is(t, "compare") /\ l # call[t].held /\ MayLoad
  /\ Close(l, [call EXCEPT ![t] = next])
  /\ UNCHANGED <<platform, fixed, user, object, locks>>

\* On Linux a thread that gives a handle back enters dlclose, ...
LinuxCloses(t) ==
  /\ platform = "linux" /\ Is(t, "release") /\ MayLoad
  /\ loading' = [does |-> "close", to |-> call[t].held, by |-> t]
  /\ UNCHANGED <<platform, fixed, list, place, refs, user, call, object, walker>>

\* Slip: the lock is kept.
ReleaseKeepsLock(t) ==
  LET c == call[t]
      quits == c.must /\ object[t] = NoObject IN
  /\ Is(t, "release")
  /\ platform = "linux" =>
       /\ loading = [does |-> "close", to |-> c.held, by |-> t]
       /\ ChangesList => walker = NoThread
  /\ Close(c.held, [call EXCEPT ![t] = [NoCall EXCEPT !.pc = IF quits THEN "aborted" ELSE "idle"]])
  /\ UNCHANGED <<platform, fixed, user, object, locks>>

\* ... and takes the image off the list if the handle was the last.  Both get_module close
\* the handle of the name as they return; get_process_module aborts when it is given nothing.
Release(t) ==
  LET c == call[t]
      quits == c.must /\ object[t] = NoObject IN
  /\ Is(t, "release")
  /\ platform = "linux" =>
       /\ loading = [does |-> "close", to |-> c.held, by |-> t]
       /\ ChangesList => walker = NoThread
  /\ loading' = Nothing
  /\ Close(c.held, [call EXCEPT ![t] = [NoCall EXCEPT !.pc = IF quits THEN "aborted" ELSE "idle"]])
  /\ UNCHANGED <<platform, fixed, user, object, walker>>

\* dladdr: the base of the image at the address, if there is one.
ModuleAt(t) ==
  /\ platform # "win32" /\ Idle(t)
  /\ \E p \in Places \cup {MainPlace} :
       /\ At(p) # {}
       /\ GoesOn(t, [Begun("module_at", IF platform = "linux" THEN "iterate" ELSE "count")
                       EXCEPT !.asked = p, !.seen = At(p)])
  /\ UNCHANGED <<loader, object>>

Return(t, o) ==
  /\ Holds(t, o)
  /\ GoesOn(t, NoCall)

LinuxFind(t) ==
  LET found == {l \in Images : Loaded(l) /\ Moved(l) = call[t].asked} IN
  /\ Is(t, "walk") /\ call[t].op = "module_at"
  /\ walker' = NoThread
  /\ \/ /\ found = {}
        /\ Return(t, NoObject)
        /\ UNCHANGED refs
     \/ \E l \in found :
          /\ MayLoad
          /\ Open(l)
          /\ Return(t, New(Moved(l), l, Moved(l), FALSE))
  /\ UNCHANGED <<platform, fixed, list, place, user, loading>>

-----------------------------------------------------------------------------
(* macOS: the walks by index *)

\* The executable is the first image and stays there.
MacGetProcessModule(t) ==
  /\ platform = "mac" /\ Idle(t)
  /\ Open(Main)
  /\ Holds(t, New(place[Main], Main, place[Main], FALSE))
  /\ UNCHANGED <<platform, fixed, list, place, user, call, locks>>

MacGetModule(t) ==
  /\ platform = "mac"
  /\ \E l \in Images : OpenNamed(t, l, "get_module", "count", FALSE)

MacStep(t, pc) == Is(t, pc) /\ UNCHANGED loader

MacCount(t) ==
  /\ MacStep(t, "count")
  /\ GoesOn(t, [call[t] EXCEPT !.pc = "header", !.count = Len(list)])
  /\ UNCHANGED object

NextImage(c) == [c EXCEPT !.pc = "header", !.i = @ + 1, !.header = Nowhere, !.h = NoImage]

\* The end of the loop: nothing was found.
MacEnd(t) ==
  /\ MacStep(t, "header") /\ call[t].i = call[t].count
  /\ GoesOn(t, IF call[t].held = NoImage THEN NoCall ELSE [call[t] EXCEPT !.pc = "release"])
  /\ UNCHANGED object

\* Slip: an image at any base.
MacHeaderAnyBase(t) ==
  LET c == call[t] IN
  /\ MacStep(t, "header") /\ c.i < c.count
  /\ GoesOn(t, IF PlaceAt(c.i) = Nowhere THEN NextImage(c)
               ELSE [c EXCEPT !.pc = IF c.op = "get_module" THEN "magic" ELSE "name",
                              !.header = PlaceAt(c.i)])
  /\ UNCHANGED object

\* _dyld_get_image_header: get_module goes on with any image, module_at with the one at
\* the base it looks for.
MacHeader(t) ==
  LET c == call[t] IN
  /\ MacStep(t, "header") /\ c.i < c.count
  /\ GoesOn(t, IF PlaceAt(c.i) = Nowhere THEN NextImage(c)
               ELSE IF c.op = "get_module" THEN [c EXCEPT !.pc = "magic", !.header = PlaceAt(c.i)]
               ELSE IF PlaceAt(c.i) = c.asked THEN [c EXCEPT !.pc = "name", !.header = PlaceAt(c.i)]
               ELSE NextImage(c))
  /\ UNCHANGED object

\* is_valid_header reads the header, which may have been unmapped.
MacMagic(t) ==
  /\ MacStep(t, "magic")
  /\ GoesOn(t, [call[t] EXCEPT !.pc = IF At(call[t].header) = {} THEN "fault" ELSE "name"])
  /\ UNCHANGED object

\* _dyld_get_image_name: the name of the image the index refers to now.
MacName(t) ==
  /\ MacStep(t, "name")
  /\ GoesOn(t, [call[t] EXCEPT !.pc = "open", !.h = ImageAt(call[t].i)])
  /\ UNCHANGED object

\* Slip: the handle of an image that is not looked for is kept.
MacOpenLeaks(t) ==
  LET c == call[t]
      opened == IF Loaded(c.h) THEN c.h ELSE NoImage IN
  /\ Is(t, "open")
  /\ GoesOn(t, IF c.op = "get_module" /\ opened # c.held
               THEN NextImage(c)
               ELSE [c EXCEPT !.pc = "slide", !.h = opened])
  /\ IF opened = NoImage THEN UNCHANGED refs ELSE Open(opened)
  /\ UNCHANGED <<platform, fixed, list, place, user, object, locks>>

\* dlopen of that name; get_module drops the handle of an image it does not look for.
MacOpen(t) ==
  LET c == call[t]
      opened == IF Loaded(c.h) THEN c.h ELSE NoImage IN
  /\ Is(t, "open")
  /\ IF c.op = "get_module" /\ opened # c.held
     THEN GoesOn(t, NextImage(c)) /\ UNCHANGED refs
     ELSE /\ GoesOn(t, [c EXCEPT !.pc = "slide", !.h = opened])
          /\ IF opened = NoImage THEN UNCHANGED refs ELSE Open(opened)
  /\ UNCHANGED <<platform, fixed, list, place, user, object, locks>>

\* _dyld_get_image_vmaddr_slide, and the object is made.
MacSlide(t) ==
  LET c == call[t] IN
  /\ MacStep(t, "slide")
  /\ Holds(t, New(c.header, c.h, PlaceAt(c.i), c.raced))
  /\ GoesOn(t, IF c.held = NoImage THEN NoCall
               ELSE [c EXCEPT !.pc = "release", !.h = NoImage])

-----------------------------------------------------------------------------
Walk(t) ==
  \/ LinuxEnter(t) \/ LinuxEnd(t) \/ LinuxOpen(t) \/ LinuxFound(t) \/ LinuxClose(t)
  \/ LinuxFind(t) \/ LinuxCloses(t) \/ Release(t)
  \/ MacCount(t) \/ MacEnd(t) \/ MacHeader(t) \/ MacMagic(t) \/ MacName(t)
  \/ MacOpen(t) \/ MacSlide(t)

Starts(t) ==
  \/ WinGetProcessModule(t) \/ WinGetModule(t) \/ WinModuleAt(t)
  \/ LinuxGetModule(t) \/ LinuxGetProcessModule(t) \/ ModuleAt(t)
  \/ MacGetProcessModule(t) \/ MacGetModule(t)

Alive == \A t \in Threads : call[t].pc \notin {"fault", "aborted"}

Next ==
  /\ Alive
  /\ \/ \E l \in UserLibs[platform] : UserBegins(l) \/ UserLoad(l) \/ UserUnload(l)
     \/ \E t \in Callers[platform] : Starts(t) \/ Walk(t) \/ Destroy(t)

\* A thread inside one of the functions keeps running, and so does one inside dlopen
\* or dlclose.  A thread that waits for a lock others take and give back over and over
\* gets it in the end.
LinuxUserEnds ==
  Alive /\ platform = "linux" /\ \E l \in UserLibs[platform] : UserLoad(l) \/ UserUnload(l)

Spec ==
  /\ Init /\ [][Next]_vars
  /\ SF_vars(LinuxUserEnds)
  /\ \A t \in Threads : SF_vars(Alive /\ Walk(t))

-----------------------------------------------------------------------------
(* Properties *)

\* The addresses of images, and those of objects that are not known or are not moved.
Bases == Places \cup {MainPlace}
AnyBase == Bases \cup {Nowhere, 0}

PCs == {"idle", "fault", "aborted", "release", "iterate", "walk", "compare",
        "count", "header", "magic", "name", "open", "slide"}

Call == [pc : PCs, op : {"none", "get_module", "module_at"}, name : Images \cup {NoImage},
         asked : AnyBase, held : Images \cup {NoImage}, must : BOOLEAN, i : Nat, count : Nat,
         header : AnyBase, h : Images \cup {NoImage}, steady : SUBSET Images,
         seen : SUBSET Images, raced : BOOLEAN]

Object == [header : AnyBase, handle : Images \cup {NoImage}, slide : AnyBase,
           owning : BOOLEAN, raced : BOOLEAN]

TypeOK ==
  /\ platform \in Platforms /\ fixed \in BOOLEAN
  /\ list \in Seq(Images)
  /\ place \in [Images -> Bases \cup {Nowhere}]
  /\ refs \in [Images -> Nat] /\ user \in [Images -> 0 .. MaxUser]
  /\ call \in [Threads -> Call] /\ object \in [Threads -> Object]
  /\ walker \in Threads \cup {NoThread}
  /\ loading \in [does : {"nothing", "load", "unload", "close"}, to : Images \cup {NoImage},
                 by : Threads \cup {NoThread}]

\* process.hpp:18: the image of a module object is loaded as long as the object exists,
\* and the object's address and slide are that image's.  On macOS this needs that no
\* image was unloaded while the object was being made.
Pinned ==
  \A t \in Threads :
    object[t] # NoObject /\ ~object[t].raced =>
      /\ object[t].handle # NoImage /\ Loaded(object[t].handle)
      /\ object[t].header = AddressOf(object[t].handle)
      /\ object[t].slide = AddressOf(object[t].handle)

\* The handles a thread may have: that of its object, that of the name it was asked for,
\* and that of the image its walk is at.
Kinds == {"object", "name", "image"}

HeldAs(c, o, kind) ==
  IF kind = "object" THEN (IF o.owning THEN o.handle ELSE NoImage)
  ELSE IF kind = "name" THEN c.held
  ELSE IF c.pc \in {"slide", "compare"} THEN c.h ELSE NoImage

Handles(l) == {e \in Threads \X Kinds : HeldAs(call[e[1]], object[e[1]], e[2]) = l}

\* Every reference taken from the loader is given back once: an image's count is that of
\* the rest of the program, of the objects, and of the calls that hold its handle.  An
\* image is unloaded exactly when that sum is nothing.
Balanced ==
  \A l \in Images :
    /\ refs[l] = user[l] + (IF l = Main THEN 1 ELSE 0) + Cardinality(Handles(l))
    /\ Loaded(l) <=> refs[l] > 0

\* A call takes the process down only where it cannot be helped: the image a walk is
\* at is gone only if it was unloaded during the walk (process.hpp:86 says nothing of
\* that), and get_process_module aborts only in a Linux executable that is not position
\* independent.
DiesOnly ==
  \A t \in Threads :
    /\ Is(t, "fault") => platform \in {"linux", "mac"} /\ call[t].raced
    /\ Is(t, "aborted") => platform = "linux" /\ fixed

Quits(t) == Busy(call[t]) /\ ~Busy(call'[t])

\* The images a call may return.
Wanted(c) == IF c.op = "get_module" THEN {c.name} ELSE c.seen

\* get_module finds the image it has a handle of, and module_at the image that has been at
\* the address all along; what they return is an image that was at the address, or has the
\* name, during the call.  An executable that is not position independent is not found on
\* Linux, and on macOS an unload may hide an image or show another in its place.
Found ==
  [][\A t \in Threads :
       Quits(t) /\ ~call[t].raced =>
         IF object'[t] = NoObject
         THEN Wanted(call[t]) \cap call[t].steady \subseteq (IF fixed THEN {Main} ELSE {})
         ELSE object'[t].handle \in Wanted(call[t])]_vars

\* The callback of t is about to call dlopen or dlclose.
WaitsToLoad(t) ==
  \/ LinuxWalks(t) /\ call[t].i < Len(list) /\ Moved(list[call[t].i + 1]) # 0
  \/ Is(t, "walk") /\ call[t].op = "module_at" /\ \E l \in Images : Loaded(l) /\ Moved(l) = call[t].asked
  \/ Is(t, "compare") /\ call[t].h # call[t].held

\* The walk waits for the lock of dlopen and dlclose, and who has it waits for that of the
\* list: neither ever goes on.
Deadlocked ==
  /\ ~MayLoad /\ ChangesList
  /\ \E t \in Threads : walker = t /\ WaitsToLoad(t)

\* Every call ends, whatever the rest of the program loads and unloads meanwhile, unless
\* on Linux a walk meets another thread, of the program's or in the library, that loads or
\* unloads an image.
Returns ==
  \A t \in Threads : Busy(call[t]) ~> (~Busy(call[t]) \/ ~Alive \/ Deadlocked)
=============================================================================
