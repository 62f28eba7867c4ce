# libhat in TLA+

A verification project for [libhat](../src/README.md): the signature scanner and
how it is picked for the processor, the functions that build signatures, the
memory protector, the queries about the process and its modules, copy on write,
the objects of the C interface, and the Java and Python wrappers over them. The
modules are checked with TLC on small instances. Every safety property a passing
run checks is also proved with TLAPS, for all values of the constants: that the
scanner and `find_all_pattern` are correct, that the parser accepts and denotes what
it should and every signature may be given to the scanner, that a scanner is picked
only if it runs, that memory protectors put pages back, what a yes and a no of a region
query mean, that module objects pin their image and calls find the right one, that
every thread is told the same of it and the truth, that `cow` owns memory once and
keeps values, what the checks of the C interface catch, and that the wrappers keep its
rules and lose no object. Liveness is model-checked.

File names below are relative to the repository. `scanner.hpp` and the other
headers are in `include/libhat`, and "C interface" is `bindings/c/src/libhat.cpp`.

## 1. The system

libhat is a library. It starts no threads and keeps almost no state of its own;
its state is what one call builds up, the objects it hands out, and the address
space and the loader it shares with the rest of the program.

| Part | Code | State | Operations | Uses |
|---|---|---|---|---|
| Scanner | `scanner.hpp`, `src/Scanner.cpp`, `src/Utils.hpp`, `src/arch/*` | `scan_context`: the byte or pair to look for, the scanner chosen; within a scanner the three segments, a pointer, a mask of lanes | `find_pattern`, `scan_context::create`, `scan_context::scan`, the per-byte scanner, SSE, AVX2, AVX-512 and Neon | signatures, CPU features, frequency tables |
| Find all | `scanner.hpp:356-434` | the search position, the output written | two root overloads of `find_all_pattern` | scanner |
| Signatures | `signature.hpp`, `strconv.hpp`, C interface | the word being parsed, the elements written | `parse_signature`, `compile_signature`, `bytes_to_signature`, `string_to_signature`, `to_string`, `libhat_create_signature` | - |
| Memory protector | `memory_protector.hpp`, `src/os/*/MemoryProtector.cpp` | address, size, old protection, whether it is set; the protections of the pages | constructor, move constructor, destructor | the system's calls |
| Region queries | `src/os/*/Process.cpp` | how far the walk has come | `is_readable`, `is_writable`, `is_executable` | the system's calls, `/proc/self/maps` |
| Process modules | `process.hpp`, `src/os/*/Process.cpp` | a reference to an image; on Linux the lazily loaded section table | `get_process_module`, `get_module`, `module_at`, sections, segments, symbols | the loader |
| C interface | `bindings/c` | magic number, type and destructor of every object | objects made, used and freed | all of the above |
| Language bindings | `bindings/java`, `python`, `cs` | a pointer of the C interface | wrappers with `close`, searches for a text | C interface |
| Copy on write | `cow.hpp` | a view with an allocator, an owned container, or nothing | construction, assignment, `owned`, `ensure_owned`, `emplace`, access | - |
| CPU features, system information | `system.hpp`, `src/arch/*/System.cpp`, `src/os/*/System.cpp` | a static object: the features and the page size, zero until it is filled in | its constructor; readers in `resolve_scanner` and the Linux memory protector | `cpuid`, XCR0, the system |
| Others | results, strings, compile-time helpers, call wrapper, `find_vtable` | none | - | scanner |

How the parts interact: `find_pattern` takes a signature, whose promise (one
fully masked byte) the scanner depends on; `find_all_pattern` repeats the search
of one `scan_context`; the overloads that take a module search its sections, and
the user is told to ask `is_readable` first; the C interface wraps signatures and
modules in objects, and the bindings wrap those.

What is hard here:

* **Boundaries.** A vector scanner compares whole vectors, in a range whose ends
  are not aligned, for a byte that is not the first of the signature, with a
  stride that has nothing to do with either. Errors show for one alignment of
  the buffer, one offset and one stride, and only if a match lies on a seam.
* **A world that moves.** Other threads protect, map and unmap pages during
  `is_readable` and the memory protector's constructor, and load and unload
  images during `get_module`. None of the walks is atomic.
* **Before `main`.** The static object that says what the processor can do is read
  by threads that do not wait for it.
* **Views.** A `cow` may look at what another one owns, under allocators that do or
  do not go along with an assignment, and lose its value when memory runs out.
* **Order.** Memory protectors on one page have to be destroyed newest first, on
  the thread or the pages where they were made.
* **Misuse across a language border.** A pointer may come back twice, from two
  threads, or as something else. The wrappers that should prevent it lock nothing.

What makes each part correct is the list of properties in section 5. The places
in the code where something can go wrong that a test would hardly reach are the
`hazards` of `PROJECT.json`, each with the properties that guard it.

## 2. Modules

```
Pattern  --- bytes, elements, matches: the vocabulary
  |-- Search        the arguments of a search
        |-- ScanSpec      what find_pattern promises, in one atomic step
        |-- Scanner       what it does  (+ Alignment: AlignUp)
        |     |-- ScannerProps    properties, inductive invariant, refinement of ScanSpec
        |           |-- MCScanner        instances
        |-- FindAll       repeated searches         MCFindAll
              |-- ScannerProofs    theorems about ScannerProps and FindAll
Signature           parser and printer        MCSignature
  |-- SignatureProofs      theorems
AddressSpace        pages and their protection
  |-- MemoryProtector     objects over pages        MCMemoryProtector
  |-- RegionQuery         walks over regions        MCRegionQuery
        |-- AddressSpaceProofs   theorems about both
Modules             module objects, loader    MCModules
  |-- ModulesProofs        theorems
Sections            what a module object says of its image  MCSections
  |-- SectionsProofs       theorems
Cow                 views and owned values    MCCow
  |-- CowProofs            theorems
System              features, page size, the scanner picked   MCSystem
  |-- SystemProofs         theorems
CApi                objects of the C interface
  |-- Bindings             Java and Python over CApi    MCBindings
        |-- CApiProofs     theorems about both
```

The modules whose name begins with `MC` only give values to constants. A
definition that a comment marks as a *slip* is a wrong variant of the one behind
it, the mistake one would make there; no specification uses it. For every
property of every passing run, `PROJECT.json` names a slip with which TLC finds
the property violated, so that no property holds for lack of a chance to fail.

### Scanner

One behaviour is one call of `find_pattern`: an instruction set, hints, a memory,
a range and a signature are chosen in `Init` and never change.

| Code | Model |
|---|---|
| `scan_context::create`, `apply_hints`, `resolve_scanner` | `Create` with `FirstAll`, `Pairs`, `BestPair`, `ApplyHints`, `Resolve`; sets `cmpIndex`, `pairIndex`, `isa` |
| `scan_context::scan` | `TooShort`, `Dispatch` |
| `segment_scan` | `SegmentScan`: head, vectors and tail, as three spans in `segs` |
| `find_pattern_single` and its stride-1 variant | `Stride`, `SingleStep`, used for a whole range, a head and a tail |
| the loops of SSE, AVX2, AVX-512 and Neon | `LoadVector` (the mask of candidate lanes), `TestLane` (the comparison at one lane, lowest first), `NextVector`, `VecDone` |

The four vector files have the same structure, so each step is modelled once and
what differs is a parameter or a case: the width, whether AVX-512 and AVX2 have
their shortcut for signatures that fit in a vector (`VecCmp`), where Neon takes
its second load from, and how lanes are rotated. The map names one of the files
for each step; the others repeat it with their own intrinsics.
`read` is the range of addresses the last step read, `lanes` the lanes still to
be tested. A memory is a constant during a call.

`std::find` and `std::equal` are taken for what they promise, and a byte compare
or a mask intrinsic for the set of lanes it yields. Element comparison is
equality under a mask, so an element is modelled by the set of bytes it is equal
to (`Pattern`), and the module `Signature` shows that the code's elements are
such sets.

### FindAll

Both root overloads of `find_all_pattern`, with the search as the atomic step
that `Scanner` is proved to implement. `Resume` is the caller that empties its
output range and goes on where the first result says the search stopped.

### Signature

A character is the number it stands for as a digit, a wildcard, or neither; a
text is the sequence of what lies between its spaces, so that runs of spaces are
empty words. `EmptyWord`, `Wildcard`, `Masked` and the three error actions are the
branches of the loop over words in `parse_signature_to`, `Finish` what follows it.
`Reparse` prints a parsed signature with `to_string` and parses what it printed.
Arithmetic on bytes wraps (`Uint8`). What the digits of a word make of the byte is a
recursive function (`Number`), so that it can be proved about.

### MemoryProtector

`prot` (in `AddressSpace`) is what the system keeps for every page. On Linux and macOS a constructor
is two steps, `Query` and `Protect`, because the old protection is read by one
system call and changed by another; on Windows it is `VirtualProtect` alone.
`Changed` says what the system's calls do, including that `mprotect` stops at a
hole with the pages before it changed; `ToSystemProt` that Windows has no protection to
write and not to read. Four disciplines of use are told apart: `nested` (one thread, a
stack), `disjoint` (threads on different pages), `lifo` (threads that destroy the objects
on a page last in first out) and `free`. The properties hold of the first two everywhere
and of `lifo` on Windows only (`Orderly`): elsewhere another thread can change a page
between `Query` and `Protect` although all objects are destroyed in turn, and what is put
back in the end is then the wrong protection (section 4).

### RegionQuery

The behaviours are those of `QuerySpec`. One action is one iteration of the loop, with one answer of the system: a line of
`/proc/self/maps`, one `VirtualQuery`, one `mach_vm_region`. Between any two,
`Change` maps, unmaps or protects a page. `had`, `lacked`, `holes` and `changed`
remember what the pages were during the call; nothing reads them but properties.

### Modules

The loader keeps a list of images, a place and a reference count for each; the
last reference unloads. `UserLoad` and `UserUnload` are the rest of the program,
other threads included. On Windows a call is one step. On Linux the loader has two
locks: `loading` is that of `dlopen` and `dlclose`, and `walker` that of the list,
which `dl_iterate_phdr` holds while it calls back and `dlclose` takes inside the
other. This holds of the rest of the program (`UserBegins`, then `UserLoad` or `UserUnload`) and of
the library's own threads: `Destroy`, the destructor, hands its handle to
`LinuxCloses`, which enters `dlclose` and takes `loading`, and `Release`, which waits for
`walker` if the image has to come off the list; a call that gives back the handle of
a name does the same. Each image a walk meets is opened, compared and closed in steps of its own,
under the first lock while the second is held. On macOS `_dyld_get_image_header(i)`, the
read of the header, `_dyld_get_image_name(i)`, `dlopen` and
`_dyld_get_image_vmaddr_slide(i)` are steps of their own, and the list may change
between them. A header that is read after it was unmapped is the outcome `fault`;
`abort` is the outcome `aborted`; either ends the behaviour. `Callers` and `UserLibs`
are bounds: which threads call the library, and which images the rest of the program
loads and unloads, on each platform.

### Sections

One module object, shared by threads, and queries of it. On Windows and macOS a
query reads headers in memory, which stay as they are while the object pins the
image, and is the one step `Return`. On Linux every query but that of the segments
goes through `call_once`: `Enter` is the thread that is let in, `Open`, `OpenFails`,
`Read`, `ReadFails` and `Throws` are what it may meet in `init_sections`, and a thread
whose query finds the flag `running` has no step until it is `done` or, after an
exception, `unset`. All early returns of `init_sections` come before the first
entry is made and are one action, `ReadFails`, with the failure to open apart.
`Replace` is the rest of the system, which removes or replaces the file. What is
answered depends on system, headers and table alone and is given by operators
that have these as parameters (`Answer`). A name is a number, ordered as the map
orders it; `source` and `seen` are history.

### Cow

A place is memory that holds a value: a container of the program or a buffer of an
owned value. `cow` has a variant for each cow: a view of a place with an allocator,
an owned buffer with its allocator in it, or no value, after `emplace_owned` has
destroyed the old one and the new one could not be made. Constructors, assignments,
`owned`/`ensure_owned` and `emplace_*` are an action each, split where the allocator
decides (`MoveAssignVariant`, `MoveAssignKeeping`); each has the outcome in which
memory runs out, where the code allocates. What is seen of an owner may be used
until that one is assigned, modified, moved from or destroyed; `stale` are the cows
the program must not read any more, `means` the value it expects of each.

### System

One behaviour is one machine and one build, the start of the process up to and
including the constructor of the static object, flag by flag, one call of
`resolve_scanner<Auto>` and one protector at any moment of it. `Answer` is one
condition of the chain of `if`s, which reads the flags anew. A build may only be
compiled for instructions that the machine can run.

### CApi

Objects live at addresses that are reused. Each has its magic number, its type or
the tombstone, and an identity that only properties look at. `CallOf` is the entry of
any function that takes objects, with its checks for null; `CheckType` is one
step for each object argument and ends in an error or in `Use`, and `libhat_free` is
three: `CheckMagic`, `Exchange` (atomic, as in the code) and `Destroy`. The program
passes null, any pointer it was ever given, and a pointer to
something else, to any function, from any thread; `Overwrite` is the allocator writing
to memory that is free. `misuse` remembers which rules the program has broken;
`due` is the effect the table in `bindings/c/README.md:45` gives the arguments of a
call, and `broken` whether some call had another.

### Bindings

`Bindings` extends `CApi` with the wrappers: a behaviour is either that of a C program
or of one that only uses wrappers, each from the thread that made it or, if `shared`,
from all. A method is `Read` (the pointer is read from the wrapper, or the method
throws), `Enter` (`CallOf` of the C interface) and `Return`; `close()` is `Close`,
`EnterFree` (`FreeOf`) and `Freed`, which forgets the pointer; between any two, other
threads run. `FindText`, `Text` and the same `Close` are the overloads that take a
text: `try (Signature sig = ...)` in Java, `with` in Python. The code reads the handle
once more between looking and freeing, and reads two handles one after the other;
both at once loses nothing, since what a later read can find in addition is null,
which throws or is freed without effect.

## 3. Runs

All times are with two workers.

| Run | Distinct states | What it shows |
|---|---|---|
| `scanner_small` | 469,915 | every scanner with vectors of 2 and 4 bytes: heads, vectors, tails, seams, all hints |
| `find_all` | 107,292 | nothing lost or repeated when the output fills up |
| `protector` | 440,533 | protectors in disciplined use restore every page |
| `protector_set` | violation | on Linux `is_set()` with the last page unchanged |
| `signature` | 15,043 | the parser accepts and denotes exactly what README says |
| `region_query` | 144,884 | what yes and no mean while pages change |
| `region_query_holes` | violation | on macOS a range with holes is readable |
| `sections` | 211,788 | one answer for all threads, the image's own unless the file was gone |
| `modules` | 140,205 | objects pin their image; references balance; the right image; calls end but for one deadlock |
| `cow` | 129,680 | memory owned once, values kept, allocators kept |
| `system` | 1,109,240 | the scanner picked runs, and is the widest |
| `capi` | 256,094 | what the checks of the C interface catch, and that wrappers cause no misuse |

### Bounds, and why they are enough

* `scanner_small`: 15 addresses, bytes 0 and 1, memories with at most two ones, twelve
  signatures of one to five elements. The vectors of SSE and AVX2 have 2 bytes and those
  of AVX-512 and NEON 4, so that for each of them there are ranges of no vector, one and several, heads and tails of every length, signatures
  shorter and longer than a vector, compared bytes in front of and behind the
  first vector, pairs that straddle two vectors, strides that do and do not divide
  the offset. The real widths of 16 to 64 bytes are within the proofs, which hold for
  all widths.
* `find_all`: all 128 memories of 7 bytes, capacities 0 to 2, hence calls that are
  resumed up to four times and matches that overlap.
* `signature`: texts of up to three words of sixteen kinds: all lengths the code
  tells apart and their neighbours, digits legal in one base only, wildcards at
  every place that matters. Every element is compared with all 256 bytes.
* `protector`: three objects on two pages and a hole, sizes 0, 2 and 3 with pages of 2
  bytes. Two objects can overlap on either page or both and the third tells order
  from pairing.
* `region_query`: four pages, one change at any point of the walk, regions merged
  and split. A walk makes at most four queries, so one change already falls before,
  between and behind all that matter.
* `modules`: three images and two places, so that an image may be loaded where
  another was, and up to two references of the rest of the program to each (`MaxUser`). On Windows and macOS one thread
  calls the library; other callers act on the loader only as `UserLoad` and `UserUnload`
  do. On Linux two threads call it, since what one does under the two locks can block
  the other, and the rest of the program loads and unloads one of the images.
* `sections`: two threads and three calls: one that reads the table, one that comes
  meanwhile, one after. Five images hold what the code treats differently: entries
  that are not loaded, names that are missing, doubled or out of order, an empty
  standard section, a segment without protection, no sections at all. The file may
  be each of the four things the code tells apart, and may change at any time.
* `cow`: two cows, one container of the program and three buffers: a cow can view the
  container, the other cow or nothing, and both can own while a third value is being
  made. Two allocators, one of them the default. Cows and buffers are symmetric. The
  proofs hold for any number.
* `system`: every set of features that x86 and ARM processors can report, lengths
  of CPUID with all leaves, without the seventh and with none, every set of saved registers, and builds for each level of x86-64.
* `capi`: two threads, two addresses and two objects, the fewest for a free that
  overlaps another and for an address that is reused; a C program and a program of
  wrappers, used by one thread each or shared. Threads and addresses are
  symmetric, and no property of the run is a liveness property. The proofs hold for
  any number.

Deadlock is not checked: calls return, and a behaviour ends when the bound on what
the program may do is reached or the process is gone.

### Fairness

Almost nothing in the code waits, so that the assumption is in general that a thread
inside a call keeps running: `WF_vars(Next)` where a behaviour is one call
(`Scanner`, `FindAll`), `WF_vars(Walk)` where others act too (`RegionQuery`)
and `WF_vars(Step(t))` for each thread of `Sections`, where a caller has to be let in
or let by; with calls without end, callers that keep failing with an exception
could keep another from being let in, which the bound on calls excludes.

In `Modules` a walk on Linux needs the loader's lock for every image, which the rest of
the program may take again and again. `SF_vars(Alive /\ Walk(t))` says that a thread
that waits for a lock that is released again and again gets it in the end, and
`SF_vars(LinuxUserEnds)` that whoever is inside `dlopen` or `dlclose` comes out if it
can. Weak fairness would not do, since the locks are not free all the time: the rest of
the program may take that of the loader, and two walks in turn that of the list, again and again. That a
mutex is handed to each waiter in the end is what the scheduler and glibc give in
practice, not a promise of either. Nothing is assumed of the
other threads beyond that, which may change the world between any two steps or
never. The other modules state no liveness and need no fairness.

## 4. Where code and documentation disagree

Two are runs that end in a violation; `PROJECT.json` has the quotations.

* On Linux the length passed to `mprotect` ignores how far into its page the range
  starts; the last page may stay as it was while `is_set()` is true
  (`SetMeansProtected`).
* On macOS the region queries skip holes (`YesMeansAll`).

The others have no run of their own. They are conditions of a property, or hazards:

* `find_all_pattern` can return a position behind the end of the input, with a
  stride of 4 or 16, a full output range and a match near the end.
* On Linux and macOS two protectors of two threads on one page can leave it with what the
  other one asked for, even if they are destroyed in turn, when both have read the
  protection before either changes it; `src/README.md:354` promises the original
  (`Orderly`).
* A memory protector over two regions gives both the first one's protection when
  it is destroyed (`DisciplinedRestores` is about ranges in one region).
* A memory protector made by a static object before the page size is known passes a
  length of zero, and is set (`SetMeansMemory`).
* On Linux `get_module` never returns if another thread is inside `dlclose`, which has
  one lock of the loader and waits for the other, while the walk has that one and opens an image.
  The other thread may be the program's, or in the destructor of a module object or at the end
  of another `get_module` (`Returns`); and when the program closes the image the walk is at, the handle the
  callback gives back is the last, and the image is gone under the walk (`DiesOnly`).
* An unload during a walk on macOS may yield an object with the address of one image
  and a handle of another (`Pinned` and `Found` are stated for walks without one).
* On Linux an executable that is not position independent is not found, and
  `get_process_module` aborts (`DiesOnly`, `Found`).
* `get_executable_data` on macOS returns nothing when it has to fall back, where
  `process.hpp:33` promises the first executable region, and on
  Linux takes the first executable section in the order of names, which may be an
  empty one (`ExecutableFound`).
* `libhat_free` and the checks of types catch misuse only if calls do not overlap and
  the address has not been reused (`MisuseCaught`): a stale pointer whose memory holds a new
  object frees that one, where `bindings/c/README.md:47` promises `std::terminate`; `libhat_parse_signature` takes a
  null text for a string, where `bindings/c/README.md:51` promises an error.
* The `noexcept` of the move constructor of `cow` is inverted (`cow.hpp:120`): a
  vector that grows copies cows where it could move them, and the reverse.
* In the bindings: `find_pattern_mod` of Python raises a `TypeError` when nothing is
  found, where its annotation says `None`; a view of an empty section fails in Python;
  Java's `findPattern` throws a `NullPointerException` for a closed signature, where its
  documentation says `IllegalArgumentException`; the declarations of the C# bindings
  have neither the parameters nor the statuses of the C interface.

## 5. Properties

Every module has one type invariant; where it is proved, or says little, it is not
among the properties of a run. The others:

**Scanner.** `ReadsInBounds`: no load leaves the caller's range. `LoadsAligned`:
aligned loads are of aligned addresses. `RuledOut`: what the pointer has passed is no match, at every
step. `ReturnsFirstMatch`: the answer is the lowest aligned match or null.
`ImplementsScanSpec`: every behaviour is one of `ScanSpec`. `Terminates`.

**FindAll.** `FoundExactly`: what has been written is exactly the matches up to the
search position, ascending, however the calls are cut.
`FindsAll`: a caller that resumes has all of them in the end.

**Signature.** `Denotes`: each element is equal to exactly the bytes its word stands
for. `AcceptsExactly`: a text is accepted if and only if it is well formed and has
a byte without wildcards. `Scannable`: whatever built it, a signature has the
byte the scanner depends on. `FitsCompiled`: the array of `compile_signature` is
large enough during the whole parse. `SurvivesPrinting`: what is printed can be
parsed, and is the same unless a nibble was masked in part next to a full one.

**MemoryProtector.** Both are stated for orderly use. `Layered`: on every page the objects form a stack whose saved
protections are those of the layer below. `DisciplinedRestores`: when none is
left, every page has what it had.

**RegionQuery.** `YesMeansFlagged`: after a yes, every page had the flag at some time
during the call, or was a hole on macOS. `NoMeansSome`: after a no, some page
lacked it, or the region is empty or was changed during a walk on Linux.
`Answers`: the walk ends. The condition on Linux in `NoMeansSome` is real: the
lines of the file belong to different moments, and a page that is joined with the
one before it, already read, looks like a gap.

**Modules.** `Pinned`: an object's image is loaded and its address is that image's.
`Balanced`: every reference is given back exactly once. `DiesOnly`: when a call may
take the process down. `Found`: the image that was there all along is found, and
what is returned was there. `Returns`: calls and destructors end, but for the deadlock of section 4.

**Sections.** `OneAnswer`: the same query always has the same answer, for whatever
thread and file. `Truthful`: the answer is the image's own, unless on Linux the
file was gone or another when first read. `ExecutableFound`: executable code is
found if there is any, on Linux without a file too; on macOS only the standard
section. `Returns`: nobody waits for ever for the one that reads.

**Cow.** `BuffersAccounted`: memory is owned by one cow, which has the allocator it
came from. `ReadsAsExpected`: a cow reads as the value it was given, whatever is done
to the others, as long as no view outlives what it sees. `TerminatesOnlyValueless`: an
exception ends the process only when a cow has lost its value.
`AllocatorKept`: the changes between view and owned value keep the allocator.

**System.** `OnlyUsable`: at whatever moment of the start, a scanner is picked only if
processor and system can run it. `WidestUsable`: after the start it is the widest of
those. `SetMeansMemory`: a protector that is set has passed memory to the system, unless
the page size was not known.

**CApi.** `DisciplinedSafe`: a program that passes live objects only and frees none in
use never meets undefined behaviour or termination, whatever the types it passes.
`MisuseCaught`: no misuse becomes undefined behaviour, unless calls overlap or memory
is reused. `EffectAsPromised`: every call has the effect of its arguments in the
table of the README, with the same exceptions. `DestroyedOnce`: concurrent frees run
one destructor, as long as the memory is left alone.

**Bindings.** `WrappersBehave`: wrappers that are not shared between threads never pass
a pointer to an object that is gone or in use, in whatever order their methods are
called, and every call that gets through succeeds. `NothingLost`: every object is in a
wrapper that can still be closed, or in a search for a text that will close it.

## 6. Proofs

The theorems of a component are in a module of their own. Two lemmas recur: that a
nonempty set of natural numbers has a least element, from the library's theorem that
`<` is well-founded on them, and, wherever one would use induction over data, an
argument by the least counterexample. All is proved for the constants
that satisfy the assumption of the module that declares them; TLC evaluates each
of these assumptions in a run. Except where it is named below, an assumption only says
what sort of value a constant is.

### Searches

`ScannerProofs` proves of `Scanner`:

| Theorem | Statement |
|---|---|
| `Invariance` | `Spec => []Inv` |
| `TypeCorrect` | `Spec => []TypeOK` |
| `NoOverread` | `Spec => []ReadsInBounds` |
| `AlignedLoads` | `Spec => []LoadsAligned` |
| `Coverage` | `Spec => []SegmentsCover`: head, vectors and tail leave no start out |
| `NothingSkipped` | `Spec => []RuledOut` |
| `Correct` | `Spec => []ReturnsFirstMatch` |
| `Refinement` | `Spec => Abstract!Spec`: every step is a step of `ScanSpec` or stutters |

Assumed are: a memory maps addresses to bytes; a signature is a nonempty sequence of
elements with one fully masked byte (what README requires, and `SignatureProofs`
proves of everything that builds one); strides are positive; a vector's width is a
multiple of every stride; ranges lie in memory. Pointer arithmetic is that of
integers: an address is not assumed to be near the end of the address space,
where the code's own sums could wrap.

The inductive invariant is `Inv` in `ScannerProps`. `ReturnsFirstMatch` alone is not
inductive: that the scanner may return null at the end needs that it has passed
every start, so `RuledOut` says after each step which starts are known not to
match; that the steps between the three segments lose none needs to know how the
segments meet, which `SegmentsOK` says (`VectorSegments` gives the three spans in
terms of two aligned addresses); that a vector load stays in the range needs the
distance of its pointer from the end, `PointerOK`; and that a candidate lane is
the only way to match needs that the byte looked for is fully masked, `ContextOK`.
The proof has a lemma for every action and, in it, a step for every part of the
invariant the action can disturb. The lemmas about `SegmentScan`, about the bounds
of the per-byte loop and about least elements are stated for any arguments.

Of `FindAll` it proves that every reachable
state has its types (`FindAllTypeCorrect`) and is `FoundExactly` (`Exact`). Here the
property is inductive as it stands (`Exactly` only says it of the concatenation of
what this call and the calls before it have written): two matches are at least a
stride apart, so that behind a match the next place to look at is no further than
the next match. What a search contributes is `NothingBetween`: no match lies
between where it began and what it found.

### Signatures

`SignatureProofs` proves for all texts of any length, bytes, strings and masks:

| Theorem | Statement |
|---|---|
| `TypeCorrect` | `Spec => []TypeOK` |
| `ElementsTidy` | `Spec => []Tidy`: no value has a bit outside its mask |
| `AlwaysScannable` | `Spec => []Scannable` |
| `ElementsDenote` | `Spec => []Denotes` |
| `AcceptanceIsExact` | `Spec => []AcceptsExactly` |
| `CompiledFits` | `Spec => []FitsCompiled` |
| `PrintingSurvived` | `Spec => []SurvivesPrinting` |

`Scannable` speaks of accepted signatures only, and whether one is accepted is
decided by `containsByte`, a flag carried from word to word. The inductive
invariant `IInv` therefore says what the flag means while a text is parsed
(`Remembered`), and that what has been written are elements, which is where an
appended element is told from those before it. This much holds whatever bits a word
yields, because the constructor cuts the value down to the mask.

The other theorems need what `ParseElement` computes. It is a loop over digits, hence a
recursive function, and that such a function takes the values of its equation is itself
something to prove: `Rounds` does so by the least round at which every function that
follows the equation so far gets stuck. A legal word has two digits or eight, so that
`NumberOf2` and `NumberOf8` unfold it, and the lemmas on `HexWord` and `BinaryWord`
find each bit of the sum in the digit it comes from: no product or sum leaves the
byte. `MeansWhatItSays` concludes that the element of a legal word is equal to a byte
exactly if each digit agrees with it, and `PrintedMeaning` that the word `to_string`
prints for an element means that element, but for what hex cannot show.

The second invariant, `ParseInv`, relates text and signature in the middle of a parse
(`Written`): of the words taken so far each is well formed, the element of the k-th is at
the place that counts the words before it that are not empty, and the flag is set exactly if one
of them is a byte without wildcards. A parse that ended in an error has a reason that is still
in the text (`Judged`), which `AcceptsExactly` needs in the other direction. What is
printed keeps a fully masked byte, so that parsing it again cannot fail (`Reprinted`).
For `FitsCompiled`, `size` counts the characters and a space between words (`Sized`);
`SizeBound` finds the least prefix of words with more than half as many elements.

### Sections

`SectionsProofs` proves for all threads, images, files and numbers of calls:

| Theorem | Statement |
|---|---|
| `SameAnswer` | `Spec => []OneAnswer` |
| `ReadOnce` | `Spec => []OneReader`: one thread at a time reads the file |
| `SectionsTold` | `Spec => []Truthful` |
| `CodeFound` | `Spec => []ExecutableFound` |

Two answers are equal because each is what would be answered now (`Standing`), and
that stays true because the table changes only while the flag is `running`, when
nothing that needs the table can have been answered yet. So the invariant needs
`OneReader`, and that queries that do not need the table do not depend on it
(`TableUnused`).

What `Standing` leaves to show of the two others is about values: what the operators of the
answer give for any table, image and name. `TableEntries` says that the table has an
entry for each name of a listed section, with the region of one that has it;
`SectionTold` does the same for the three ways to look up a name, and
`ExecutableTold` and `ExecutableExists` for the executable region. That the table is
the image's own when `FromImage` holds is a small invariant (`Sourced`): the table is
empty, or made from the file that `source` names.

### Memory protectors and region queries

`AddressSpaceProofs` proves, for any number of pages and any page size, of `MemoryProtector`

| Theorem | Statement |
|---|---|
| `ProtectorTypeCorrect` | `Spec => []TypeOK` |
| `GuardsStack` | `Spec => []Layered` |
| `PagesRestored` | `Spec => []DisciplinedRestores` |

and of `RegionQuery`

| Theorem | Statement |
|---|---|
| `QueryTypeCorrect` | `QuerySpec => []QueryTypeOK` |
| `YesHolds` | `QuerySpec => []YesMeansFlagged` |
| `NoIsJustified` | `QuerySpec => []NoMeansSome` |

The assumption worth naming is that the last page is not mapped in any layout, as in an
address space, whose end no program has; a range passed by a protector otherwise could
end behind the pages of the model.

`Layered` says of each page what the objects set on it, in the order they were set, have saved and
asked for. It is not inductive alone. That a moved object takes the place of the
one it came from, once, needs that `order` has no object twice and that those no
longer set are gone (`Linked`). A constructor on Linux and macOS reads a
protection in one step and changes it in the next, so between them the page must still
have what was read (`Ready`), or the change must fail, which on macOS it does when the query has
skipped a hole; and that it still has it comes from the discipline:
nobody else holds these pages, or no other constructor runs (`Disciplined`); with `lifo`
on Windows there is no between. The three
ways a step acts on a page are lemmas on stacks, `Sets`, `Unsets` and `MovesTo`, with
`Aside` for the pages it leaves alone. When nothing is set, the stack of
every page is empty, which is `DisciplinedRestores`.

`YesMeansFlagged` speaks of the end of a walk, so the invariant says it of what the walk has
passed (`Walked`), up to an address that is the start of the range or a page's.
That the walk moves by whole regions and misses no page between needs what regions are:
`RegionFacts` gives the first and last page of one, all of the same protection. For a no the
hard case is Linux, where a no may only come from a region that lacks the flag
unless the range was disturbed: `InStep` says that the line to be read next of an undisturbed
range is the one that follows, so that neither a gap nor the end of the file is met
within it. It needs that no region spans the place the walk has reached, which is
why a change that merges two regions counts as one to the second.

### Process modules

`ModulesProofs` proves for any number of threads, images and places:

| Theorem | Statement |
|---|---|
| `TypeCorrect` | `Spec => []TypeOK` |
| `ReferencesBalanced` | `Spec => []Balanced` |
| `ObjectsPinned` | `Spec => []Pinned` |
| `EndsOnlyThere` | `Spec => []DiesOnly` |
| `CallsFind` | `Spec => Found` |

The threads are assumed to be finitely many, without which a count of references
would not be a number. The invariant has a part about the loader's list (`ListOK`: an image is in it
once, and is loaded exactly if it has a place), the balance, and a part about each
call and object alone (`Fine`). So a step has to be looked at in two ways: what it does to its own
call, and what the list it leaves means for every other: nothing (`FineStill`), an
image more at the end (`FineGrown`), or one less, which makes the calls `raced` that
are in a walk (`FineShrunk`). The counting is done once, in `Recounted`: the sets of
handles before and after differ by the handles the step itself takes or gives back.

`Found` is an action property; it needs what a walk that has come to index `i` knows of the images it
has passed. On Linux none of them is the one looked for (`LinuxPassed`), except an executable that is
not position independent, which the code skips. On macOS the number of images was read
at the start, so that those there all along are below it, wherever they are by then, as long as none was unloaded
(`MacPassed`). `Certain` is the part about `get_process_module`, which looks for the
first image and ends the process if it is not found (`DiesOnly`).

### CPU features, copy on write, C interface

`SystemProofs` proves `OnlyUsable`, `WidestUsable` and `SetMeansMemory` for all machines and
builds. `Run` says of every question in the chain what the answers before it must have
been, and `RuledOut` what has been ruled out if the questions began after the start.
Flags only ever grow to `Detected`, which is within what is usable.

`CowProofs` proves the type invariant and the four properties for any number of cows,
containers, buffers and values. The invariant (`Good`, `HeldOnce`) says what a view
that is not stale refers to: its lender's value, which is still there.

`CApiProofs` proves the four properties of `CApi` for any number of threads, addresses and
objects. A call in progress pins the memory it looks at: while no calls overlap, nobody
frees or overwrites it, so that what `CheckType` has seen is what `Use` finds, and what
`due` was at the entry is still right at the end (`Sound`, for programs that are
`Careful`). `DestroyedOnce` has an invariant of its own, `Single`: one thread at most is
past the exchange of an object.

About `Bindings` it proves three more:

| Theorem | Statement |
|---|---|
| `WrappersCall` | `BindingsSpec => Spec`: what the wrappers do is something a C program can do |
| `NoneLost` | `BindingsSpec => []NothingLost` |
| `WellBehaved` | `BindingsSpec => []WrappersBehave` |

For `WrappersCall`, a wrapper and a method in progress hold null or a pointer the
interface has handed out (`Bound`), which is all a C program may pass; through it the
theorems about `CApi` hold of the wrappers too. `NothingLost` says that each object has a
wrapper whose handle is it, which is kept by the program or is what its owner's method is
about; a call that frees must therefore have freed before its method goes on (`Held`). `WrappersBehave` is about wrappers that belong to one
thread each: what a method has read is still in the wrapper (`Steady`), and the object is
there until a close of that wrapper is under way (`Alive`).

### Model-checked only

Liveness: `Terminates` of `Scanner`, `FindsAll`, `Answers` of `RegionQuery`, and `Returns` of
`Modules` and of `Sections`. The prover's temporal part has no rule for fairness
and `ENABLED`. What the two runs that end in a violation show is not proved either: a
behaviour TLC prints is proof enough that a property does not hold.

## 7. Not modelled, and why

* `get_symbol` forwards to the loader; `get_module_data` is a maximum over headers that
  do not change.
* C# has no model: its declarations do not match the functions they import, and its
  `Pattern` may be finalised during a call. Of the Java and Python bindings, the views
  of a module's memory, which outlive `close()`, and callbacks that close the module
  they are called for are left out.
* `no_allocator` of `cow`, with which a lost value can be emplaced again.
* The frequency tables are data, and enter as a constant function from byte pairs to
  scores. The texts that `cpuid` gives are left out.
* `find_vtable` is three searches driven by a compiler's data layout. The string types,
  `result` and the compile-time helpers are values without behaviour of their own. The
  call wrapper generates code; it keeps one static pointer for each combination of
  types, so that wrapping a second function of the same types replaces the first.
* Memory written during a search: the library promises nothing of it.
* The reasons in errors, and the names of statuses.
* `compile_signature` at compile time is the parser into an array; only the size of
  the array is checked.

## 8. Plan

Done: all modules of section 2, and a proof of every safety property of a passing run.
What could follow:

1. More to prove: type correctness of `Sections`, `System` and `CApi`, whose
   invariants state the types they need; what `ForEachSection` and `ForEachSegment` enumerate; a
   variant for each loop, which is the part of the liveness properties that
   needs no fairness.
2. The C# bindings, once their declarations are those of the C interface.
3. Views of a module's memory that outlive the module object, over `Modules` and
   `Bindings` together.
