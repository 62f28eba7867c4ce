------------------------------- MODULE System -------------------------------
(***************************************************************************)
(* hat::get_system: what the library knows of the machine.  A static       *)
(* object is filled in while the program starts, at a moment the order of  *)
(* the other static objects decides; until then its memory is zero.  Its   *)
(* readers do not wait for it: resolve_scanner<Auto>, which picks the      *)
(* widest scanner whose instructions the machine has, and on Linux the     *)
(* constructor of memory_protector.  A reader that an earlier static       *)
(* object started may run at any moment.                                   *)
(***************************************************************************)
EXTENDS Integers

CONSTANTS
  Machines,     \* the machines considered
  Builds,       \* the builds of the library considered
  PageSize,     \* what the system answers
  Sizes         \* the sizes of the ranges to protect

\* Parts of XCR0, the registers the system saves when it switches threads.
Ymm == {"xmm", "ymm"}
Zmm == Ymm \cup {"opmask", "zmm_hi256", "hi16_zmm"}

\* Leaf 7 of CPUID reports these; older processors, and firmware that limits
\* CPUID for old systems, report only leaf 1 or none.
Leaf7 == {"avx2", "avx512f", "avx512bw", "bmi"}
Features == Leaf7 \cup {"sse41", "neon"}

\* The features whose instructions run: those of registers the system does not
\* save trap.
UsableOn(m) ==
  {f \in m.has : /\ f \in {"avx2", "avx512f", "avx512bw"} => m.osxsave
                 /\ f = "avx2" => Ymm \subseteq m.xcr
                 /\ f \in {"avx512f", "avx512bw"} => Zmm \subseteq m.xcr}

Machine == [arch : {"x86", "arm"}, linux : BOOLEAN, has : SUBSET Features, leaves : {0, 1, 7},
            xsave : BOOLEAN, osxsave : BOOLEAN, xcr : SUBSET Zmm]
Build == [compiled : SUBSET Features, scanners : SUBSET {"avx512", "sse"}]

ASSUME SystemAssumption ==
  /\ Machines \subseteq Machine
  /\ \A m \in Machines : /\ m.osxsave => m.xsave
                         /\ m.has \subseteq IF m.arch = "arm" THEN {"neon"} ELSE Leaf7 \cup {"sse41"}
                         /\ m.arch = "arm" /\ ~m.linux => "neon" \in m.has
  /\ Builds \subseteq Build
  /\ PageSize \in Nat \ {0} /\ Sizes \subseteq Nat \ {0}

VARIABLES
  machine, build,
  startup,     \* how far the constructor of the object is
  extensions, page_size,   \* the members of the object
  asks,        \* the question resolve_scanner is at, or the scanner it picked
  late,        \* it began after the start
  passed,      \* the length a protector passed to the system, None without one
  knew         \* the page size was known to it

vars == <<machine, build, startup, extensions, page_size, asks, late, passed, knew>>

None == -1

Init ==
  /\ machine \in Machines
  /\ build \in {b \in Builds : b.compiled \subseteq UsableOn(machine)}
  /\ machine.arch = "arm" /\ ~machine.linux => build.compiled = {"neon"}
  /\ startup = "zeroed"
  /\ extensions = {} /\ page_size = 0
  /\ asks = "nothing" /\ late = FALSE
  /\ passed = None /\ knew = FALSE

-----------------------------------------------------------------------------
(* Startup *)

\* The constructor of the base is the first.
QueryPageSize ==
  /\ startup = "zeroed"
  /\ startup' = "extensions"
  /\ page_size' = PageSize
  /\ UNCHANGED <<machine, build, extensions, asks, late, passed, knew>>

\* CPUID: a leaf that is not there stays zero.
Reported ==
  {f \in machine.has : /\ f \in Leaf7 => machine.leaves >= 7
                       /\ f = "sse41" => machine.leaves >= 1}

\* Slip: OSXSAVE tells that the system saves registers, not which.
SavedByAny(registers) == machine.osxsave

\* XCR0 can be read only when the system has enabled that.
Saved(registers) == machine.xsave /\ machine.osxsave /\ registers \subseteq machine.xcr

\* system_info_x86 and system_info_arm.  Outside Linux an ARM machine has Neon.
Detected ==
  IF machine.arch = "arm" THEN {f \in {"neon"} : machine.linux => f \in machine.has}
  ELSE {f \in Reported : /\ f = "avx2" => Saved(Ymm)
                         /\ f \in {"avx512f", "avx512bw"} => Saved(Zmm)}

\* The flags are bits of one or two bytes.  Another thread may see any of them before
\* the others.
SetFlag(f) ==
  /\ startup = "extensions"
  /\ f \in Detected \ extensions
  /\ extensions' = extensions \cup {f}
  /\ UNCHANGED <<machine, build, startup, page_size, asks, late, passed, knew>>

Started ==
  /\ startup = "extensions" /\ extensions = Detected
  /\ startup' = "done"
  /\ UNCHANGED <<machine, build, extensions, page_size, asks, late, passed, knew>>

-----------------------------------------------------------------------------
(* resolve_scanner<Auto> *)

\* The condition after each that holds and after each that does not, where
\* capitals are scanners.
Yes == [bmi |-> "avx512f", avx512f |-> "avx512bw", avx512bw |-> "AVX512",
        avx2 |-> "AVX2", sse41 |-> "SSE", neon |-> "Neon"]

\* Slip: without AVX512, AVX2 is not asked for.
NoGivesUp == [bmi |-> "sse41", avx512f |-> "sse41", avx512bw |-> "sse41",
              avx2 |-> "sse41", sse41 |-> "Single", neon |-> "Single"]

No == [bmi |-> "sse41", avx512f |-> "avx2", avx512bw |-> "avx2",
       avx2 |-> "sse41", sse41 |-> "Single", neon |-> "Single"]

\* What the build asks at all.
Built(f) ==
  /\ f = "avx512f" => "avx512" \in build.scanners
  /\ f = "sse41" => "sse" \in build.scanners

Ask ==
  /\ asks = "nothing"
  /\ asks' = IF machine.arch = "arm" THEN "neon" ELSE "bmi"
  /\ late' = (startup = "done")
  /\ UNCHANGED <<machine, build, startup, extensions, page_size, passed, knew>>

\* One condition: each reads the flags anew.
Answer ==
  /\ asks \in DOMAIN Yes
  /\ asks' = IF Built(asks) /\ asks \in build.compiled \cup extensions THEN Yes[asks] ELSE No[asks]
  /\ UNCHANGED <<machine, build, startup, extensions, page_size, late, passed, knew>>

-----------------------------------------------------------------------------
(* memory_protector on Linux *)

\* Slip: aligned down.
AlignDown(x, a) == IF a = 0 THEN 0 ELSE (x \div a) * a

\* detail::fast_align_up, whose mask is empty for an alignment of zero.
AlignUp(x, a) == IF a = 0 THEN 0 ELSE ((x + a - 1) \div a) * a

\* The call succeeds for the length zero.
Protect(size) ==
  /\ machine.linux /\ passed = None
  /\ passed' = AlignUp(size, page_size)
  /\ knew' = (page_size # 0)
  /\ UNCHANGED <<machine, build, startup, extensions, page_size, asks, late>>

Next ==
  \/ QueryPageSize \/ Started \/ \E f \in Features : SetFlag(f)
  \/ Ask \/ Answer
  \/ \E size \in Sizes : Protect(size)

Spec == Init /\ [][Next]_vars

-----------------------------------------------------------------------------
(* Properties *)

Scanners == {"AVX512", "AVX2", "SSE", "Neon", "Single"}

\* The variables keep to their types.
TypeOK ==
  /\ machine \in Machine /\ build \in Build
  /\ startup \in {"zeroed", "extensions", "done"}
  /\ extensions \subseteq Features /\ page_size \in {0, PageSize}
  /\ asks \in {"nothing"} \cup DOMAIN Yes \cup Scanners
  /\ late \in BOOLEAN /\ passed \in Nat \cup {None} /\ knew \in BOOLEAN

\* The instruction sets the functions of each scanner are compiled for (LIBHAT_TARGET).
Needs == [AVX512 |-> {"avx512f", "avx512bw", "bmi"}, AVX2 |-> {"avx2", "bmi"},
          SSE |-> {"sse41"}, Neon |-> {"neon"}, Single |-> {}]

\* Whenever a scanner is picked, before, while or after the object is filled in, its
\* instructions run on the machine.
OnlyUsable == asks \in Scanners => Needs[asks] \subseteq UsableOn(machine)

\* A scanner picked after the start is the widest that the build contains and whose
\* instructions the processor reports or the build is compiled for.
WidestUsable ==
  LET able == {f \in UsableOn(machine) : f \in build.compiled \/ f \in Reported}
      wider == [AVX512 |-> {}, AVX2 |-> {"AVX512"}, SSE |-> {"AVX512", "AVX2"}, Neon |-> {},
                Single |-> {"AVX512", "AVX2", "SSE", "Neon"}]
      built == {s \in Scanners : /\ s = "AVX512" => "avx512" \in build.scanners
                                 /\ s = "SSE" => "sse" \in build.scanners}
  IN late /\ asks \in Scanners => \A s \in wider[asks] \cap built : ~ Needs[s] \subseteq able

\* A protector reports success without protecting anything only when it was made
\* before the page size was known.
SetMeansMemory == passed = 0 => ~knew

=============================================================================
