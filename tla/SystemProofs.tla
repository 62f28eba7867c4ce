---------------------------- MODULE SystemProofs ----------------------------
(***************************************************************************)
(* Whichever machine, build and moment: the scanner that is picked runs,   *)
(* no wider one would have after the start, and a protector that protects  *)
(* nothing was made too early.                                             *)
(***************************************************************************)
EXTENDS System, TLAPS

\* The flags are those of the machine, all of them once the object is filled in.
Filled ==
  /\ machine \in Machines
  /\ build \in Builds /\ build.compiled \subseteq UsableOn(machine)
  /\ extensions \subseteq Detected
  /\ startup = "done" => extensions = Detected
  /\ late => startup = "done"

\* What holds of the machine when a question is reached or a scanner picked.
Reached == [nothing |-> {}, bmi |-> {}, avx512f |-> {"bmi"}, avx512bw |-> {"avx512f", "bmi"},
            AVX512 |-> {"avx512f", "avx512bw", "bmi"}, avx2 |-> {"bmi"}, AVX2 |-> {"avx2", "bmi"},
            sse41 |-> {}, SSE |-> {"sse41"}, neon |-> {}, Neon |-> {"neon"}, Single |-> {}]

Run ==
  /\ asks \in DOMAIN Reached
  /\ Reached[asks] \subseteq UsableOn(machine)

\* What a resolution after the start can use.
Able == build.compiled \cup Detected

\* The scanners that are ruled out when it gets to a question or picks a scanner.
RuledOut ==
  /\ asks \in {"avx2", "sse41", "AVX2", "SSE", "Single"} =>
       (machine.arch = "x86" /\ "avx512" \in build.scanners => ~ (Needs["AVX512"] \subseteq Able))
  /\ asks \in {"sse41", "SSE", "Single"} =>
       (machine.arch = "x86" => ~ (Needs["AVX2"] \subseteq Able))
  /\ asks = "Single" =>
       /\ machine.arch = "x86" /\ "sse" \in build.scanners => "sse41" \notin Able
       /\ machine.arch = "arm" => "neon" \notin Able
  /\ asks \in {"bmi", "avx512f", "avx512bw", "avx2", "sse41", "AVX512", "AVX2", "SSE"} =>
       machine.arch = "x86"
  /\ asks \in {"neon", "Neon"} => machine.arch = "arm"

Protected ==
  /\ page_size \in {0, PageSize}
  /\ knew \in BOOLEAN /\ passed \in Nat \cup {None}
  /\ knew /\ passed # None => passed > 0

IInv == Filled /\ Run /\ (late => RuledOut) /\ Protected

-----------------------------------------------------------------------------
(* What is detected *)

LEMMA MachineFacts ==
  ASSUME NEW m \in Machines
  PROVE  /\ m.arch \in {"x86", "arm"} /\ m.linux \in BOOLEAN /\ m.has \subseteq Features
         /\ m.xsave \in BOOLEAN /\ m.osxsave \in BOOLEAN
         /\ m.osxsave => m.xsave
         /\ m.has \subseteq IF m.arch = "arm" THEN {"neon"} ELSE Leaf7 \cup {"sse41"}
         /\ m.arch = "arm" /\ ~m.linux => "neon" \in m.has
  BY SystemAssumption DEF Machine

\* The instructions of every feature that is detected run.
LEMMA DetectedRuns ==
  ASSUME machine \in Machines
  PROVE  Detected \subseteq UsableOn(machine)
  <1>1. CASE machine.arch = "arm"
    BY <1>1, MachineFacts DEF Detected, UsableOn, Reported, Saved
  <1>2. CASE machine.arch # "arm"
    BY <1>2, MachineFacts DEF Detected, UsableOn, Reported, Saved
  <1> QED  BY <1>1, <1>2

\* Every feature that is reported and runs is detected.
LEMMA RunsDetected ==
  ASSUME machine \in Machines, NEW f \in UsableOn(machine), f \in Reported
  PROVE  f \in Detected
  <1>1. CASE machine.arch = "arm"
    BY <1>1, MachineFacts DEF Detected, UsableOn, Reported
  <1>2. CASE machine.arch # "arm"
    BY <1>2, MachineFacts DEF Detected, UsableOn, Reported, Saved
  <1> QED  BY <1>1, <1>2

-----------------------------------------------------------------------------
(* The invariant *)

LEMMA InitIInv == Init => IInv
  <1> SUFFICES ASSUME Init PROVE IInv
    OBVIOUS
  <1>1. Filled  BY DEF Init, Filled
  <1>2. Run  BY DEF Init, Run, Reached
  <1>3. Protected  BY DEF Init, Protected, None
  <1> QED  BY <1>1, <1>2, <1>3 DEF Init, IInv

LEMMA Asking ==
  ASSUME IInv, Ask
  PROVE  Run' /\ (late => RuledOut)'
  <1>1. asks' \in {"neon", "bmi"} /\ UNCHANGED machine  BY DEF Ask
  <1>2. Run'
    <2>1. asks' = "neon" => Reached[asks'] = {}  BY DEF Reached
    <2>2. asks' = "bmi" => Reached[asks'] = {}  BY DEF Reached
    <2>3. asks' \in DOMAIN Reached  BY <1>1 DEF Reached
    <2> QED  BY <1>1, <2>1, <2>2, <2>3 DEF Run
  <1>3. RuledOut'
    BY MachineFacts DEF Ask, RuledOut, IInv, Filled
  <1> QED  BY <1>2, <1>3

LEMMA Answering ==
  ASSUME IInv, Answer
  PROVE  Run' /\ (late => RuledOut)'
  <1> DEFINE yes == Built(asks) /\ asks \in build.compiled \cup extensions
  <1>1. /\ asks \in DOMAIN Yes
        /\ asks' = IF yes THEN Yes[asks] ELSE No[asks]
        /\ UNCHANGED <<machine, build, startup, extensions, late>>
    BY DEF Answer
  <1>2. Detected' = Detected /\ Able' = Able
    BY <1>1 DEF Detected, Reported, Saved, Able
  <1>3. yes => asks \in UsableOn(machine)
    BY DetectedRuns DEF IInv, Filled
  <1>4. late => (yes <=> Built(asks) /\ asks \in Able)
    BY DEF IInv, Filled, Able
  <1>5. Run'
    BY <1>1, <1>3 DEF IInv, Run, Reached, Yes, No
  <1>6. ASSUME late PROVE RuledOut'
    BY <1>1, <1>2, <1>4, <1>6 DEF IInv, Run, Reached, RuledOut, Yes, No, Needs, Built
  <1> QED  BY <1>1, <1>5, <1>6

LEMMA Protecting ==
  ASSUME IInv, NEW size \in Sizes, Protect(size)
  PROVE  Protected'
  <1>1. size \in Nat \ {0} /\ PageSize \in Nat \ {0}  BY SystemAssumption
  <1>2. /\ passed' = AlignUp(size, page_size)
        /\ knew' = (page_size # 0) /\ page_size' = page_size
    BY DEF Protect
  <1>3. CASE page_size = 0
    BY <1>2, <1>3 DEF AlignUp, Protected, IInv
  <1>4. CASE page_size = PageSize
    <2>1. PICK d \in Nat : d = (size + PageSize - 1) \div PageSize /\ d > 0
      BY <1>1
    <2>2. passed' = d * PageSize  BY <1>1, <1>2, <1>4, <2>1 DEF AlignUp
    <2>3. d * PageSize \in Nat /\ d * PageSize > 0  BY <1>1, <2>1
    <2> QED  BY <1>1, <1>2, <1>4, <2>2, <2>3 DEF Protected
  <1> QED  BY <1>3, <1>4 DEF IInv, Protected

LEMMA NextIInv == IInv /\ [Next]_vars => IInv'
  <1> SUFFICES ASSUME IInv, [Next]_vars PROVE IInv'
    OBVIOUS
  <1> DEFINE same == /\ UNCHANGED <<machine, build>>
                     /\ Detected' = Detected /\ Able' = Able
  <1>1. same
    <2>1. UNCHANGED <<machine, build>>
      BY DEF Next, vars, QueryPageSize, SetFlag, Started, Ask, Answer, Protect
    <2> QED  BY <2>1 DEF Detected, Reported, Saved, Able
  <1>2. ASSUME UNCHANGED <<asks, late>>
        PROVE  Run' /\ (late => RuledOut)'
    BY <1>1, <1>2 DEF IInv, Run, RuledOut
  <1>3. CASE QueryPageSize
    <2>1. Filled'  BY <1>1, <1>3 DEF IInv, Filled, QueryPageSize
    <2>2. Protected'  BY <1>3 DEF IInv, Protected, QueryPageSize
    <2> QED  BY <1>2, <1>3, <2>1, <2>2 DEF IInv, QueryPageSize
  <1>4. ASSUME NEW f \in Features, SetFlag(f) PROVE IInv'
    <2>1. Filled'  BY <1>1, <1>4 DEF IInv, Filled, SetFlag
    <2>2. Protected'  BY <1>4 DEF IInv, Protected, SetFlag
    <2> QED  BY <1>2, <1>4, <2>1, <2>2 DEF IInv, SetFlag
  <1>5. CASE Started
    <2>1. Filled'  BY <1>1, <1>5 DEF IInv, Filled, Started
    <2>2. Protected'  BY <1>5 DEF IInv, Protected, Started
    <2> QED  BY <1>2, <1>5, <2>1, <2>2 DEF IInv, Started
  <1>6. CASE Ask
    <2>1. Filled'  BY <1>1, <1>6 DEF IInv, Filled, Ask
    <2>2. Protected'  BY <1>6 DEF IInv, Protected, Ask
    <2> QED  BY <1>6, Asking, <2>1, <2>2 DEF IInv
  <1>7. CASE Answer
    <2>1. Filled'  BY <1>1, <1>7 DEF IInv, Filled, Answer
    <2>2. Protected'  BY <1>7 DEF IInv, Protected, Answer
    <2> QED  BY <1>7, Answering, <2>1, <2>2 DEF IInv
  <1>8. ASSUME NEW size \in Sizes, Protect(size) PROVE IInv'
    <2>1. Filled'  BY <1>1, <1>8 DEF IInv, Filled, Protect
    <2> QED  BY <1>2, <1>8, <2>1, Protecting DEF IInv, Protect
  <1>9. CASE UNCHANGED vars
    BY <1>1, <1>2, <1>9 DEF IInv, Filled, Protected, vars
  <1> QED  BY <1>3, <1>4, <1>5, <1>6, <1>7, <1>8, <1>9 DEF Next

LEMMA Invariance == Spec => []IInv
  <1> QED  BY InitIInv, NextIInv, PTL DEF Spec

-----------------------------------------------------------------------------
(* The theorems *)

\* resolve_scanner<Auto> picks only scanners whose instructions the machine runs, also
\* when it reads the flags while another thread, or no one yet, sets them.
THEOREM ScannerRuns == Spec => []OnlyUsable
  <1>1. IInv => OnlyUsable
    <2> SUFFICES ASSUME IInv, asks \in Scanners
                 PROVE  Needs[asks] \subseteq UsableOn(machine)
      BY DEF OnlyUsable
    <2>1. Needs[asks] = Reached[asks]
      <3>1. /\ Needs["AVX512"] = Reached["AVX512"] /\ Needs["AVX2"] = Reached["AVX2"]
            /\ Needs["SSE"] = Reached["SSE"] /\ Needs["Neon"] = Reached["Neon"]
            /\ Needs["Single"] = Reached["Single"]
        BY DEF Needs, Reached
      <3>2. asks \in {"AVX512", "AVX2", "SSE", "Neon", "Single"}  BY DEF Scanners
      <3> QED  BY <3>1, <3>2, Zenon
    <2> QED  BY <2>1 DEF IInv, Run
  <1> QED  BY <1>1, Invariance, PTL

\* One that is picked after the start is the widest there is.
THEOREM ScannerWidest == Spec => []WidestUsable
  <1>1. IInv => WidestUsable
    <2> SUFFICES ASSUME IInv, late, asks \in Scanners,
                        NEW s \in Scanners,
                        s = "AVX512" => "avx512" \in build.scanners,
                        s = "SSE" => "sse" \in build.scanners,
                        \/ asks = "AVX2" /\ s = "AVX512"
                        \/ asks = "SSE" /\ s \in {"AVX512", "AVX2"}
                        \/ asks = "Single" /\ s \in {"AVX512", "AVX2", "SSE", "Neon"},
                        Needs[s] \subseteq {f \in UsableOn(machine) : f \in build.compiled \/ f \in Reported}
                 PROVE  FALSE
      BY DEF WidestUsable, Scanners
    <2>1. Needs[s] \subseteq Able
      BY RunsDetected DEF IInv, Filled, Able
    <2>2. RuledOut  BY DEF IInv
    <2>3. UsableOn(machine) \subseteq machine.has  BY DEF UsableOn
    <2>4. Needs[s] \subseteq machine.has  BY <2>3
    <2>5. CASE machine.arch = "x86"
      <3>1. "neon" \notin machine.has  BY <2>5, MachineFacts DEF IInv, Filled, Leaf7
      <3> QED  BY <2>1, <2>2, <2>4, <2>5, <3>1 DEF RuledOut, Needs
    <2>6. CASE machine.arch = "arm"
      <3>1. machine.has \subseteq {"neon"}  BY <2>6, MachineFacts DEF IInv, Filled
      <3> QED  BY <2>1, <2>2, <2>4, <2>6, <3>1 DEF RuledOut, Needs
    <2> QED  BY <2>5, <2>6, MachineFacts DEF IInv, Filled
  <1> QED  BY <1>1, Invariance, PTL

\* A memory_protector of a range that is not empty passes a length that is not zero as
\* soon as the page size is known.
THEOREM ProtectorPasses == Spec => []SetMeansMemory
  <1>1. IInv => SetMeansMemory
    BY DEF IInv, Protected, SetMeansMemory, None
  <1> QED  BY <1>1, Invariance, PTL

=============================================================================
