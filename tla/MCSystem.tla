------------------------------ MODULE MCSystem ------------------------------
(***************************************************************************)
(* Machines and builds for TLC.                                            *)
(***************************************************************************)
EXTENDS System

X86(has, leaves, xsave, osxsave, xcr) ==
  [arch |-> "x86", linux |-> TRUE, has |-> has, leaves |-> leaves,
   xsave |-> xsave, osxsave |-> osxsave, xcr |-> xcr]

\* Processors and virtual machines, which may hide any feature, under systems
\* that save any of the registers.
MCMachines ==
  {X86(has, leaves, TRUE, TRUE, xcr) :
     has \in SUBSET (Leaf7 \cup {"sse41"}), leaves \in {1, 7}, xcr \in SUBSET Zmm}
  \cup {X86(has, 0, TRUE, TRUE, Zmm) : has \in SUBSET (Leaf7 \cup {"sse41"})}
  \cup {X86(has, 7, xsave, FALSE, {}) : has \in SUBSET (Leaf7 \cup {"sse41"}), xsave \in BOOLEAN}
  \cup {[arch |-> "arm", linux |-> TRUE, has |-> has, leaves |-> 0,
         xsave |-> FALSE, osxsave |-> FALSE, xcr |-> {}] : has \in SUBSET {"neon"}}
  \cup {[arch |-> "arm", linux |-> FALSE, has |-> {"neon"}, leaves |-> 0,
         xsave |-> FALSE, osxsave |-> FALSE, xcr |-> {}]}

\* The levels of x86-64, and Neon.
MCBuilds ==
  [compiled : {{}, {"sse41"}, {"sse41", "bmi", "avx2"}, Leaf7 \cup {"sse41"}, {"neon"}},
   scanners : SUBSET {"avx512", "sse"}]

=============================================================================
