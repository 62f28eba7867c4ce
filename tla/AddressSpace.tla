----------------------------- MODULE AddressSpace -----------------------------
(***************************************************************************)
(* The pages of a process, the protection of each, and the system it runs  *)
(* on: what memory_protector changes and is_readable asks about.           *)
(***************************************************************************)
EXTENDS Integers, FiniteSetsExt

CONSTANTS
  PageCount,   \* pages of the address space
  PageSize,    \* system_info::page_size
  Layouts,     \* protections of the pages at first
  Platforms    \* among "linux", "win32", "mac"

Page == 0 .. PageCount - 1
Flag == {"r", "w", "x"}

\* The protection of a page that is not mapped.
Unmapped == {"unmapped"}

ASSUME AddressSpaceAssumption ==
  /\ PageCount \in Nat \ {0} /\ PageSize \in Nat \ {0}
  /\ Layouts \subseteq [Page -> (SUBSET Flag) \cup {Unmapped}]
  /\ Platforms \subseteq {"linux", "win32", "mac"}

VARIABLES
  platform,
  prot      \* the protection of every page, kept by the system

PageOf(a) == a \div PageSize

\* The pages the bytes from one address to before another lie on.
PagesOf(from, to) ==
  {p \in Page : p * PageSize < to /\ from < (p + 1) * PageSize /\ from < to}
=============================================================================
