------------------------------ MODULE Sections -------------------------------
(***************************************************************************)
(* What a module object says of its image: sections by name, the           *)
(* executable region, the enumerations.  Windows and macOS                 *)
(* read the headers in memory, which do not change while the object pins   *)
(* the image.  On Linux the section headers are not in memory: the first   *)
(* query, of any thread, reads them from the file at the path the image    *)
(* was loaded from, and the object keeps what it found, or did not find.   *)
(* By then the file may be gone or be another one.                         *)
(*                                                                         *)
(* Addresses are relative to where the image lies.  A name is a number, so *)
(* that the order of names is that of the map they are kept in; 0 is the   *)
(* empty name.  A name is asked for alone or with its segment's.           *)
(***************************************************************************)
EXTENDS Integers, Sequences, SequencesExt

CONSTANTS
  Thread,
  Systems,    \* the systems considered
  Images,     \* the images considered
  Files,      \* what may be found where the image was loaded from
  Names,      \* the names asked for
  Stops,      \* after how many calls the callbacks considered return false
  MaxCalls    \* bound: calls of all threads

System == {"linux", "windows", "mac"}

\* The name of the standard section of code, and of its segment.
Text == 1
TextSegment == 1
NoSegment == 0
\* A name that lies behind the table of strings.
Outside == -1

Prot == {"r", "w", "x"}
RX == {"r", "x"}

\* kind is that of ELF: a null entry, one that is loaded, one that is not.
\* The sections of an image come in the order of their segments.
Section == [name : {Outside} \cup Nat, segment : Nat, addr : Nat, size : Nat,
            prot : SUBSET Prot, kind : {"null", "alloc", "other"}]
Segment == [name : Nat, addr : Nat, size : Nat, prot : SUBSET Prot]
Image == [sections : Seq(Section), segments : Seq(Segment)]

\* A file that is not there, is not an ELF file or cut short, has a string table
\* larger than a vector can be, or can be read.
File == [state : {"absent", "invalid", "huge", "readable"}, sections : Seq(Section)]
NoFile == [state |-> "absent", sections |-> <<>>]
FileOf(sections) == [state |-> "readable", sections |-> sections]

ASSUME SectionsAssumption ==
  /\ Systems \subseteq System
  /\ Images \subseteq Image
  /\ Files \subseteq File
  /\ Names \subseteq Nat
  /\ Stops \subseteq Nat \ {0}
  /\ MaxCalls \in Nat

VARIABLES
  os,      \* the system
  image,   \* the image the object refers to
  file,    \* what is at the path now
  once,    \* init_sections_flag: "unset", "running" or "done"
  opened,  \* what the thread that runs init_sections has opened
  table,   \* name_to_section
  pc,      \* per thread: "idle", "called", "open" or "read"
  query,   \* per thread: what it asks
  calls,   \* calls begun
  source,  \* what the table was made from, for the properties
  seen     \* the queries answered, each with its answer

vars == <<os, image, file, once, opened, table, pc, query, calls, source, seen>>

-----------------------------------------------------------------------------
Region(s) == [addr |-> s.addr, size |-> s.size]
Nowhere == [addr |-> 0, size |-> 0]
Entry(name, data, prot) == [name |-> name, data |-> data, prot |-> prot]

\* The region of the first of those at some places, or an empty span.
First(seq, places) == IF places = {} THEN Nowhere ELSE Region(seq[Min(places)])

(* The table of Linux *)

\* Slip: an entry that is not loaded is kept.
ListedUnloaded(s) == s.kind # "null" /\ s.addr # 0 /\ s.name # Outside

Listed(s) == s.kind = "alloc" /\ s.addr # 0 /\ s.name # Outside

\* Every section that is listed, the first of each name.
Table(sections) ==
  LET listed == {i \in DOMAIN sections : Listed(sections[i])}
      OfName(n) == sections[Min({i \in listed : sections[i].name = n})]
  IN [n \in {sections[i].name : i \in listed} |->
        Entry(n, Region(OfName(n)), OfName(n).prot \cup {"r"})]

\* The entries in the order of the map.
Sorted(tab) ==
  LET names == SetToSortSeq(DOMAIN tab, LAMBDA m, n : m < n)
  IN [i \in DOMAIN names |-> tab[names[i]]]

(* The sections of macOS *)

\* Segments without size or protection are passed over with their sections.
Visited(g) == g.size # 0 /\ g.prot # {}
MacSegments(img) == SelectSeq(img.segments, Visited)
SegmentOf(img, s) == {g \in ToSet(img.segments) : Visited(g) /\ g.name = s.segment}
InSegment(img, s) == s.addr # 0 /\ SegmentOf(img, s) # {}
MacSections(img) == SelectSeq(img.sections, LAMBDA s : InSegment(img, s))
MacProt(img, s) == UNION {g.prot : g \in SegmentOf(img, s)}

-----------------------------------------------------------------------------
(* get_section_data *)

LinuxSection(tab, segment, name) ==
  IF segment = NoSegment /\ name \in DOMAIN tab THEN tab[name].data ELSE Nowhere

WindowsSection(img, segment, name) ==
  First(img.sections,
        {i \in DOMAIN img.sections : segment = NoSegment /\ img.sections[i].name = name})

MacSection(img, segment, name) ==
  First(img.sections,
        {i \in DOMAIN img.sections :
           /\ InSegment(img, img.sections[i])
           /\ img.sections[i].name = name
           /\ segment \in {NoSegment, img.sections[i].segment}})

GetSectionData(sys, img, tab, segment, name) ==
  CASE sys = "linux"   -> LinuxSection(tab, segment, name)
    [] sys = "windows" -> WindowsSection(img, segment, name)
    [] sys = "mac"     -> MacSection(img, segment, name)

(* get_executable_data *)

StandardText(sys, img, tab) ==
  GetSectionData(sys, img, tab, IF sys = "mac" THEN TextSegment ELSE NoSegment, Text)

Executable(seq) == {i \in DOMAIN seq : seq[i].prot = RX}

\* Slip: the segments are not asked when no section is executable.
SectionsOnly(img, tab) ==
  LET executable == {n \in DOMAIN tab : tab[n].prot = RX}
  IN IF executable # {} THEN tab[Min(executable)].data ELSE Nowhere

\* The first executable section in the order of names, or else the first
\* executable segment.
LinuxFallback(img, tab) ==
  LET executable == {n \in DOMAIN tab : tab[n].prot = RX}
  IN IF executable # {} THEN tab[Min(executable)].data
     ELSE First(img.segments, Executable(img.segments))

WindowsFallback(img) == First(img.sections, Executable(img.sections))

\* What the loop finds is not what is returned.
MacFallback(img) == Nowhere

GetExecutableData(sys, img, tab) ==
  LET text == StandardText(sys, img, tab)
  IN CASE text.size # 0                     -> text
       [] text.size = 0 /\ sys = "linux"   -> LinuxFallback(img, tab)
       [] text.size = 0 /\ sys = "windows" -> WindowsFallback(img)
       [] text.size = 0 /\ sys = "mac"     -> MacFallback(img)

(* for_each_section and for_each_segment, with a callback that returns false  *)
(* when it has been called so often                                           *)

WindowsEntries(img) ==
  [i \in DOMAIN img.sections |->
     LET s == img.sections[i] IN Entry(s.name, Region(s), s.prot)]

MacEntries(img) ==
  [i \in DOMAIN MacSections(img) |->
     LET s == MacSections(img)[i] IN Entry(s.name, Region(s), MacProt(img, s))]

ForEachSection(sys, img, tab, stop) ==
  LET all == CASE sys = "linux"   -> Sorted(tab)
               [] sys = "windows" -> WindowsEntries(img)
               [] sys = "mac"     -> MacEntries(img)
  IN SubSeq(all, 1, Min({stop, Len(all)}))

\* On Windows a section is a segment.
WindowsSegments(img) == img.sections

ForEachSegment(sys, img, stop) ==
  LET all == CASE sys = "linux"   -> img.segments
               [] sys = "windows" -> WindowsSegments(img)
               [] sys = "mac"     -> MacSegments(img)
  IN [i \in 1 .. Min({stop, Len(all)}) |-> Entry(NoSegment, Region(all[i]), all[i].prot)]

Query ==
  [what : {"section"}, segment : {NoSegment, TextSegment}, name : Names]
  \cup [what : {"executable"}]
  \cup [what : {"sections", "segments"}, stop : Stops]
NoQuery == [what |-> "none"]

Answer(sys, img, tab, q) ==
  CASE q.what = "section"    -> GetSectionData(sys, img, tab, q.segment, q.name)
    [] q.what = "executable" -> GetExecutableData(sys, img, tab)
    [] q.what = "sections"   -> ForEachSection(sys, img, tab, q.stop)
    [] q.what = "segments"   -> ForEachSegment(sys, img, q.stop)

-----------------------------------------------------------------------------
Init ==
  /\ os \in Systems
  /\ image \in Images
  /\ file \in (IF os = "linux" THEN Files \cup {FileOf(image.sections)} ELSE {NoFile})
  /\ once = "unset"
  /\ opened = NoFile
  /\ table = <<>>
  /\ pc = [t \in Thread |-> "idle"]
  /\ query = [t \in Thread |-> NoQuery]
  /\ calls = 0
  /\ source = NoFile
  /\ seen = {}

Call(t, q) ==
  /\ pc[t] = "idle"
  /\ calls < MaxCalls
  /\ pc' = [pc EXCEPT ![t] = "called"]
  /\ query' = [query EXCEPT ![t] = q]
  /\ calls' = calls + 1
  /\ UNCHANGED <<os, image, file, once, opened, table, source, seen>>

\* Only the segments are found without the table.
NeedsTable(q) == os = "linux" /\ q.what # "segments"

\* call_once lets in the first; the others wait.
Enter(t) ==
  /\ pc[t] = "called"
  /\ NeedsTable(query[t])
  /\ once = "unset"
  /\ once' = "running"
  /\ pc' = [pc EXCEPT ![t] = "open"]
  /\ UNCHANGED <<os, image, file, opened, table, query, calls, source, seen>>

\* init_sections returns; it will not be called again.
Done(t) ==
  /\ once' = "done"
  /\ pc' = [pc EXCEPT ![t] = "called"]
  /\ opened' = NoFile
  /\ UNCHANGED <<os, image, file, query, calls, seen>>

OpenFails(t) ==
  /\ pc[t] = "open"
  /\ file.state = "absent"
  /\ Done(t)
  /\ UNCHANGED <<table, source>>

Open(t) ==
  /\ pc[t] = "open"
  /\ file.state # "absent"
  /\ opened' = file
  /\ pc' = [pc EXCEPT ![t] = "read"]
  /\ UNCHANGED <<os, image, file, once, table, query, calls, source, seen>>

\* Any of the reads or checks fails: nothing has been entered yet.
ReadFails(t) ==
  /\ pc[t] = "read"
  /\ opened.state = "invalid"
  /\ Done(t)
  /\ UNCHANGED <<table, source>>

\* Slip: the flag is not given back.
ThrowsRunning(t) ==
  /\ pc[t] = "read"
  /\ opened.state = "huge"
  /\ pc' = [pc EXCEPT ![t] = "idle"]
  /\ query' = [query EXCEPT ![t] = NoQuery]
  /\ opened' = NoFile
  /\ UNCHANGED <<os, image, file, once, table, calls, source, seen>>

\* The vector cannot be that large: the exception leaves the call, and
\* call_once will let in another.
Throws(t) ==
  /\ pc[t] = "read"
  /\ opened.state = "huge"
  /\ once' = "unset"
  /\ pc' = [pc EXCEPT ![t] = "idle"]
  /\ query' = [query EXCEPT ![t] = NoQuery]
  /\ opened' = NoFile
  /\ UNCHANGED <<os, image, file, table, calls, source, seen>>

Read(t) ==
  /\ pc[t] = "read"
  /\ opened.state = "readable"
  /\ table' = Table(opened.sections)
  /\ source' = opened
  /\ Done(t)

\* Slip: a thread that finds another at work goes on.
ReturnEarly(t) ==
  /\ pc[t] = "called"
  /\ NeedsTable(query[t]) => once # "unset"
  /\ seen' = seen \cup {[query |-> query[t], answer |-> Answer(os, image, table, query[t])]}
  /\ pc' = [pc EXCEPT ![t] = "idle"]
  /\ query' = [query EXCEPT ![t] = NoQuery]
  /\ UNCHANGED <<os, image, file, once, opened, table, calls, source>>

Return(t) ==
  /\ pc[t] = "called"
  /\ NeedsTable(query[t]) => once = "done"
  /\ seen' = seen \cup {[query |-> query[t], answer |-> Answer(os, image, table, query[t])]}
  /\ pc' = [pc EXCEPT ![t] = "idle"]
  /\ query' = [query EXCEPT ![t] = NoQuery]
  /\ UNCHANGED <<os, image, file, once, opened, table, calls, source>>

\* The file is removed, or another is put in its place.
Replace(f) ==
  /\ os = "linux"
  /\ file # f
  /\ file' = f
  /\ UNCHANGED <<os, image, once, opened, table, pc, query, calls, source, seen>>

-----------------------------------------------------------------------------
Step(t) == Enter(t) \/ OpenFails(t) \/ Open(t) \/ ReadFails(t) \/ Throws(t) \/ Read(t) \/ Return(t)

Next ==
  \/ \E t \in Thread : (\E q \in Query : Call(t, q)) \/ Step(t)
  \/ \E f \in Files : Replace(f)

Spec == Init /\ [][Next]_vars

\* A thread inside a call runs on; nobody has to ask, or to touch the file.
FairSpec == Spec /\ \A t \in Thread : WF_vars(Step(t))

-----------------------------------------------------------------------------
TypeOK ==
  /\ os \in System
  /\ image \in Image
  /\ file \in File
  /\ once \in {"unset", "running", "done"}
  /\ opened \in File
  /\ \A n \in DOMAIN table :
       table[n] \in [name : Nat, data : [addr : Nat, size : Nat], prot : SUBSET Prot]
  /\ pc \in [Thread -> {"idle", "called", "open", "read"}]
  /\ query \in [Thread -> Query \cup {NoQuery}]
  /\ calls \in 0 .. MaxCalls
  /\ source \in File
  /\ \A a \in seen : a.query \in Query

\* The answers are about the image and not about what the file was when the
\* query was made.
FromImage == os # "linux" \/ source = FileOf(image.sections)

\* Sections the image has in memory.
Loaded == {s \in ToSet(image.sections) :
             CASE os = "linux"   -> s.kind = "alloc" /\ s.addr # 0
               [] os = "windows" -> TRUE
               [] os = "mac"     -> InSegment(image, s)}

\* A region given for a name is that of a loaded section of the image with the
\* name, and none is given only if there is none: unless, on Linux, the file
\* was gone, or another one, when it was read for the first time.
Truthful ==
  \A a \in {b \in seen : b.query.what = "section" /\ FromImage} :
    LET q == a.query
        candidates == {s \in Loaded :
                         /\ s.name = q.name
                         /\ IF os = "mac" THEN q.segment \in {NoSegment, s.segment}
                            ELSE q.segment = NoSegment}
    IN a.answer \in (IF candidates = {} THEN {Nowhere} ELSE {Region(s) : s \in candidates})

\* Whoever asks the same again, from whatever thread and whatever has become of
\* the file, has the same answer.
OneAnswer == \A a, b \in seen : a.query = b.query => a.answer = b.answer

\* The executable region is that of a standard section or of what may be read
\* and executed, even if it is empty; and there is one if a segment (a section,
\* on Windows) may be, on Linux whatever has become of the file, as long as none
\* of those is empty where the image starts.  On macOS only the standard section
\* is found.
ExecutableFound ==
  \A a \in {b \in seen : b.query.what = "executable"} :
    LET code == IF os = "linux" THEN ToSet(image.segments) ELSE Loaded
        standard == {s \in Loaded : s.name = Text}
        rx == {r \in code \cup Loaded : r.prot \cup {"r"} = RX}
        regions == {Region(r) : r \in {c \in code : c.prot = RX}}
    IN /\ os # "mac" /\ regions # {} /\ Nowhere \notin regions => a.answer # Nowhere
       /\ FromImage /\ a.answer # Nowhere => a.answer \in {Region(r) : r \in standard \cup rx}

\* No caller waits for ever for the one that reads the file, whatever it meets.
Returns == \A t \in Thread : pc[t] # "idle" ~> pc[t] = "idle"
=============================================================================
