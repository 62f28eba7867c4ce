--------------------------- MODULE SectionsProofs ----------------------------
(***************************************************************************)
(* Every thread is told the same, however many threads ask, in whatever    *)
(* order, and whatever becomes of the file; and what it is told of the     *)
(* image is so.                                                            *)
(***************************************************************************)
EXTENDS Sections, WellFoundedInduction, NaturalsInduction, TLAPS

\* Only the thread that call_once let in opens and reads the file.
OneReader ==
  /\ pc \in [Thread -> {"idle", "called", "open", "read"}]
  /\ \A t \in Thread : pc[t] \in {"open", "read"} => once = "running"
  /\ \A t, u \in Thread : pc[t] \in {"open", "read"} /\ pc[u] \in {"open", "read"} => t = u

\* What has been answered is what would be answered now, and what needed the
\* table was answered when the table was final.
Standing ==
  \A a \in seen : /\ NeedsTable(a.query) => once = "done"
                  /\ a.answer = Answer(os, image, table, a.query)

IInv ==
  /\ query \in [Thread -> Query \cup {NoQuery}]
  /\ \A t \in Thread : pc[t] # "idle" => query[t] \in Query
  /\ \A a \in seen : a.query \in Query
  /\ OneReader
  /\ Standing

\* Where the table is not needed it has no part in the answer.
LEMMA TableUnused ==
  ASSUME NEW sys, NEW img, NEW tab1, NEW tab2, NEW q \in Query,
         sys # "linux" \/ q.what = "segments", sys \in System
  PROVE  Answer(sys, img, tab1, q) = Answer(sys, img, tab2, q)
  <1>1. CASE q.what = "segments"  BY <1>1 DEF Answer
  <1>2. CASE q.what = "section" /\ sys \in {"windows", "mac"}
    BY <1>2 DEF Answer, GetSectionData
  <1>3. CASE q.what = "executable" /\ sys \in {"windows", "mac"}
    <2>1. StandardText(sys, img, tab1) = StandardText(sys, img, tab2)
      BY <1>3 DEF StandardText, GetSectionData
    <2> QED  BY <1>3, <2>1 DEF Answer, GetExecutableData
  <1>4. CASE q.what = "sections" /\ sys \in {"windows", "mac"}
    BY <1>4 DEF Answer, ForEachSection
  <1> QED  BY <1>1, <1>2, <1>3, <1>4 DEF Query, System

\* Answers stand as long as the table does, and those that do not need it stand.
LEMMA Stands ==
  ASSUME IInv, os \in System, UNCHANGED <<os, image, seen>>,
         \/ table' = table /\ (once = "done" => once' = "done")
         \/ once = "running"
  PROVE  Standing'
  <1> SUFFICES ASSUME NEW a \in seen
               PROVE  /\ NeedsTable(a.query)' => once' = "done"
                      /\ a.answer = Answer(os, image, table', a.query)
    BY DEF Standing
  <1>1. /\ a.query \in Query
        /\ NeedsTable(a.query) => once = "done"
        /\ a.answer = Answer(os, image, table, a.query)
    BY DEF IInv, Standing
  <1>2. NeedsTable(a.query)' <=> NeedsTable(a.query)  BY DEF NeedsTable
  <1>3. CASE table' = table /\ (once = "done" => once' = "done")
    BY <1>1, <1>2, <1>3
  <1>4. CASE once = "running"
    <2>1. ~ NeedsTable(a.query)  BY <1>1, <1>4
    <2>2. os # "linux" \/ a.query.what = "segments"  BY <2>1 DEF NeedsTable
    <2>3. Answer(os, image, table, a.query) = Answer(os, image, table', a.query)
      BY <1>1, <2>2, TableUnused
    <2> QED  BY <1>1, <1>2, <2>1, <2>3
  <1> QED  BY <1>3, <1>4

LEMMA SystemNamed == Spec => [](os \in System)
  <1>1. Init => os \in System  BY SectionsAssumption DEF Init
  <1>2. os \in System /\ [Next]_vars => (os \in System)'
    BY DEF Next, vars, Step, Call, Enter, OpenFails, Open, ReadFails, Throws, Read, Return, Done, Replace
  <1> QED  BY <1>1, <1>2, PTL DEF Spec

LEMMA InitIInv == Init => IInv
  BY DEF Init, IInv, OneReader, Standing

LEMMA CallStep ==
  ASSUME IInv, os \in System, NEW t \in Thread, NEW q \in Query, Call(t, q)
  PROVE  IInv'
  <1>1. Standing'  BY Stands DEF Call
  <1> QED  BY <1>1 DEF Call, IInv, OneReader

LEMMA EnterStep ==
  ASSUME IInv, os \in System, NEW t \in Thread, Enter(t)
  PROVE  IInv'
  <1>1. Standing'  BY Stands DEF Enter
  <1> QED  BY <1>1 DEF Enter, IInv, OneReader

LEMMA DoneStep ==
  ASSUME IInv, os \in System, NEW t \in Thread, OpenFails(t) \/ ReadFails(t) \/ Read(t)
  PROVE  IInv'
  <1>1. pc[t] \in {"open", "read"} /\ Done(t)  BY DEF OpenFails, ReadFails, Read
  <1>2. once = "running"  BY <1>1 DEF IInv, OneReader
  <1>3. Standing'  BY <1>1, <1>2, Stands DEF Done
  <1> QED  BY <1>1, <1>2, <1>3 DEF Done, IInv, OneReader

LEMMA OpenStep ==
  ASSUME IInv, os \in System, NEW t \in Thread, Open(t)
  PROVE  IInv'
  <1>1. Standing'  BY Stands DEF Open
  <1> QED  BY <1>1 DEF Open, IInv, OneReader

LEMMA ThrowsStep ==
  ASSUME IInv, os \in System, NEW t \in Thread, Throws(t)
  PROVE  IInv'
  <1>1. once = "running"  BY DEF Throws, IInv, OneReader
  <1>2. Standing'  BY <1>1, Stands DEF Throws
  <1> QED  BY <1>1, <1>2 DEF Throws, IInv, OneReader

LEMMA ReturnStep ==
  ASSUME IInv, os \in System, NEW t \in Thread, Return(t)
  PROVE  IInv'
  <1>1. query[t] \in Query  BY DEF IInv, Return
  <1>2. PICK q \in Query : q = query[t]  BY <1>1
  <1>3. seen' = seen \cup {[query |-> q, answer |-> Answer(os, image, table, q)]}
    BY <1>2 DEF Return
  <1>4. UNCHANGED <<os, image, table, once>>  BY DEF Return
  <1>5. \A a \in seen' : a.query \in Query  BY <1>3 DEF IInv
  <1>6. Standing'
    <2> SUFFICES ASSUME NEW a \in seen'
                 PROVE  /\ NeedsTable(a.query)' => once = "done"
                        /\ a.answer = Answer(os, image, table, a.query)
      BY <1>4 DEF Standing
    <2>1. NeedsTable(a.query)' <=> NeedsTable(a.query)  BY <1>4 DEF NeedsTable
    <2>2. CASE a \in seen  BY <2>1, <2>2 DEF IInv, Standing
    <2>3. CASE a = [query |-> q, answer |-> Answer(os, image, table, q)]
      BY <1>2, <2>1, <2>3 DEF Return
    <2> QED  BY <1>3, <2>2, <2>3
  <1> QED  BY <1>5, <1>6 DEF Return, IInv, OneReader

LEMMA ReplaceStep ==
  ASSUME IInv, os \in System, NEW f \in Files, Replace(f)
  PROVE  IInv'
  <1>1. Standing'  BY Stands DEF Replace
  <1> QED  BY <1>1 DEF Replace, IInv, OneReader

LEMMA NextIInv == IInv /\ os \in System /\ [Next]_vars => IInv'
  <1> SUFFICES ASSUME IInv, os \in System, [Next]_vars PROVE IInv'  OBVIOUS
  <1>1. ASSUME NEW t \in Thread, NEW q \in Query, Call(t, q) PROVE IInv'
    BY <1>1, CallStep
  <1>2. ASSUME NEW t \in Thread, Step(t) PROVE IInv'
    BY <1>2, EnterStep, DoneStep, OpenStep, ThrowsStep, ReturnStep DEF Step
  <1>3. ASSUME NEW f \in Files, Replace(f) PROVE IInv'
    BY <1>3, ReplaceStep
  <1>4. CASE UNCHANGED vars
    <2>1. Standing'  BY <1>4, Stands DEF vars
    <2> QED  BY <1>4, <2>1 DEF vars, IInv, OneReader
  <1> QED  BY <1>1, <1>2, <1>3, <1>4 DEF Next

\* Two answers to the same query are equal: for any number of threads and
\* calls, whatever image and whatever files.
THEOREM SameAnswer == Spec => []OneAnswer
  <1>1. IInv => OneAnswer  BY DEF IInv, Standing, OneAnswer
  <1> QED  BY InitIInv, NextIInv, SystemNamed, <1>1, PTL DEF Spec

\* The table is written by one thread at a time, the one that call_once let in.
THEOREM ReadOnce == Spec => []OneReader
  <1>1. IInv => OneReader  BY DEF IInv
  <1> QED  BY InitIInv, NextIInv, SystemNamed, <1>1, PTL DEF Spec

-----------------------------------------------------------------------------
(* What an answer says of the image *)

\* The table is empty, or that of the file it was read from.
Sourced ==
  \/ source = NoFile /\ table = <<>>
  \/ source.state = "readable" /\ table = Table(source.sections)

FilesOK == file \in File /\ opened \in File /\ source \in File

ToldTruly == IInv /\ os \in System /\ image \in Image /\ FilesOK /\ Sourced

\* A nonempty set of natural numbers has a least element, and Min is it.
LEMMA MinFacts ==
  ASSUME NEW T \in SUBSET Nat, T # {}
  PROVE  Min(T) \in T /\ \A y \in T : Min(T) <= y
  <1> DEFINE Less == {pair \in Nat \X Nat : pair[1] < pair[2]}
  <1>1. IsWellFoundedOn(Less, Nat)
    BY NatLessThanWellFounded, Zenon DEF OpToRel
  <1> HIDE DEF Less
  <1>2. PICK x \in T : \A y \in T : ~ (<<y, x>> \in Less)
    BY <1>1, WFMin, Zenon
  <1>3. ASSUME NEW y \in T PROVE x <= y
    <2>1. ~ (<<y, x>> \in Less)  BY <1>2
    <2>2. <<y, x>> \in Nat \X Nat  OBVIOUS
    <2>3. ~ (y < x)  BY <2>1, <2>2 DEF Less
    <2> QED  BY <2>3
  <1> QED  BY <1>3 DEF Min

\* The first of some places of a sequence is one of them.
LEMMA FirstPlace ==
  ASSUME NEW S, NEW seq \in Seq(S), NEW places \in SUBSET DOMAIN seq, places # {}
  PROVE  Min(places) \in places /\ seq[Min(places)] \in ToSet(seq)
  <1>1. DOMAIN seq \subseteq Nat  OBVIOUS
  <1>2. Min(places) \in places  BY <1>1, MinFacts
  <1> QED  BY <1>2 DEF ToSet

LEMMA FirstFacts ==
  ASSUME NEW S, NEW seq \in Seq(S), NEW places \in SUBSET DOMAIN seq
  PROVE  /\ places = {} => First(seq, places) = Nowhere
         /\ places # {} => \E i \in places : First(seq, places) = Region(seq[i])
  BY FirstPlace DEF First

\* An entry of the table is that of a listed section of its name.
LEMMA TableEntries ==
  ASSUME NEW sections \in Seq(Section)
  PROVE  /\ \A s \in ToSet(sections) : Listed(s) => s.name \in DOMAIN Table(sections)
         /\ \A n \in DOMAIN Table(sections) : \E s \in ToSet(sections) :
              /\ Listed(s) /\ s.name = n
              /\ Table(sections)[n] = Entry(n, Region(s), s.prot \cup {"r"})
  <1> DEFINE listed == {i \in DOMAIN sections : Listed(sections[i])}
             named(n) == {i \in listed : sections[i].name = n}
             tab == Table(sections)
  <1>1. tab = [n \in {sections[i].name : i \in listed} |->
                 Entry(n, Region(sections[Min(named(n))]), sections[Min(named(n))].prot \cup {"r"})]
    BY DEF Table
  <1>2. DOMAIN tab = {sections[i].name : i \in listed}  BY <1>1
  <1>3. ASSUME NEW s \in ToSet(sections), Listed(s) PROVE s.name \in DOMAIN tab
    <2>1. PICK i \in DOMAIN sections : s = sections[i]  BY DEF ToSet
    <2> QED  BY <1>2, <1>3, <2>1
  <1>4. ASSUME NEW n \in DOMAIN tab
        PROVE  \E s \in ToSet(sections) :
                 /\ Listed(s) /\ s.name = n
                 /\ tab[n] = Entry(n, Region(s), s.prot \cup {"r"})
    <2>1. named(n) # {} /\ named(n) \in SUBSET DOMAIN sections  BY <1>2
    <2>2. PICK i : i = Min(named(n))  OBVIOUS
    <2>3. i \in named(n) /\ sections[i] \in ToSet(sections)
      <3> HIDE DEF named
      <3> QED  BY <2>1, <2>2, FirstPlace
    <2>4. tab[n] = Entry(n, Region(sections[i]), sections[i].prot \cup {"r"})
      BY <1>1, <1>2, <2>2
    <2> QED  BY <2>3, <2>4
  <1> QED  BY <1>3, <1>4

\* A region given for a name, when the table of Linux is that of the image.
LEMMA SectionTold ==
  ASSUME os \in System, image \in Image,
         os = "linux" => table = Table(image.sections),
         NEW segment \in Nat, NEW name \in Nat,
         NEW candidates,
         candidates = {s \in Loaded : /\ s.name = name
                                      /\ IF os = "mac" THEN segment \in {NoSegment, s.segment}
                                         ELSE segment = NoSegment}
  PROVE  GetSectionData(os, image, table, segment, name)
           \in (IF candidates = {} THEN {Nowhere} ELSE {Region(s) : s \in candidates})
  <1> DEFINE data == GetSectionData(os, image, table, segment, name)
  <1>0. image.sections \in Seq(Section)  BY DEF Image
  <1>1. CASE os = "linux"
    <2>1. data = LinuxSection(table, segment, name)  BY <1>1 DEF GetSectionData
    <2>2. Loaded = {s \in ToSet(image.sections) : s.kind = "alloc" /\ s.addr # 0}
      BY <1>1 DEF Loaded
    <2>3. candidates = {s \in Loaded : s.name = name /\ segment = NoSegment}  BY <1>1
    <2>4. table = Table(image.sections)  BY <1>1
    <2>5. CASE segment = NoSegment /\ name \in DOMAIN table
      <3>1. PICK s \in ToSet(image.sections) :
              /\ Listed(s) /\ s.name = name
              /\ table[name] = Entry(name, Region(s), s.prot \cup {"r"})
        BY <1>0, <2>4, <2>5, TableEntries
      <3>2. s \in candidates  BY <2>2, <2>3, <2>5, <3>1 DEF Listed
      <3>3. data = Region(s)  BY <2>1, <2>5, <3>1 DEF LinuxSection, Entry
      <3> QED  BY <3>2, <3>3
    <2>6. CASE ~ (segment = NoSegment /\ name \in DOMAIN table)
      <3>1. data = Nowhere  BY <2>1, <2>6 DEF LinuxSection
      <3>2. ASSUME NEW s \in candidates PROVE FALSE
        <4>1. s \in ToSet(image.sections) /\ Listed(s)
          BY <2>2, <2>3, <3>2 DEF Listed, Outside
        <4>2. name \in DOMAIN table  BY <1>0, <2>3, <2>4, <4>1, TableEntries
        <4> QED  BY <2>3, <2>6, <4>2
      <3> QED  BY <3>1, <3>2
    <2> QED  BY <2>5, <2>6
  <1>2. CASE os = "windows"
    <2> DEFINE places == {i \in DOMAIN image.sections :
                            segment = NoSegment /\ image.sections[i].name = name}
    <2>1. data = First(image.sections, places)
      BY <1>2 DEF GetSectionData, WindowsSection
    <2>2. candidates = {s \in ToSet(image.sections) : s.name = name /\ segment = NoSegment}
      BY <1>2 DEF Loaded
    <2>3. candidates = {image.sections[i] : i \in places}
      BY <2>2 DEF ToSet
    <2>4. places \in SUBSET DOMAIN image.sections  OBVIOUS
    <2> HIDE DEF places
    <2>5. CASE places = {}
      <3>1. data = Nowhere /\ candidates = {}  BY <1>0, <2>1, <2>3, <2>4, <2>5, FirstFacts
      <3> QED  BY <3>1
    <2>6. CASE places # {}
      <3>1. PICK i \in places : data = Region(image.sections[i])
        BY <1>0, <2>1, <2>4, <2>6, FirstFacts
      <3>2. image.sections[i] \in candidates  BY <2>3
      <3> QED  BY <3>1, <3>2
    <2> QED  BY <2>5, <2>6
  <1>3. CASE os = "mac"
    <2> DEFINE places == {i \in DOMAIN image.sections :
                            /\ InSegment(image, image.sections[i])
                            /\ image.sections[i].name = name
                            /\ segment \in {NoSegment, image.sections[i].segment}}
    <2>1. data = First(image.sections, places)
      BY <1>3 DEF GetSectionData, MacSection
    <2>2. Loaded = {s \in ToSet(image.sections) : InSegment(image, s)}
      BY <1>3 DEF Loaded
    <2>3. candidates = {s \in Loaded : s.name = name /\ segment \in {NoSegment, s.segment}}
      BY <1>3
    <2>4. candidates = {image.sections[i] : i \in places}
      BY <2>2, <2>3 DEF ToSet
    <2>5. places \in SUBSET DOMAIN image.sections  OBVIOUS
    <2> HIDE DEF places
    <2>6. CASE places = {}
      <3>1. data = Nowhere /\ candidates = {}  BY <1>0, <2>1, <2>4, <2>5, <2>6, FirstFacts
      <3> QED  BY <3>1
    <2>7. CASE places # {}
      <3>1. PICK i \in places : data = Region(image.sections[i])
        BY <1>0, <2>1, <2>5, <2>7, FirstFacts
      <3>2. image.sections[i] \in candidates  BY <2>4
      <3> QED  BY <3>1, <3>2
    <2> QED  BY <2>6, <2>7
  <1> QED  BY <1>1, <1>2, <1>3 DEF System

LEMMA StandardTold ==
  ASSUME os \in System, image \in Image,
         os = "linux" => table = Table(image.sections),
         StandardText(os, image, table) # Nowhere
  PROVE  \E s \in Loaded : s.name = Text /\ StandardText(os, image, table) = Region(s)
  <1>1. PICK segment \in Nat : segment = IF os = "mac" THEN TextSegment ELSE NoSegment
    BY DEF TextSegment, NoSegment
  <1>2. Text \in Nat  BY DEF Text
  <1>3. StandardText(os, image, table) = GetSectionData(os, image, table, segment, Text)
    BY <1>1 DEF StandardText
  <1>4. PICK candidates :
          candidates = {s \in Loaded : /\ s.name = Text
                                       /\ IF os = "mac" THEN segment \in {NoSegment, s.segment}
                                          ELSE segment = NoSegment}
    OBVIOUS
  <1>5. GetSectionData(os, image, table, segment, Text)
          \in (IF candidates = {} THEN {Nowhere} ELSE {Region(s) : s \in candidates})
    BY <1>2, <1>4, SectionTold
  <1>6. candidates # {}  BY <1>3, <1>5
  <1>7. PICK s \in candidates : StandardText(os, image, table) = Region(s)
    BY <1>3, <1>5, <1>6
  <1> QED  BY <1>4, <1>7

\* The entries of the table are not where the image starts, and their names are numbers.
LEMMA TableFacts ==
  ASSUME Sourced, source \in File, NEW n \in DOMAIN table
  PROVE  n \in Nat /\ table[n].data.addr # 0
  <1>1. CASE table = <<>>  BY <1>1
  <1>2. CASE table = Table(source.sections)
    <2>1. source.sections \in Seq(Section)  BY DEF File
    <2>2. PICK s \in ToSet(source.sections) :
            /\ Listed(s) /\ s.name = n
            /\ table[n] = Entry(n, Region(s), s.prot \cup {"r"})
      BY <1>2, <2>1, TableEntries
    <2>3. s \in Section  BY <2>1 DEF ToSet
    <2>4. s.name \in Nat /\ s.addr # 0  BY <2>2, <2>3 DEF Listed, Section
    <2>5. table[n].data.addr = s.addr  BY <2>2 DEF Entry, Region
    <2> QED  BY <2>2, <2>4, <2>5
  <1> QED  BY <1>1, <1>2 DEF Sourced

\* What is asked when no standard section is found.
LEMMA ExecutableCases ==
  ASSUME os \in System
  PROVE  LET text == StandardText(os, image, table)
             answer == GetExecutableData(os, image, table)
         IN /\ text.size # 0 => answer = text
            /\ text.size = 0 /\ os = "linux" => answer = LinuxFallback(image, table)
            /\ text.size = 0 /\ os = "windows" => answer = WindowsFallback(image)
            /\ text.size = 0 /\ os = "mac" => answer = Nowhere
  BY DEF GetExecutableData, System, MacFallback

LEMMA ExecutableExists ==
  ASSUME ToldTruly, os # "mac",
         NEW code, code = (IF os = "linux" THEN ToSet(image.segments) ELSE Loaded),
         NEW r \in code, r.prot = RX,
         \A c \in code : c.prot = RX => Region(c) # Nowhere
  PROVE  GetExecutableData(os, image, table) # Nowhere
  <1> DEFINE text == StandardText(os, image, table)
             answer == GetExecutableData(os, image, table)
  <1>0. /\ os \in System /\ Sourced /\ source \in File /\ image.sections \in Seq(Section)
        /\ image.segments \in Seq(Segment)
    BY DEF ToldTruly, FilesOK, Image
  <1>1. CASE text.size # 0
    <2>1. answer = text  BY <1>0, <1>1, ExecutableCases
    <2> QED  BY <1>1, <2>1 DEF Nowhere
  <1>2. CASE text.size = 0 /\ os = "linux"
    <2>1. answer = LinuxFallback(image, table)  BY <1>0, <1>2, ExecutableCases
    <2> DEFINE executable == {n \in DOMAIN table : table[n].prot = RX}
    <2>2. CASE executable # {}
      <3>1. executable \in SUBSET Nat  BY <1>0, TableFacts
      <3>2. PICK n \in executable : answer = table[n].data
        <4>1. Min(executable) \in executable
          <5> HIDE DEF executable
          <5> QED  BY <2>2, <3>1, MinFacts
        <4> QED  BY <2>1, <2>2, <4>1 DEF LinuxFallback
      <3>3. answer.addr # 0  BY <1>0, <3>2, TableFacts
      <3> QED  BY <3>3 DEF Nowhere
    <2>3. CASE executable = {}
      <3>1. answer = First(image.segments, Executable(image.segments))
        BY <2>1, <2>3 DEF LinuxFallback
      <3>2. PICK i \in DOMAIN image.segments : r = image.segments[i]  BY <1>2 DEF ToSet
      <3>3. Executable(image.segments) # {}
            /\ Executable(image.segments) \in SUBSET DOMAIN image.segments
        BY <3>2 DEF Executable
      <3>4. PICK j \in Executable(image.segments) : answer = Region(image.segments[j])
        BY <1>0, <3>1, <3>3, FirstFacts
      <3>5. image.segments[j] \in code /\ image.segments[j].prot = RX
        BY <1>2, <3>4 DEF ToSet, Executable
      <3> QED  BY <3>4, <3>5
    <2> QED  BY <2>2, <2>3
  <1>3. CASE text.size = 0 /\ os = "windows"
    <2>1. answer = First(image.sections, Executable(image.sections))
      BY <1>0, <1>3, ExecutableCases DEF WindowsFallback
    <2>2. code = ToSet(image.sections)  BY <1>3 DEF Loaded
    <2>3. PICK i \in DOMAIN image.sections : r = image.sections[i]  BY <2>2 DEF ToSet
    <2>4. Executable(image.sections) # {}
          /\ Executable(image.sections) \in SUBSET DOMAIN image.sections
      BY <2>3 DEF Executable
    <2>5. PICK j \in Executable(image.sections) : answer = Region(image.sections[j])
      BY <1>0, <2>1, <2>4, FirstFacts
    <2>6. image.sections[j] \in code /\ image.sections[j].prot = RX
      BY <2>2, <2>5 DEF ToSet, Executable
    <2> QED  BY <2>5, <2>6
  <1> QED  BY <1>0, <1>1, <1>2, <1>3 DEF System

LEMMA ExecutableTold ==
  ASSUME ToldTruly, os = "linux" => table = Table(image.sections),
         NEW code, code = (IF os = "linux" THEN ToSet(image.segments) ELSE Loaded),
         GetExecutableData(os, image, table) # Nowhere
  PROVE  \E r \in code \cup Loaded :
           /\ (r \in Loaded /\ r.name = Text) \/ r.prot \cup {"r"} = RX
           /\ GetExecutableData(os, image, table) = Region(r)
  <1> DEFINE text == StandardText(os, image, table)
             answer == GetExecutableData(os, image, table)
  <1>0. /\ os \in System /\ Sourced /\ source \in File /\ image \in Image /\ image.sections \in Seq(Section)
        /\ image.segments \in Seq(Segment)
    BY DEF ToldTruly, FilesOK, Image
  <1>a. RX \cup {"r"} = RX  BY DEF RX
  <1>1. CASE text.size # 0
    <2>1. answer = text  BY <1>0, <1>1, ExecutableCases
    <2>2. text # Nowhere  BY <2>1
    <2>3. \E s \in Loaded : s.name = Text /\ text = Region(s)
      <3> HIDE DEF text
      <3> QED  BY <1>0, <2>2, StandardTold DEF text
    <2> QED  BY <2>1, <2>3
  <1>2. CASE text.size = 0 /\ os = "linux"
    <2>1. answer = LinuxFallback(image, table)  BY <1>0, <1>2, ExecutableCases
    <2>2. table = Table(image.sections)  BY <1>2
    <2> DEFINE executable == {n \in DOMAIN table : table[n].prot = RX}
    <2>3. CASE executable # {}
      <3>1. executable \in SUBSET Nat  BY <1>0, TableFacts
      <3>2. PICK n \in executable : answer = table[n].data
        <4>1. Min(executable) \in executable
          <5> HIDE DEF executable
          <5> QED  BY <2>3, <3>1, MinFacts
        <4> QED  BY <2>1, <2>3, <4>1 DEF LinuxFallback
      <3>3. PICK s \in ToSet(image.sections) :
              /\ Listed(s) /\ s.name = n
              /\ table[n] = Entry(n, Region(s), s.prot \cup {"r"})
        BY <1>0, <2>2, <3>2, TableEntries
      <3>4. answer = Region(s) /\ s.prot \cup {"r"} = RX  BY <3>2, <3>3 DEF Entry
      <3>5. s \in Loaded  BY <1>2, <3>3 DEF Loaded, Listed
      <3> QED  BY <3>4, <3>5
    <2>4. CASE executable = {}
      <3>1. answer = First(image.segments, Executable(image.segments))
        BY <2>1, <2>4 DEF LinuxFallback
      <3>2. Executable(image.segments) \in SUBSET DOMAIN image.segments  BY DEF Executable
      <3>3. PICK j \in Executable(image.segments) : answer = Region(image.segments[j])
        BY <1>0, <3>1, <3>2, FirstFacts
      <3>4. image.segments[j] \in code /\ image.segments[j].prot = RX
        BY <1>2, <3>3 DEF ToSet, Executable
      <3> QED  BY <1>a, <3>3, <3>4
    <2> QED  BY <2>3, <2>4
  <1>3. CASE text.size = 0 /\ os = "windows"
    <2>1. answer = First(image.sections, Executable(image.sections))
      BY <1>0, <1>3, ExecutableCases DEF WindowsFallback
    <2>2. code = ToSet(image.sections)  BY <1>3 DEF Loaded
    <2>3. Executable(image.sections) \in SUBSET DOMAIN image.sections  BY DEF Executable
    <2>4. PICK j \in Executable(image.sections) : answer = Region(image.sections[j])
      BY <1>0, <2>1, <2>3, FirstFacts
    <2>5. image.sections[j] \in code /\ image.sections[j].prot = RX
      BY <2>2, <2>4 DEF ToSet, Executable
    <2> QED  BY <1>a, <2>4, <2>5
  <1>4. CASE text.size = 0 /\ os = "mac"
    BY <1>0, <1>4, ExecutableCases
  <1> QED  BY <1>0, <1>1, <1>2, <1>3, <1>4 DEF System

LEMMA ToldInvariant == Spec => []ToldTruly
  <1>1. Init => ToldTruly
    <2>1. ASSUME Init PROVE ToldTruly
      <3>1. NoFile \in File  BY DEF NoFile, File
      <3>2. image \in Image /\ os \in System /\ Sourced
        BY <2>1, SectionsAssumption DEF Init, Sourced
      <3>3. FileOf(image.sections) \in File  BY <3>2 DEF FileOf, File, Image
      <3>4. FilesOK  BY <2>1, <3>1, <3>3, SectionsAssumption DEF Init, FilesOK
      <3>5. IInv  BY <2>1, InitIInv
      <3> QED  BY <3>2, <3>4, <3>5 DEF ToldTruly
    <2> QED  BY <2>1
  <1>2. ASSUME ToldTruly, [Next]_vars PROVE ToldTruly'
    <2>1. IInv /\ os \in System /\ image \in Image /\ FilesOK /\ Sourced  BY <1>2 DEF ToldTruly
    <2>2. IInv'  BY <1>2, <2>1, NextIInv
    <2>3. NoFile \in File  BY DEF NoFile, File
    <2>4. UNCHANGED <<os, image>>
      BY <1>2 DEF Next, vars, Step, Call, Enter, OpenFails, Open, ReadFails, Throws, Read, Return, Done, Replace
    <2>5. \/ UNCHANGED <<table, source>>
          \/ \E t \in Thread : Read(t)
      <3>1. ASSUME NEW t \in Thread, Step(t), ~ Read(t) PROVE UNCHANGED <<table, source>>
        BY <3>1 DEF Step, Enter, OpenFails, Open, ReadFails, Throws, Return
      <3>2. ASSUME NEW t \in Thread, NEW q \in Query, Call(t, q) PROVE UNCHANGED <<table, source>>
        BY <3>2 DEF Call
      <3>3. ASSUME NEW f \in Files, Replace(f) PROVE UNCHANGED <<table, source>>
        BY <3>3 DEF Replace
      <3>4. CASE UNCHANGED vars  BY <3>4 DEF vars
      <3> QED  BY <1>2, <3>1, <3>2, <3>3, <3>4 DEF Next
    <2>6. Sourced' /\ source' \in File
      <3>1. CASE UNCHANGED <<table, source>>  BY <2>1, <3>1 DEF Sourced, FilesOK
      <3>2. ASSUME NEW t \in Thread, Read(t) PROVE Sourced' /\ source' \in File
        BY <2>1, <3>2 DEF Read, Sourced, FilesOK
      <3> QED  BY <2>5, <3>1, <3>2
    <2>7. file' \in File /\ opened' \in File
      <3>1. file' = file \/ \E f \in Files : file' = f
        BY <1>2 DEF Next, vars, Step, Call, Enter, OpenFails, Open, ReadFails, Throws, Read, Return, Done, Replace
      <3>2. opened' = opened \/ opened' = NoFile \/ opened' = file
        BY <1>2 DEF Next, vars, Step, Call, Enter, OpenFails, Open, ReadFails, Throws, Read, Return, Done, Replace
      <3> QED  BY <2>1, <2>3, <3>1, <3>2, SectionsAssumption DEF FilesOK
    <2> QED  BY <2>1, <2>2, <2>4, <2>6, <2>7 DEF ToldTruly, FilesOK
  <1> QED  BY <1>1, <1>2, PTL DEF Spec

\* Where the file was the image's own when it was read, the table is that of the image.
LEMMA TableOfImage ==
  ASSUME ToldTruly, FromImage
  PROVE  os = "linux" => table = Table(image.sections)
  <1>1. Sourced  BY DEF ToldTruly
  <1>2. ASSUME os = "linux" PROVE table = Table(image.sections)
    <2>1. source = FileOf(image.sections)  BY <1>2 DEF FromImage
    <2>2. source.state = "readable" /\ source.sections = image.sections  BY <2>1 DEF FileOf
    <2>3. source # NoFile  BY <2>2 DEF NoFile
    <2> QED  BY <1>1, <2>2, <2>3 DEF Sourced
  <1> QED  BY <1>2

\* get_section_data gives the region of a loaded section of the image that has the name,
\* and an empty span only if there is none: for every image, file and number of threads,
\* unless the file of Linux was gone, or another one, when it was read.
THEOREM SectionsTold == Spec => []Truthful
  <1>1. ASSUME ToldTruly, FromImage, NEW a \in seen, a.query.what = "section",
               NEW candidates,
               candidates = {s \in Loaded :
                               /\ s.name = a.query.name
                               /\ IF os = "mac" THEN a.query.segment \in {NoSegment, s.segment}
                                  ELSE a.query.segment = NoSegment}
        PROVE  a.answer \in (IF candidates = {} THEN {Nowhere} ELSE {Region(s) : s \in candidates})
    <2>1. os \in System /\ image \in Image /\ IInv  BY <1>1 DEF ToldTruly
    <2>2. os = "linux" => table = Table(image.sections)  BY <1>1, TableOfImage
    <2>3. a.query \in Query /\ a.answer = Answer(os, image, table, a.query)
      BY <2>1 DEF IInv, Standing
    <2>4. PICK q : q = a.query  OBVIOUS
    <2>5. q.segment \in Nat /\ q.name \in Nat
      <3>1. q.what = "section" /\ q \in Query  BY <1>1, <2>3, <2>4
      <3>2. q \in [what : {"section"}, segment : {NoSegment, TextSegment}, name : Names]
        BY <3>1 DEF Query
      <3>3. q.segment \in {NoSegment, TextSegment} /\ q.name \in Names  BY <3>2
      <3>4. {NoSegment, TextSegment} \subseteq Nat  BY DEF NoSegment, TextSegment
      <3>5. Names \subseteq Nat  BY SectionsAssumption
      <3> QED  BY <3>3, <3>4, <3>5
    <2>6. a.answer = GetSectionData(os, image, table, q.segment, q.name)
      BY <1>1, <2>3, <2>4 DEF Answer
    <2>7. GetSectionData(os, image, table, q.segment, q.name)
            \in (IF candidates = {} THEN {Nowhere} ELSE {Region(s) : s \in candidates})
      BY <1>1, <2>1, <2>2, <2>4, <2>5, SectionTold
    <2> QED  BY <2>6, <2>7
  <1>2. ToldTruly => Truthful  BY <1>1 DEF Truthful
  <1> QED  BY <1>2, ToldInvariant, PTL

\* get_executable_data gives a standard section or what may be read and executed, and finds
\* one where a segment may be, on Linux even if the table is of another file or empty.
THEOREM CodeFound == Spec => []ExecutableFound
  <1>1. ASSUME ToldTruly, NEW a \in seen, a.query.what = "executable",
               NEW code, code = (IF os = "linux" THEN ToSet(image.segments) ELSE Loaded),
               NEW standard, standard = {s \in Loaded : s.name = Text},
               NEW rx, rx = {r \in code \cup Loaded : r.prot \cup {"r"} = RX},
               NEW regions, regions = {Region(r) : r \in {c \in code : c.prot = RX}}
        PROVE  /\ os # "mac" /\ regions # {} /\ Nowhere \notin regions => a.answer # Nowhere
               /\ FromImage /\ a.answer # Nowhere => a.answer \in {Region(r) : r \in standard \cup rx}
    <2>1. os \in System /\ image \in Image /\ IInv  BY <1>1 DEF ToldTruly
    <2>2. a.query \in Query /\ a.answer = Answer(os, image, table, a.query)
      BY <2>1 DEF IInv, Standing
    <2>3. a.answer = GetExecutableData(os, image, table)  BY <1>1, <2>2 DEF Answer
    <2>4. ASSUME os # "mac", regions # {}, Nowhere \notin regions
          PROVE  a.answer # Nowhere
      <3>1. PICK r \in code : r.prot = RX  BY <1>1, <2>4
      <3>2. \A c \in code : c.prot = RX => Region(c) # Nowhere  BY <1>1, <2>4
      <3> QED  BY <1>1, <2>3, <2>4, <3>1, <3>2, ExecutableExists
    <2>5. ASSUME FromImage, a.answer # Nowhere
          PROVE  a.answer \in {Region(r) : r \in standard \cup rx}
      <3>1. os = "linux" => table = Table(image.sections)  BY <1>1, <2>5, TableOfImage
      <3>2. PICK r \in code \cup Loaded :
              /\ (r \in Loaded /\ r.name = Text) \/ r.prot \cup {"r"} = RX
              /\ GetExecutableData(os, image, table) = Region(r)
        BY <1>1, <2>3, <2>5, <3>1, ExecutableTold
      <3>3. r \in standard \cup rx  BY <1>1, <3>2
      <3> QED  BY <2>3, <3>2, <3>3
    <2> QED  BY <2>4, <2>5
  <1>2. ToldTruly => ExecutableFound  BY <1>1 DEF ExecutableFound
  <1> QED  BY <1>2, ToldInvariant, PTL
=============================================================================
