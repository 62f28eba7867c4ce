-------------------------------- MODULE Cow ---------------------------------
(***************************************************************************)
(* hat::cow: a value that is either a view of memory that something else   *)
(* owns, or owned.  The variant behind it holds the view together with an  *)
(* allocator, or the owned container, which has its allocator in it.       *)
(*                                                                         *)
(* A place is memory that holds a value: a source, which is a container of *)
(* the program, or a buffer of an owned value.  The program may look at    *)
(* sources and at cows, and make a cow of what it sees.  It follows the    *)
(* rule of every view: what is seen of an owner may be used until the      *)
(* owner is assigned, modified, moved from or destroyed.  The cows that    *)
(* hold such a view are then stale: they can be assigned and destroyed.    *)
(***************************************************************************)
EXTENDS FiniteSets

CONSTANTS
  Cows,
  Sources,      \* containers of the program
  Buffers,      \* bound on the memory of owned values
  Allocators,
  Default,      \* the allocator that is there without asking
  Values,
  Empty,        \* the value of a default constructed or cleared container
  Nothing,      \* the place an empty view or a cleared container refers to
  Gone,         \* there is no value at a place
  Unsure        \* the program expects no particular value

ASSUME CowAssumption ==
  /\ Default \in Allocators
  /\ Empty \in Values
  /\ Gone \notin Values /\ Unsure \notin Values
  /\ Nothing \notin Sources \cup Buffers \cup Cows
  /\ Sources \cap Buffers = {}
  /\ Sources \cap Cows = {}

Places == Sources \cup Buffers \cup {Nothing}

VARIABLES
  traits,   \* of the allocator and of the values, the same for all cows
  cow,      \* the variant in each cow
  content,  \* the value at each place
  from,     \* the allocator each buffer was taken from
  process,  \* "runs", or "terminated" by an exception nobody can catch
  means,    \* the value the program expects of each cow
  lender,   \* whose value each view was taken of
  stale     \* the cows whose view must not be used any more

vars == <<traits, cow, content, from, process, means, lender, stale>>

Variant == [held : {"view", "owned", "valueless", "absent"}, at : Places, alloc : Allocators]
View(p, a) == [held |-> "view", at |-> p, alloc |-> a]
Owned(b, a) == [held |-> "owned", at |-> b, alloc |-> a]
Valueless == [held |-> "valueless", at |-> Nothing, alloc |-> Default]
Absent == [held |-> "absent", at |-> Nothing, alloc |-> Default]

\* copies and moves: the allocator goes along with an assignment.  selects: a
\* copied container asks for the default allocator (as polymorphic_allocator does).
\* inside: the values are so short that the container keeps them in itself.
Init ==
  /\ traits \in [copies : BOOLEAN, moves : BOOLEAN, selects : BOOLEAN, inside : BOOLEAN]
  /\ cow = [c \in Cows |-> Absent]
  /\ content \in [Places -> Values \cup {Gone}]
  /\ \A p \in Places : content[p] = Gone <=> p \in Buffers
  /\ content[Nothing] = Empty
  /\ from = [b \in Buffers |-> Default]
  /\ process = "runs"
  /\ means = [c \in Cows |-> Unsure]
  /\ lender = [c \in Cows |-> Nothing]
  /\ stale = {}

Is(c, held) == cow[c].held = held
Free == {b \in Buffers : content[b] = Gone}

\* Memory that goes with the alternative c holds.
Holds(c) == IF Is(c, "owned") THEN {cow[c].at} \ {Nothing} ELSE {}

\* What can be looked at, the place seen there, and whose it is: a view of a
\* view is of the same owner.
Visible == {s \in Sources : content[s] # Gone} \cup {c \in Cows : (Is(c, "view") \/ Is(c, "owned")) /\ c \notin stale}
Seen(x) == IF x \in Sources THEN x ELSE cow[x].at
OwnerOf(x) == IF x \in Cows /\ Is(x, "view") THEN lender[x] ELSE x
Expected(x) == IF x \in Sources THEN content[x] ELSE means[x]

-----------------------------------------------------------------------------
(* Ways to change a cow *)

\* c holds entry from now on, and what was seen of the owners is no longer good.
Becomes(c, entry, value, owner, owners) ==
  /\ cow' = [cow EXCEPT ![c] = entry]
  /\ means' = [means EXCEPT ![c] = value]
  /\ lender' = [lender EXCEPT ![c] = owner]
  /\ stale' = {x \in Cows : cow'[x].held = "view" /\ (lender'[x] \in owners \/ x \in stale \ {c})}
  /\ UNCHANGED <<traits, process>>

Forget(places) == [p \in Places |-> IF p \in places THEN Gone ELSE content[p]]

\* c looks at x with the allocator a.
Looks(c, x, a) ==
  /\ Becomes(c, View(Seen(x), a), Expected(x), OwnerOf(x), {c})
  /\ content' = Forget(Holds(c))
  /\ UNCHANGED from

\* c owns v in new memory, perhaps in itself, which comes from a.
Owns(c, v, expected, a) ==
  \E b \in Free :
    /\ Becomes(c, Owned(b, a), expected, Nothing, {c})
    /\ content' = [Forget(Holds(c)) EXCEPT ![b] = v]
    /\ from' = [from EXCEPT ![b] = a]

\* The value that d owns goes to c, with its memory unless it is inside d; d stays
\* an owner, of a cleared container.
Moves(c, d, a) ==
  LET place == cow[d].at IN
  /\ \E b \in IF traits.inside /\ place # Nothing THEN Free ELSE {place} :
       /\ cow' = [cow EXCEPT ![d].at = Nothing, ![c] = Owned(b, a)]
       /\ content' = [p \in Places |->
                        IF p = b THEN content[place]
                        ELSE IF p \in Holds(c) \cup Holds(d) THEN Gone ELSE content[p]]
       /\ from' = IF b \in Buffers THEN [from EXCEPT ![b] = a] ELSE from
  /\ means' = [means EXCEPT ![d] = Unsure, ![c] = means[d]]
  /\ lender' = [lender EXCEPT ![c] = Nothing]
  /\ stale' = {x \in Cows : cow'[x].held = "view" /\ (lender'[x] \in {c, d} \/ x \in stale \ {c})}
  /\ UNCHANGED <<traits, process>>

\* c owns a cleared container.
Clears(c, a) ==
  /\ Becomes(c, Owned(Nothing, a), Unsure, Nothing, {c})
  /\ content' = Forget(Holds(c))
  /\ UNCHANGED from

Loses(c) ==
  /\ Becomes(c, Valueless, Unsure, Nothing, {c})
  /\ content' = Forget(Holds(c))
  /\ UNCHANGED from

\* get_allocator and viewed are noexcept, and a variant without a value throws.
Terminates == process' = "terminated" /\ UNCHANGED <<traits, cow, content, from, means, lender, stale>>

\* Memory for a value that is not inside may be refused.  All that throw do so
\* before anything is changed, unless the action says otherwise.
Throws == ~traits.inside /\ UNCHANGED vars

-----------------------------------------------------------------------------
(* Construction and destruction *)

SelectOnCopy(a) == IF traits.selects THEN Default ELSE a

ConstructDefault(c) ==
  /\ Is(c, "absent")
  /\ \E a \in Allocators : Becomes(c, View(Nothing, a), Empty, Nothing, {})
  /\ UNCHANGED <<content, from>>

ConstructViewed(c) ==
  /\ Is(c, "absent")
  /\ \E x \in Visible, a \in Allocators : Looks(c, x, a)

ConstructOwned(c) ==
  /\ Is(c, "absent")
  /\ \/ \E v \in Values, a \in Allocators : Owns(c, v, v, a)
     \/ Throws

\* Slip: the memory of the other cow is shared.
CopyShares(c, d) ==
  /\ Is(c, "absent") /\ d \in Visible
  /\ Becomes(c, [cow[d] EXCEPT !.alloc = SelectOnCopy(@)], means[d], lender[d], {c})
  /\ UNCHANGED <<content, from>>

CopyConstruct(c, d) ==
  /\ Is(c, "absent") /\ d \in Visible
  /\ \/ Is(d, "view") /\ Looks(c, d, SelectOnCopy(cow[d].alloc))
     \/ Is(d, "owned") /\ Owns(c, content[cow[d].at], means[d], SelectOnCopy(cow[d].alloc))
     \/ Is(d, "owned") /\ Throws

MoveConstruct(c, d) ==
  /\ Is(c, "absent") /\ d \in Visible
  /\ \/ Is(d, "view") /\ Looks(c, d, cow[d].alloc)
     \/ Is(d, "owned") /\ Moves(c, d, cow[d].alloc)

CopyValueless(c, d) == Is(c, "absent") /\ Is(d, "valueless") /\ Loses(c)

Destroy(c) ==
  /\ ~Is(c, "absent")
  /\ Becomes(c, Absent, Unsure, Nothing, {c})
  /\ content' = Forget(Holds(c))
  /\ UNCHANGED from

-----------------------------------------------------------------------------
(* Assignment *)

\* An allocator that goes along: the variant is assigned, which assigns a
\* container to a container and otherwise constructs a copy.
CopyAssignVariant(c, d) ==
  /\ traits.copies
  /\ \/ Is(d, "view") /\ Looks(c, d, cow[d].alloc)
     \/ Is(d, "owned") /\ c # d
        /\ Owns(c, content[cow[d].at], means[d],
                IF Is(c, "owned") THEN cow[d].alloc ELSE SelectOnCopy(cow[d].alloc))
     \/ Is(d, "owned") /\ Throws
     \/ Is(d, "owned") /\ Is(c, "owned") /\ c # d  \* a vector gives its memory back first
        /\ ~traits.inside /\ Clears(c, cow[d].alloc)

\* One that does not: c keeps its own.
CopyAssignKeeping(c, d) ==
  /\ ~traits.copies
  /\ IF Is(c, "valueless") THEN Terminates
     ELSE \/ Is(d, "view") /\ Looks(c, d, cow[c].alloc)
          \/ Is(d, "owned") /\ Owns(c, content[cow[d].at], means[d], cow[c].alloc)
          \/ Is(d, "owned") /\ Throws

CopyAssign(c, d) ==
  /\ ~Is(c, "absent") /\ d \in Visible
  /\ CopyAssignVariant(c, d) \/ CopyAssignKeeping(c, d)

\* A container moved to itself keeps its value or is cleared.
MoveToItself(c) ==
  /\ Is(c, "owned")
  /\ \/ /\ Becomes(c, cow[c], means[c], Nothing, {c})
        /\ UNCHANGED <<content, from>>
     \/ Clears(c, cow[c].alloc)

MoveAssignVariant(c, d) ==
  /\ traits.moves
  /\ \/ Is(d, "view") /\ Looks(c, d, cow[d].alloc)
     \/ Is(d, "owned") /\ c # d /\ Moves(c, d, cow[d].alloc)
     \/ c = d /\ MoveToItself(c)

\* Between unequal allocators the value is copied; the other container keeps it, or
\* what the library leaves of it.
MoveAssignKeeping(c, d) ==
  /\ ~traits.moves
  /\ IF Is(c, "valueless") THEN Terminates
     ELSE \/ Is(d, "view") /\ Looks(c, d, cow[c].alloc)
          \/ Is(d, "owned") /\ cow[c].alloc = cow[d].alloc /\ Moves(c, d, cow[c].alloc)
          \/ Is(d, "owned") /\ cow[c].alloc # cow[d].alloc
             /\ Owns(c, content[cow[d].at], means[d], cow[c].alloc)
          \/ Is(d, "owned") /\ cow[c].alloc # cow[d].alloc /\ Throws

MoveAssign(c, d) ==
  /\ ~Is(c, "absent") /\ d \in Visible
  /\ MoveAssignVariant(c, d) \/ MoveAssignKeeping(c, d)

\* Assigning a cow without a value: the variant takes that over, while the allocator
\* of c can be asked for before or after the value of d.
AssignValueless(c, d) ==
  /\ ~Is(c, "absent") /\ Is(d, "valueless")
  /\ \/ (traits.copies \/ traits.moves) /\ Loses(c)
     \/ ~(traits.copies /\ traits.moves) /\ UNCHANGED vars
     \/ ~(traits.copies /\ traits.moves) /\ Is(c, "valueless") /\ Terminates

-----------------------------------------------------------------------------
(* Use *)

\* Slip: what is viewed is taken over in place.
EnsureInPlace(c) ==
  /\ Is(c, "view") /\ c \notin stale
  /\ Becomes(c, Owned(cow[c].at, cow[c].alloc), means[c], Nothing, {c})
  /\ UNCHANGED <<content, from>>

\* Slip: an exception while the value is copied cannot be caught.
EnsureNoexcept(c) ==
  /\ Is(c, "view") /\ c \notin stale
  /\ \/ Owns(c, content[cow[c].at], means[c], cow[c].alloc)
     \/ ~traits.inside /\ Terminates

\* owned() of a cow that is one already changes nothing.
EnsureOwned(c) ==
  /\ Is(c, "view") /\ c \notin stale
  /\ \/ Owns(c, content[cow[c].at], means[c], cow[c].alloc)
     \/ Throws

\* The program writes to what owned() returns, which may take new memory for it.
Modify(c) ==
  /\ Is(c, "owned")
  /\ \E v \in Values, b \in Free \cup Holds(c) :
       /\ Becomes(c, Owned(b, cow[c].alloc), v, Nothing, {c})
       /\ content' = [Forget(Holds(c)) EXCEPT ![b] = v]
       /\ from' = [from EXCEPT ![b] = cow[c].alloc]

\* The program moves owned() && out of the cow, which owns it before.
TakeOut(c) ==
  /\ c \in Visible
  /\ \/ Clears(c, cow[c].alloc)
     \/ Is(c, "view") /\ Throws

\* Slip: the allocator of the owned value is not taken back out.
EmplaceViewedAnew(c) == (Is(c, "view") \/ Is(c, "owned")) /\ \E x \in Visible : Looks(c, x, Default)

EmplaceViewed(c) ==
  /\ Is(c, "view") \/ Is(c, "owned")
  /\ \E x \in Visible : Looks(c, x, cow[c].alloc)

\* The variant destroys what it holds before it makes the new value, so that one
\* that cannot be made leaves nothing.
EmplaceOwned(c) ==
  /\ Is(c, "view") \/ Is(c, "owned")
  /\ \/ \E v \in Values : Owns(c, v, v, cow[c].alloc)
     \/ ~traits.inside /\ Loses(c)

\* Without a value, owned() throws; viewed(), get_allocator() and the operations
\* that ask for the allocator do not return.
AskValueless(c) == Is(c, "valueless") /\ (UNCHANGED vars \/ Terminates)

\* The program assigns a container of its own, or destroys it.
SourceChanges(s) ==
  /\ \E v \in Values \cup {Gone} : content' = [content EXCEPT ![s] = v]
  /\ stale' = stale \cup {c \in Cows : Is(c, "view") /\ lender[c] = s}
  /\ UNCHANGED <<traits, cow, from, process, means, lender>>

Next ==
  /\ process = "runs"
  /\ \/ \E c \in Cows :
          \/ ConstructDefault(c) \/ ConstructViewed(c) \/ ConstructOwned(c) \/ Destroy(c)
          \/ EnsureOwned(c) \/ Modify(c) \/ TakeOut(c)
          \/ EmplaceViewed(c) \/ EmplaceOwned(c) \/ AskValueless(c)
     \/ \E c \in Cows, d \in Cows :
          \/ CopyConstruct(c, d) \/ MoveConstruct(c, d) \/ CopyValueless(c, d)
          \/ CopyAssign(c, d) \/ MoveAssign(c, d) \/ AssignValueless(c, d)
     \/ \E s \in Sources : SourceChanges(s)

Spec == Init /\ [][Next]_vars

-----------------------------------------------------------------------------
(* Properties *)

\* The variables keep to their types.
TypeOK ==
  /\ traits \in [copies : BOOLEAN, moves : BOOLEAN, selects : BOOLEAN, inside : BOOLEAN]
  /\ cow \in [Cows -> Variant]
  /\ content \in [Places -> Values \cup {Gone}]
  /\ from \in [Buffers -> Allocators]
  /\ process \in {"runs", "terminated"}
  /\ means \in [Cows -> Values \cup {Unsure}]
  /\ lender \in [Cows -> Cows \cup Sources \cup {Nothing}]
  /\ stale \subseteq Cows

\* Memory is owned once and goes back where it came from: every buffer that has a
\* value is that of one cow, which holds the allocator it was taken from, and a cow
\* never owns memory that is free or that of a source.
BuffersAccounted ==
  /\ \A c \in Cows : Is(c, "owned") =>
       \/ cow[c].at = Nothing
       \/ cow[c].at \in Buffers \ Free /\ from[cow[c].at] = cow[c].alloc
  /\ \A b \in Buffers \ Free : \E c \in Cows : b \in Holds(c)
  /\ \A c, d \in Cows : c # d => Holds(c) \cap Holds(d) = {}

\* Copy on write: whatever is done to other cows and, for one that owns its value, to
\* what it was made of, a cow reads as the value it was given, so long as the
\* program keeps to the rule of views.
ReadsAsExpected ==
  \A c \in Cows \cap Visible :
    content[cow[c].at] \in IF means[c] = Unsure THEN Values ELSE {means[c]}

\* A cow keeps the allocator it was made with, through the changes between view and
\* owned value and back, if its allocator does not go along with assignments.
AllocatorKept ==
  [][\A c \in Cows : {cow[c].held, cow'[c].held} \subseteq {"view", "owned"}
                        /\ ~traits.copies /\ ~traits.moves
                      => cow'[c].alloc = cow[c].alloc]_vars

\* An exception ends the process only when a cow was left without a value before.
TerminatesOnlyValueless == process = "terminated" => \E c \in Cows : Is(c, "valueless")

=============================================================================
