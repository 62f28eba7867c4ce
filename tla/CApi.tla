-------------------------------- MODULE CApi --------------------------------
(***************************************************************************)
(* The objects that the C interface hands out, and the checks it makes on  *)
(* the pointers it is given back.  An object begins with a magic number    *)
(* and the number of its type; libhat_free swaps the type for a tombstone  *)
(* before it deletes the object.                                           *)
(*                                                                         *)
(* The program may pass any pointer it was ever given, of an object that   *)
(* is gone or of another type, and a pointer to memory that is not of the  *)
(* library, from several threads at once.  Memory that was freed stays     *)
(* readable, as the interface assumes of every pointer, and keeps its      *)
(* contents until the allocator or the program overwrites it or a new      *)
(* object is made there.                                                   *)
(***************************************************************************)
EXTENDS Integers, Sequences, FiniteSets

CONSTANTS
  Threads,
  Slots,       \* addresses where objects are made
  Foreign,     \* the address of something that is not an object
  MaxObjects   \* bound on the objects ever made

ASSUME CApiAssumption ==
  /\ Foreign \notin Slots
  /\ MaxObjects \in Nat \ {0}

Types == {"signature", "module"}
Null == [at |-> Foreign, id |-> -1]
ForeignPointer == [at |-> Foreign, id |-> 0]

VARIABLES
  mem,        \* what is at each address
  made,       \* the number of objects made
  given,      \* the pointers to objects that were ever handed out
  call,       \* the call each thread is in
  process,    \* "runs", "terminated", or "undefined" after a wild access
  misuse,     \* what the program has done so far that it should not have, and
              \* what became of the memory of objects that were gone
  destroyed,  \* how often the destructor of each object has run
  broken      \* whether a call had another effect than the one its arguments call for

vars == <<mem, made, given, call, process, misuse, destroyed, broken>>

\* due is the effect that the arguments of a call have by the table of the README.
NoCall == [pc |-> "idle", args |-> <<>>, k |-> 1, align |-> TRUE, due |-> "none"]

Init ==
  /\ mem = [s \in Slots \cup {Foreign} |-> [object |-> FALSE, magic |-> FALSE, type |-> "other", id |-> 0]]
  /\ made = 0
  /\ given = {}
  /\ call = [t \in Threads |-> NoCall]
  /\ process = "runs"
  /\ misuse = {}
  /\ destroyed = [n \in 1 .. MaxObjects |-> 0]
  /\ broken = FALSE

Idle(t) == call[t].pc = "idle"
Is(t, pc) == call[t].pc = pc
Cell(p) == mem[p.at]

Live(p) == Cell(p).object /\ Cell(p).id = p.id

\* The call of t ends with an effect.
Ends(t, effect) ==
  /\ call' = [call EXCEPT ![t] = NoCall]
  /\ broken' = (broken \/ effect # call[t].due)

\* The pointers a program can pass.  Null is what it has of a parse that failed or of
\* a module that was not found; where libhat_create_signature fails, it has the pointer
\* it had before.
Pointers == given \cup {Null, ForeignPointer}

\* The argument the call of t is at.
Arg(t) == call[t].args[call[t].k]

Uses(t, s) == \E k \in DOMAIN call[t].args : call[t].args[k].p.at = s
Frees(t, s) == Uses(t, s) /\ call[t].pc \in {"magic", "exchange", "destroy"}

-----------------------------------------------------------------------------
(* Functions that make an object: libhat_parse_signature,                  *)
(* libhat_create_signature, libhat_get_process_module, libhat_get_module   *)
(* and libhat_module_at                                                    *)

New(type, id) == [object |-> TRUE, magic |-> TRUE, type |-> type, id |-> id]

Make(t, type) ==
  /\ Idle(t) /\ made < MaxObjects
  /\ \E s \in {s \in Slots : ~mem[s].object} :
       /\ mem' = [mem EXCEPT ![s] = New(type, made + 1)]
       /\ given' = given \cup {[at |-> s, id |-> made + 1]}
       /\ misuse' = misuse \cup {m \in {"reused"} : mem[s].id > 0}
  /\ made' = made + 1
  /\ UNCHANGED <<call, process, destroyed, broken>>

\* libhat_parse_signature alone does not look for null.
ParseNull(t) ==
  /\ Idle(t)
  /\ process' = "undefined"
  /\ misuse' = misuse \cup {"null text"}
  /\ broken' = TRUE
  /\ UNCHANGED <<mem, made, given, call, destroyed>>

-----------------------------------------------------------------------------
(* Functions that are given objects *)

\* The objects a function wants: libhat_find_pattern, libhat_module_* and
\* libhat_find_pattern_mod.
Wanted == { <<"signature">>, <<"module">>, <<"signature", "module">> }

\* The effect a call has by README.md:45-52 (bindings/c).
Due(args, align) ==
  IF \E k \in DOMAIN args : args[k].p = Null THEN "err value"
  ELSE IF \E k \in DOMAIN args : ~Live(args[k].p) \/ Cell(args[k].p).type # args[k].type THEN "err type"
  ELSE IF ~align THEN "err value" ELSE "success"

AnyNull(p) == \E k \in DOMAIN p : p[k] = Null

\* A null pointer is refused at once.  align is whether the alignment is one of those
\* the enumeration has, for the functions that search.
CallOf(t, want, p, align) ==
  LET args == [k \in DOMAIN want |-> [p |-> p[k], type |-> want[k]]] IN
  /\ Idle(t)
  /\ want[1] = "module" => align
  /\ IF AnyNull(p)
     THEN broken' = (broken \/ Due(args, align) # "err value") /\ UNCHANGED <<call, misuse>>
     ELSE /\ call' = [call EXCEPT ![t] =
               [pc |-> "check", k |-> 1, args |-> args, align |-> align, due |-> Due(args, align)]]
          /\ misuse' = misuse
               \cup {m \in {"stale"} : \E k \in DOMAIN p : ~Live(p[k])}
               \cup {m \in {"overlap"} : \E k \in DOMAIN p : \E u \in Threads : Frees(u, p[k].at)}
          /\ UNCHANGED broken
  /\ UNCHANGED <<mem, made, given, process, destroyed>>

CallWith(t) ==
  \E want \in Wanted : \E p \in [DOMAIN want -> Pointers], align \in BOOLEAN : CallOf(t, want, p, align)

\* Slip: any object will do.
HasMagic(c, type) == c.magic

IsType(c, type) == c.magic /\ c.type = type

\* check_type of one argument after the other, and then the alignment; either
\* may end the call with an error.
CheckType(t) ==
  LET ok == IsType(Cell(Arg(t).p), Arg(t).type)
      last == call[t].k = Len(call[t].args) IN
  /\ Is(t, "check")
  /\ \/ ~ok /\ Ends(t, "err type")
     \/ ok /\ last /\ ~call[t].align /\ Ends(t, "err value")
     \/ ok /\ last /\ call[t].align
        /\ call' = [call EXCEPT ![t].pc = "use"] /\ UNCHANGED broken
     \/ ok /\ ~last
        /\ call' = [call EXCEPT ![t].k = @ + 1] /\ UNCHANGED broken
  /\ UNCHANGED <<mem, made, given, process, misuse, destroyed>>

\* What the function is for, which reads the objects.
Use(t) ==
  LET args == call[t].args IN
  /\ Is(t, "use")
  /\ process' = IF \A k \in DOMAIN args : Live(args[k].p) /\ Cell(args[k].p).type = args[k].type
                THEN process ELSE "undefined"
  /\ Ends(t, "success")
  /\ UNCHANGED <<mem, made, given, misuse, destroyed>>

-----------------------------------------------------------------------------
(* libhat_free *)

FreeOf(t, p) ==
  /\ Idle(t)
  /\ call' = [call EXCEPT ![t] =
       [NoCall EXCEPT !.pc = "magic", !.args = << [p |-> p, type |-> "any"] >>,
                      !.due = IF Live(p) THEN "freed" ELSE "terminate"]]
  /\ misuse' = misuse
       \cup {m \in {"stale"} : ~Live(p)}
       \cup {m \in {"overlap"} : \E u \in Threads : Uses(u, p.at)}
  /\ UNCHANGED <<mem, made, given, process, destroyed, broken>>

\* Freeing null does nothing.
Free(t) == \E p \in Pointers \ {Null} : FreeOf(t, p)

Terminate(t) ==
  /\ process' = "terminated"
  /\ Ends(t, "terminate")

\* Slip: whatever is at the address is taken for an object.
TakeForObject(t) ==
  /\ Is(t, "magic")
  /\ call' = [call EXCEPT ![t].pc = "exchange"]
  /\ UNCHANGED <<mem, made, given, misuse, destroyed, broken, process>>

CheckMagic(t) ==
  /\ Is(t, "magic")
  /\ IF Cell(Arg(t).p).magic
     THEN call' = [call EXCEPT ![t].pc = "exchange"] /\ UNCHANGED <<process, broken>>
     ELSE Terminate(t)
  /\ UNCHANGED <<mem, made, given, misuse, destroyed>>

\* Slips: a tombstone is ignored, and the old type is not looked at.
ExchangeIgnores(t) ==
  LET p == Arg(t).p IN
  /\ Is(t, "exchange")
  /\ mem' = [mem EXCEPT ![p.at].type = "tombstone"]
  /\ IF Cell(p).type = "tombstone"
     THEN Ends(t, "freed")
     ELSE call' = [call EXCEPT ![t].pc = "destroy"] /\ UNCHANGED broken
  /\ UNCHANGED <<made, given, misuse, destroyed, process>>

ExchangeBlindly(t) ==
  /\ Is(t, "exchange")
  /\ mem' = [mem EXCEPT ![Arg(t).p.at].type = "tombstone"]
  /\ call' = [call EXCEPT ![t].pc = "destroy"]
  /\ UNCHANGED <<made, given, misuse, destroyed, broken, process>>

\* type.exchange: one atomic step.
Exchange(t) ==
  LET p == Arg(t).p IN
  /\ Is(t, "exchange")
  /\ mem' = [mem EXCEPT ![p.at].type = "tombstone"]
  /\ IF Cell(p).type = "tombstone"
     THEN Terminate(t)
     ELSE call' = [call EXCEPT ![t].pc = "destroy"] /\ UNCHANGED <<process, broken>>
  /\ UNCHANGED <<made, given, misuse, destroyed>>

\* The object's own destroy function deletes it.  Where there is no object it is
\* a wild call.
Destroy(t) ==
  LET p == Arg(t).p
      id == Cell(p).id IN
  /\ Is(t, "destroy")
  /\ process' = IF Cell(p).object THEN process ELSE "undefined"
  /\ destroyed' = IF id > 0 THEN [destroyed EXCEPT ![id] = @ + 1] ELSE destroyed
  /\ mem' = [mem EXCEPT ![p.at].object = FALSE]
  /\ Ends(t, "freed")
  /\ UNCHANGED <<made, given, misuse>>

\* The allocator or the program writes to memory that was freed, perhaps while a
\* call is looking at it.
Overwrite(s) ==
  /\ ~mem[s].object /\ mem[s].magic
  /\ mem' = [mem EXCEPT ![s].magic = FALSE, ![s].type = "other"]
  /\ misuse' = misuse \cup {"overwritten"}
                       \cup {m \in {"overlap"} : \E t \in Threads : Uses(t, s)}
  /\ UNCHANGED <<made, given, call, process, destroyed, broken>>

-----------------------------------------------------------------------------
Next ==
  /\ process = "runs"
  /\ \/ \E t \in Threads :
          \/ \E type \in Types : Make(t, type)
          \/ ParseNull(t)
          \/ CallWith(t) \/ CheckType(t) \/ Use(t)
          \/ Free(t) \/ CheckMagic(t) \/ Exchange(t) \/ Destroy(t)
     \/ \E s \in Slots : Overwrite(s)

Spec == Init /\ [][Next]_vars

-----------------------------------------------------------------------------
(* Properties *)

\* Where an object is, its destructor has not run, and an object that carries
\* its type and not the tombstone is not being deleted.
TypeOK ==
  /\ \A s \in Slots : mem[s].type \in Types \cup {"tombstone", "other"} /\ mem[s].id \in 0 .. made
  /\ \A s \in Slots : mem[s].object => mem[s].magic /\ destroyed[mem[s].id] = 0
  /\ \A p \in given : p.at \in Slots /\ p.id \in 1 .. made

Without(what) == misuse \cap what = {}

\* The promise to a program that behaves, which passes only objects it has not freed,
\* and frees none that another call is given: whatever their types, no call touches
\* memory that is not the object it wants, and nothing terminates the process.
DisciplinedSafe == Without({"stale", "overlap", "null text"}) => process = "runs"

\* README.md:41 (bindings/c): misuse is detected instead of becoming undefined
\* behaviour.  Stale pointers, pointers to something else and wrong types are always
\* caught, unless calls overlap or a new object has taken the place of the old, and
\* so is null, but for the text that libhat_parse_signature is given.
MisuseCaught == Without({"overlap", "reused", "null text"}) => process # "undefined"

\* README.md:45-52 (bindings/c): every call has the effect that table gives its
\* arguments, the error, success, or the end of the process, with the same exceptions.
EffectAsPromised == Without({"overlap", "reused", "null text"}) => ~broken

\* However many threads free an object at once, its destructor runs once, as long as
\* its memory is left alone: the exchange lets one of them through.
DestroyedOnce ==
  Without({"reused", "overwritten"}) => \A n \in 1 .. made : destroyed[n] <= 1
=============================================================================
