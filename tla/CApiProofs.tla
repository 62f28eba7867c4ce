----------------------------- MODULE CApiProofs -----------------------------
(***************************************************************************)
(* Any number of threads, addresses and objects: what the checks of the C  *)
(* interface catch, and that an object is destroyed once.                  *)
(*                                                                         *)
(* A call in progress pins the memory it looks at.  Nobody else frees it   *)
(* or writes to it, or the calls overlap; and no new object is made there, *)
(* because the old one is still there, or else the memory is reused.       *)
(*                                                                         *)
(* What the bindings do is a behaviour of the C interface, since a wrapper *)
(* holds a pointer the interface gave it, or none.  An object is reached   *)
(* from its wrapper until it is freed; and where each wrapper belongs to   *)
(* one thread, what the methods of that thread have read of it stays true. *)
(***************************************************************************)
EXTENDS Bindings, SequenceTheorems, TLAPS

Addresses == Slots \cup {Foreign}
Pointer == [at : Addresses, id : Int]
Argument == [p : Pointer, type : Types \cup {"any"}]
Effects == {"none", "err value", "err type", "success", "freed", "terminate"}
Calls == [pc : {"idle", "check", "use", "magic", "exchange", "destroy"}, args : Seq(Argument),
          k : Nat, align : BOOLEAN, due : Effects]
Contents == [object : BOOLEAN, magic : BOOLEAN, type : Types \cup {"tombstone", "other"}, id : Nat]

Typed ==
  /\ mem \in [Addresses -> Contents]
  /\ made \in 0 .. MaxObjects
  /\ given \subseteq Pointer
  /\ call \in [Threads -> Calls]
  /\ \A t \in Threads : Idle(t) => call[t] = NoCall
  /\ \A t \in Threads : ~Idle(t) => call[t].k \in 1 .. Len(call[t].args)
  /\ destroyed \in [1 .. MaxObjects -> Nat]

\* The program does not do what no check can catch, and memory that a pointer it still
\* uses refers to is not reused.
Careful == Without({"overlap", "null text"}) /\ (Without({"stale"}) \/ Without({"reused"}))

Destroying(t, s) == Is(t, "destroy") /\ Uses(t, s)

\* The type tells an object from what is left of one.
CellOK(s) ==
  /\ mem[s].object =>
       /\ mem[s].magic /\ s \in Slots /\ mem[s].id > 0
       /\ mem[s].type \in Types \/ (mem[s].type = "tombstone" /\ \E t \in Threads : Destroying(t, s))
  /\ ~mem[s].object => mem[s].type \notin Types
  /\ mem[s].magic => s \in Slots /\ (mem[s].object \/ mem[s].type = "tombstone")

PointerOK(p) ==
  p = Null \/ (p.at \in Slots /\ p.id > 0 /\ (Without({"reused"}) => mem[p.at].id = p.id))

\* An argument is the object that was meant, or what is left of it.
ArgumentOK(p) ==
  /\ p # Null
  /\ p.at \in Slots => p.id > 0 /\ mem[p.at].id = p.id
  /\ Without({"stale"}) => Live(p)

Looks(t) == call[t].pc \in {"check", "use"}
Frees1(t) == call[t].pc \in {"magic", "exchange", "destroy"}

Checked(t) ==
  /\ \A j \in DOMAIN call[t].args :
       /\ call[t].args[j].type \in Types
       /\ j < call[t].k \/ Is(t, "use") => IsType(Cell(call[t].args[j].p), call[t].args[j].type)
  /\ call[t].due = Due(call[t].args, call[t].align)
  /\ Is(t, "use") => call[t].align

Freeing(t) ==
  LET p == call[t].args[1].p IN
  /\ Len(call[t].args) = 1 /\ call[t].k = 1
  /\ Is(t, "exchange") => Cell(p).magic
  /\ ~Is(t, "destroy") => call[t].due = IF Live(p) THEN "freed" ELSE "terminate"
  /\ Is(t, "destroy") => Cell(p).object /\ Cell(p).type = "tombstone" /\ call[t].due = "freed"

CallOK(t) ==
  /\ \A j \in DOMAIN call[t].args : ArgumentOK(call[t].args[j].p)
  /\ Looks(t) => Checked(t)
  /\ Frees1(t) => Freeing(t)
  /\ \A s \in Addresses, u \in Threads : Uses(t, s) /\ u # t =>
       /\ ~Frees(u, s)
       /\ Frees1(t) => ~Uses(u, s)

Sound ==
  /\ \A s \in Addresses : CellOK(s)
  /\ \A p \in given : PointerOK(p)
  /\ \A t \in Threads : ~Idle(t) => CallOK(t)
  /\ ~broken
  /\ process # "undefined"
  /\ process = "terminated" => ~Without({"stale"})

\* The destructor of an object has run, or is about to, only where the tombstone is.
Once(n) ==
  /\ destroyed[n] <= 1
  /\ destroyed[n] = 1 => \A s \in Slots : mem[s].id = n => mem[s].type = "tombstone" /\ \A t \in Threads : ~Destroying(t, s)

Kept(s) ==
  /\ mem[s].magic => s \in Slots /\ mem[s].id > 0
  /\ mem[s].id > 0 => mem[s].magic /\ (mem[s].object \/ mem[s].type = "tombstone")
  /\ \A t \in Threads : Destroying(t, s) =>
       /\ s \in Slots /\ mem[s].type = "tombstone" /\ mem[s].id > 0
       /\ \A u \in Threads : Destroying(u, s) => u = t
  /\ \A t \in Threads : Is(t, "exchange") /\ Uses(t, s) => mem[s].magic

Single ==
  /\ \A t \in Threads : Frees1(t) => Len(call[t].args) = 1 /\ call[t].k = 1
  /\ \A s \in Addresses : mem[s].id <= made
  /\ \A s, r \in Addresses : mem[s].id = mem[r].id /\ mem[s].id > 0 => s = r
  /\ \A n \in 1 .. MaxObjects : n > made => destroyed[n] = 0
  /\ Without({"reused", "overwritten"}) =>
       /\ \A s \in Addresses : Kept(s)
       /\ \A n \in 1 .. MaxObjects : Once(n)

IInv == Typed /\ (Careful => Sound) /\ Single

-----------------------------------------------------------------------------
(* Types *)

LEMMA SequenceOf ==
  ASSUME NEW S, NEW n \in Nat, NEW f \in [1 .. n -> S]
  PROVE  f \in Seq(S) /\ Len(f) = n /\ DOMAIN f = 1 .. n
  BY SeqDef, LenProperties

LEMMA CallFacts ==
  ASSUME Typed, NEW t \in Threads
  PROVE  /\ call[t] \in Calls
         /\ DOMAIN call[t].args = 1 .. Len(call[t].args) /\ Len(call[t].args) \in Nat
         /\ \A j \in DOMAIN call[t].args :
              /\ call[t].args[j] \in Argument
              /\ call[t].args[j].p \in Pointer /\ call[t].args[j].p.at \in Addresses
              /\ Uses(t, call[t].args[j].p.at)
         /\ Idle(t) => ~(\E s : Uses(t, s))
         /\ ~Idle(t) => call[t].k \in DOMAIN call[t].args
  <1>1. call[t] \in Calls  BY DEF Typed
  <1>2. call[t].args \in Seq(Argument)  BY <1>1 DEF Calls
  <1>3. DOMAIN call[t].args = 1 .. Len(call[t].args) /\ Len(call[t].args) \in Nat
    BY <1>2, LenProperties
  <1>4. \A j \in DOMAIN call[t].args : call[t].args[j] \in Argument
    BY <1>2, <1>3, ElementOfSeq
  <1>5. Idle(t) => DOMAIN call[t].args = {}
    <2>1. Idle(t) => call[t].args = << >>  BY DEF Typed, NoCall
    <2> QED  BY <2>1
  <1> QED  BY <1>1, <1>3, <1>4, <1>5 DEF Typed, Argument, Pointer, Uses

LEMMA CellFacts ==
  ASSUME Typed, NEW p \in Pointer
  PROVE  Cell(p) \in Contents /\ Cell(p) = mem[p.at] /\ p.at \in Addresses
  BY DEF Typed, Pointer, Cell

LEMMA PointersTyped ==
  ASSUME Typed
  PROVE  Pointers \subseteq Pointer /\ Null \in Pointer
  BY DEF Typed, Pointers, Pointer, Null, ForeignPointer, Addresses

\* The arguments a call is made with.
LEMMA ArgumentsTyped ==
  ASSUME Typed, NEW want \in Wanted, NEW p \in [DOMAIN want -> Pointers]
  PROVE  LET args == [j \in DOMAIN want |-> [p |-> p[j], type |-> want[j]]] IN
         /\ args \in Seq(Argument) /\ Len(args) \in {1, 2} /\ DOMAIN args = DOMAIN want
         /\ \A j \in DOMAIN want : want[j] \in Types
  <1>1. PICK n \in {1, 2} : DOMAIN want = 1 .. n /\ \A j \in 1 .. n : want[j] \in Types
    BY DEF Wanted, Types
  <1>2. \A j \in 1 .. n : [p |-> p[j], type |-> want[j]] \in Argument
    BY <1>1, PointersTyped DEF Argument
  <1>3. [j \in DOMAIN want |-> [p |-> p[j], type |-> want[j]]] \in [1 .. n -> Argument]
    BY <1>1, <1>2
  <1> QED  BY <1>1, <1>3, SequenceOf

LEMMA NoCallTyped == NoCall \in Calls
  BY DEF NoCall, Calls, Effects

LEMMA DueTyped == ASSUME NEW args, NEW align PROVE Due(args, align) \in Effects \ {"none"}
  BY DEF Due, Effects

\* A step that ends or moves on the call of t keeps the types of calls.
LEMMA CallTyped ==
  ASSUME Typed, NEW t \in Threads, NEW c \in Calls, call' = [call EXCEPT ![t] = c],
         c.pc = "idle" => c = NoCall, c.pc # "idle" => c.k \in 1 .. Len(c.args)
  PROVE  /\ call' \in [Threads -> Calls] /\ call'[t] = c
         /\ \A u \in Threads \ {t} : call'[u] = call[u]
         /\ \A u \in Threads : Idle(u)' => call'[u] = NoCall
         /\ \A u \in Threads : ~Idle(u)' => call'[u].k \in 1 .. Len(call'[u].args)
  BY DEF Typed, Idle

LEMMA EndTyped ==
  ASSUME Typed, NEW t \in Threads, NEW effect, Ends(t, effect)
  PROVE  /\ call' \in [Threads -> Calls] /\ call'[t] = NoCall
         /\ \A u \in Threads \ {t} : call'[u] = call[u]
         /\ \A u \in Threads : Idle(u)' => call'[u] = NoCall
         /\ \A u \in Threads : ~Idle(u)' => call'[u].k \in 1 .. Len(call'[u].args)
  <1>1. call' = [call EXCEPT ![t] = NoCall] /\ NoCall.pc = "idle"  BY DEF Ends, NoCall
  <1> QED  BY <1>1, NoCallTyped, CallTyped

\* A step to another place of a call in progress.
LEMMA MoveTyped ==
  ASSUME Typed, NEW t \in Threads, ~Idle(t), NEW pc \in {"check", "use", "magic", "exchange", "destroy"},
         NEW k \in 1 .. Len(call[t].args), call' = [call EXCEPT ![t] = [call[t] EXCEPT !.pc = pc, !.k = k]]
  PROVE  /\ call' \in [Threads -> Calls]
         /\ call'[t] = [call[t] EXCEPT !.pc = pc, !.k = k]
         /\ \A u \in Threads \ {t} : call'[u] = call[u]
         /\ \A u \in Threads : Idle(u)' => call'[u] = NoCall
         /\ \A u \in Threads : ~Idle(u)' => call'[u].k \in 1 .. Len(call'[u].args)
  <1>1. call[t] \in Calls /\ k \in Nat  BY CallFacts
  <1>2. [call[t] EXCEPT !.pc = pc, !.k = k] \in Calls  BY <1>1 DEF Calls
  <1>3. [call[t] EXCEPT !.pc = pc, !.k = k].args = call[t].args
        /\ [call[t] EXCEPT !.pc = pc, !.k = k].k = k
        /\ [call[t] EXCEPT !.pc = pc, !.k = k].pc = pc
    BY <1>1 DEF Calls
  <1> QED  BY <1>2, <1>3, CallTyped

\* The steps of a call in progress, one place on, in this form.
LEMMA Moves ==
  ASSUME Typed, NEW t \in Threads, ~Idle(t), NEW pc
  PROVE  /\ [call EXCEPT ![t].pc = pc] = [call EXCEPT ![t] = [call[t] EXCEPT !.pc = pc, !.k = call[t].k]]
         /\ [call EXCEPT ![t].k = @ + 1] =
              [call EXCEPT ![t] = [call[t] EXCEPT !.pc = call[t].pc, !.k = call[t].k + 1]]
  <1>1. call[t] \in Calls  BY CallFacts
  <1>2. [call[t] EXCEPT !.pc = pc] = [call[t] EXCEPT !.pc = pc, !.k = call[t].k]
    BY <1>1 DEF Calls
  <1>3. [call[t] EXCEPT !.k = @ + 1] = [call[t] EXCEPT !.pc = call[t].pc, !.k = call[t].k + 1]
    BY <1>1 DEF Calls
  <1> QED  BY <1>2, <1>3

LEMMA TypedInit == Init => Typed
  <1> SUFFICES ASSUME Init PROVE Typed
    OBVIOUS
  <1>1. mem \in [Addresses -> Contents]  BY DEF Init, Addresses, Contents
  <1>2. given \subseteq Pointer  BY DEF Init
  <1>3. \A t \in Threads : call[t] = NoCall  BY DEF Init
  <1>4. NoCall.pc = "idle"  BY DEF NoCall
  <1>5. made \in 0 .. MaxObjects  BY CApiAssumption DEF Init
  <1>6. call \in [Threads -> Calls]  BY NoCallTyped DEF Init
  <1> QED  BY <1>1, <1>2, <1>3, <1>4, <1>5, <1>6 DEF Init, Typed, Idle

LEMMA TypedMake ==
  ASSUME Typed, NEW t \in Threads, NEW type \in Types, Make(t, type)
  PROVE  Typed'
  <1>1. PICK s \in Slots : /\ ~mem[s].object
                           /\ mem' = [mem EXCEPT ![s] = New(type, made + 1)]
                           /\ given' = given \cup {[at |-> s, id |-> made + 1]}
    BY DEF Make
  <1>2. made' = made + 1 /\ made' \in 0 .. MaxObjects /\ UNCHANGED <<call, destroyed>>
    BY CApiAssumption DEF Make, Typed
  <1>3. New(type, made + 1) \in Contents  BY <1>2 DEF New, Contents, Typed
  <1>4. [at |-> s, id |-> made + 1] \in Pointer  BY <1>2 DEF Pointer, Addresses, Typed
  <1>5. mem' \in [Addresses -> Contents] /\ given' \subseteq Pointer
    BY <1>1, <1>3, <1>4 DEF Typed
  <1> QED  BY <1>2, <1>5 DEF Typed, Idle

LEMMA TypedCallWith ==
  ASSUME Typed, NEW t \in Threads, CallWith(t)
  PROVE  Typed'
  <1>1. PICK want \in Wanted : \E p \in [DOMAIN want -> Pointers], align \in BOOLEAN :
          CallOf(t, want, p, align)
    BY DEF CallWith
  <1>2. PICK p \in [DOMAIN want -> Pointers], align \in BOOLEAN : CallOf(t, want, p, align)
    BY <1>1
  <1>3. PICK args : args = [k \in DOMAIN want |-> [p |-> p[k], type |-> want[k]]]
    OBVIOUS
  <1>4. PICK c : c = [pc |-> "check", k |-> 1, args |-> args, align |-> align, due |-> Due(args, align)]
    OBVIOUS
  <1>5. args \in Seq(Argument) /\ Len(args) \in {1, 2}  BY <1>3, ArgumentsTyped
  <1>6. c \in Calls /\ c.pc # "idle" /\ c.k \in 1 .. Len(c.args)
    <2>1. c \in Calls /\ c.pc # "idle" /\ c.k = 1 /\ c.args = args
      BY <1>4, <1>5, DueTyped DEF Calls
    <2>2. PICK n \in {1, 2} : n = Len(args)  BY <1>5
    <2>3. Len(c.args) = n  BY <2>1, <2>2
    <2>4. 1 \in 1 .. n  OBVIOUS
    <2> QED  BY <2>1, <2>3, <2>4
  <1>7. UNCHANGED <<mem, made, given, destroyed>>  BY <1>2 DEF CallOf
  <1>8. CASE UNCHANGED call  BY <1>7, <1>8 DEF Typed, Idle
  <1>9. CASE call' = [call EXCEPT ![t] = c]
    <2>1. /\ call' \in [Threads -> Calls]
          /\ \A u \in Threads : Idle(u)' => call'[u] = NoCall
          /\ \A u \in Threads : ~Idle(u)' => call'[u].k \in 1 .. Len(call'[u].args)
      BY <1>6, <1>9, CallTyped
    <2> QED  BY <1>7, <2>1 DEF Typed
  <1> QED  BY <1>2, <1>3, <1>4, <1>8, <1>9 DEF CallOf

LEMMA TypedFree ==
  ASSUME Typed, NEW t \in Threads, Free(t)
  PROVE  Typed'
  <1>1. PICK p \in Pointers \ {Null} :
          call' = [call EXCEPT ![t] =
            [NoCall EXCEPT !.pc = "magic", !.args = << [p |-> p, type |-> "any"] >>,
                           !.due = IF Live(p) THEN "freed" ELSE "terminate"]]
    BY DEF Free, FreeOf
  <1>2. PICK c : c = [NoCall EXCEPT !.pc = "magic", !.args = << [p |-> p, type |-> "any"] >>,
                           !.due = IF Live(p) THEN "freed" ELSE "terminate"]
    OBVIOUS
  <1>3. [p |-> p, type |-> "any"] \in Argument  BY PointersTyped DEF Argument
  <1>4. PICK args : args = << [p |-> p, type |-> "any"] >>
    OBVIOUS
  <1>5. args \in Seq(Argument) /\ Len(args) = 1  BY <1>3, <1>4
  <1>6. PICK due \in Effects : due = IF Live(p) THEN "freed" ELSE "terminate"
    BY DEF Effects
  <1>7. c = [pc |-> "magic", args |-> args, k |-> 1, align |-> TRUE, due |-> due]
    BY <1>2, <1>4, <1>6 DEF NoCall
  <1>8. c \in Calls /\ c.pc # "idle" /\ c.k \in 1 .. Len(c.args)
    BY <1>5, <1>7 DEF Calls
  <1>9. /\ call' \in [Threads -> Calls]
        /\ \A u \in Threads : Idle(u)' => call'[u] = NoCall
        /\ \A u \in Threads : ~Idle(u)' => call'[u].k \in 1 .. Len(call'[u].args)
    BY <1>1, <1>2, <1>8, CallTyped
  <1> QED  BY <1>9 DEF Free, FreeOf, Typed

LEMMA TypedCheck ==
  ASSUME Typed, NEW t \in Threads, CheckType(t) \/ CheckMagic(t) \/ Use(t)
  PROVE  Typed'
  <1>1. ~Idle(t) /\ UNCHANGED <<mem, made, given, destroyed>>
    BY DEF CheckType, CheckMagic, Use, Idle, Is
  <1>2. call[t].k \in 1 .. Len(call[t].args) /\ call[t].pc \in {"check", "use", "magic", "exchange", "destroy"}
    BY <1>1, CallFacts DEF Typed, Calls, Idle
  <1>3. CASE \E effect : Ends(t, effect)
    BY <1>1, <1>3, EndTyped DEF Typed
  <1>4. CASE \E pc \in {"use", "exchange"} : call' = [call EXCEPT ![t].pc = pc]
    <2>1. PICK pc \in {"use", "exchange"} : call' = [call EXCEPT ![t].pc = pc]  BY <1>4
    <2>2. call' = [call EXCEPT ![t] = [call[t] EXCEPT !.pc = pc, !.k = call[t].k]]
      BY <1>1, <2>1, Moves
    <2> QED  BY <1>1, <1>2, <2>2, MoveTyped, ZenonT(60) DEF Typed
  <1>5. CASE call' = [call EXCEPT ![t].k = @ + 1] /\ call[t].k # Len(call[t].args)
    <2>1. call' = [call EXCEPT ![t] = [call[t] EXCEPT !.pc = call[t].pc, !.k = call[t].k + 1]]
      BY <1>1, <1>5, Moves
    <2>2. call[t].k + 1 \in 1 .. Len(call[t].args)  BY <1>2, <1>5, CallFacts
    <2>3. PICK pc \in {"check", "use", "magic", "exchange", "destroy"}, k \in 1 .. Len(call[t].args) :
            pc = call[t].pc /\ k = call[t].k + 1
      BY <1>2, <2>2
    <2>4. call' = [call EXCEPT ![t] = [call[t] EXCEPT !.pc = pc, !.k = k]]
      BY <2>1, <2>3
    <2> QED  BY <1>1, <2>4, MoveTyped, ZenonT(60) DEF Typed
  <1> QED  BY <1>3, <1>4, <1>5 DEF CheckType, CheckMagic, Use, Terminate

\* The type is a part of what is at an address.
LEMMA CellTyped ==
  ASSUME Typed, NEW s \in Addresses, NEW c \in Contents, mem' = [mem EXCEPT ![s] = c]
  PROVE  mem' \in [Addresses -> Contents] /\ mem'[s] = c /\ \A r \in Addresses \ {s} : mem'[r] = mem[r]
  BY DEF Typed

LEMMA CellParts ==
  ASSUME Typed, NEW s \in Addresses
  PROVE  /\ [mem EXCEPT ![s].type = "tombstone"] = [mem EXCEPT ![s] = [mem[s] EXCEPT !.type = "tombstone"]]
         /\ [mem EXCEPT ![s].object = FALSE] = [mem EXCEPT ![s] = [mem[s] EXCEPT !.object = FALSE]]
         /\ [mem EXCEPT ![s].magic = FALSE, ![s].type = "other"]
              = [mem EXCEPT ![s] = [mem[s] EXCEPT !.magic = FALSE, !.type = "other"]]
         /\ mem[s] \in Contents
         /\ [mem[s] EXCEPT !.type = "tombstone"] \in Contents
         /\ [mem[s] EXCEPT !.object = FALSE] \in Contents
         /\ [mem[s] EXCEPT !.magic = FALSE, !.type = "other"] \in Contents
  <1>1. mem[s] \in Contents  BY DEF Typed
  <1>2. [mem EXCEPT ![s].magic = FALSE, ![s].type = "other"]
              = [mem EXCEPT ![s] = [mem[s] EXCEPT !.magic = FALSE, !.type = "other"]]
    BY <1>1 DEF Typed, Contents
  <1> QED  BY <1>1, <1>2 DEF Contents

\* What is at the address a call frees.
LEMMA ArgumentFacts ==
  ASSUME Typed, NEW t \in Threads, ~Idle(t)
  PROVE  /\ Arg(t) \in Argument /\ Arg(t).p \in Pointer /\ Arg(t).p.at \in Addresses
         /\ Uses(t, Arg(t).p.at) /\ Arg(t) = call[t].args[call[t].k]
         /\ Cell(Arg(t).p) = mem[Arg(t).p.at] /\ mem[Arg(t).p.at] \in Contents
  BY CallFacts, CellFacts DEF Arg

LEMMA TypedExchange ==
  ASSUME Typed, NEW t \in Threads, Exchange(t)
  PROVE  /\ Typed'
         /\ mem' = [mem EXCEPT ![Arg(t).p.at] = [mem[Arg(t).p.at] EXCEPT !.type = "tombstone"]]
  <1>1. ~Idle(t) /\ UNCHANGED <<made, given, destroyed>>
    BY DEF Exchange, Idle, Is
  <1>2. PICK s \in Addresses : s = Arg(t).p.at  BY <1>1, ArgumentFacts
  <1>3. mem' = [mem EXCEPT ![s] = [mem[s] EXCEPT !.type = "tombstone"]]
    BY <1>2, CellParts DEF Exchange
  <1>4. mem' \in [Addresses -> Contents]  BY <1>3, CellParts, CellTyped
  <1>5. call[t].k \in 1 .. Len(call[t].args)  BY <1>1, CallFacts
  <1>6. ASSUME NEW effect, Ends(t, effect) PROVE Typed'
    BY <1>1, <1>4, <1>6, EndTyped DEF Typed
  <1>7. ASSUME call' = [call EXCEPT ![t].pc = "destroy"] PROVE Typed'
    <2>1. call' = [call EXCEPT ![t] = [call[t] EXCEPT !.pc = "destroy", !.k = call[t].k]]
      BY <1>1, <1>7, Moves
    <2> QED  BY <1>1, <1>4, <1>5, <2>1, MoveTyped, ZenonT(60) DEF Typed
  <1> QED  BY <1>2, <1>3, <1>6, <1>7 DEF Exchange, Terminate

LEMMA TypedDestroy ==
  ASSUME Typed, NEW t \in Threads, Destroy(t), \A s \in Addresses : mem[s].id <= made
  PROVE  /\ Typed'
         /\ mem' = [mem EXCEPT ![Arg(t).p.at] = [mem[Arg(t).p.at] EXCEPT !.object = FALSE]]
  <1>1. ~Idle(t) /\ UNCHANGED <<made, given>>
    BY DEF Destroy, Idle, Is
  <1>2. PICK s \in Addresses : s = Arg(t).p.at /\ Cell(Arg(t).p) = mem[s] /\ mem[s] \in Contents
    BY <1>1, ArgumentFacts
  <1>3. mem' = [mem EXCEPT ![s] = [mem[s] EXCEPT !.object = FALSE]]
    BY <1>2, CellParts DEF Destroy
  <1>4. mem' \in [Addresses -> Contents]  BY <1>3, CellParts, CellTyped
  <1>5. PICK n \in Nat : n = mem[s].id  BY <1>2 DEF Contents
  <1>6. destroyed' = IF n > 0 THEN [destroyed EXCEPT ![n] = @ + 1] ELSE destroyed
    BY <1>2, <1>5 DEF Destroy
  <1>7. n > 0 => n \in 1 .. MaxObjects  BY <1>5, CApiAssumption DEF Typed
  <1>8. destroyed' \in [1 .. MaxObjects -> Nat]  BY <1>6, <1>7 DEF Typed
  <1> QED  BY <1>1, <1>2, <1>3, <1>4, <1>8, EndTyped DEF Destroy, Typed

LEMMA TypedOverwrite ==
  ASSUME Typed, NEW s \in Slots, Overwrite(s)
  PROVE  /\ Typed'
         /\ mem' = [mem EXCEPT ![s] = [mem[s] EXCEPT !.magic = FALSE, !.type = "other"]]
  <1>1. s \in Addresses  BY DEF Addresses
  <1>2. mem' = [mem EXCEPT ![s] = [mem[s] EXCEPT !.magic = FALSE, !.type = "other"]]
    BY <1>1, CellParts DEF Overwrite
  <1>3. mem' \in [Addresses -> Contents]  BY <1>1, <1>2, CellParts, CellTyped
  <1> QED  BY <1>2, <1>3 DEF Overwrite, Typed, Idle

LEMMA TypedNext ==
  ASSUME Typed, Single, Next
  PROVE  Typed'
  <1>1. ASSUME NEW t \in Threads, NEW type \in Types, Make(t, type) PROVE Typed'
    BY <1>1, TypedMake
  <1>3. ASSUME NEW t \in Threads, ParseNull(t) PROVE Typed'
    BY <1>3 DEF ParseNull, Typed, Idle
  <1>4. ASSUME NEW t \in Threads,
               CallWith(t) \/ CheckType(t) \/ Use(t) \/ Free(t) \/ CheckMagic(t) \/ Exchange(t) \/ Destroy(t)
        PROVE Typed'
    BY <1>4, TypedCallWith, TypedCheck, TypedFree, TypedExchange, TypedDestroy DEF Single
  <1> QED  BY <1>1, <1>3, <1>4, TypedOverwrite DEF Next

-----------------------------------------------------------------------------
(* What holds of careful programs *)

LEMMA Back ==
  ASSUME misuse \subseteq misuse', NEW what
  PROVE  Without(what)' => Without(what)
  BY DEF Without

\* A call that takes no step stays as it is, if nobody interferes.
LEMMA Others ==
  ASSUME Typed, Sound, NEW t \in Threads, ~Idle(t), call'[t] = call[t],
         misuse \subseteq misuse',
         \A s \in Addresses : Uses(t, s) => mem'[s] = mem[s],
         \A u \in Threads \ {t}, s \in Addresses : Uses(t, s) =>
           /\ Frees(u, s)' => Frees(u, s)
           /\ Frees1(t) /\ Uses(u, s)' => Uses(u, s)
  PROVE  CallOK(t)'
  <1>1. CallOK(t)  BY DEF Sound
  <1>2. PICK c : c = call[t] /\ c = call'[t]  OBVIOUS
  <1>3. \A j \in DOMAIN c.args : /\ c.args[j].p.at \in Addresses
                                 /\ mem'[c.args[j].p.at] = mem[c.args[j].p.at]
    BY <1>2, CallFacts
  <1>4. \A s : Uses(t, s)' <=> Uses(t, s)  BY <1>2 DEF Uses
  <1>5. (Looks(t)' <=> Looks(t)) /\ (Frees1(t)' <=> Frees1(t))  BY <1>2 DEF Looks, Frees1
  <1>6. ASSUME NEW j \in DOMAIN c.args PROVE ArgumentOK(c.args[j].p)'
    <2>1. ArgumentOK(c.args[j].p)  BY <1>1, <1>2, <1>6 DEF CallOK
    <2> QED  BY <1>3, <1>6, <2>1, Back DEF ArgumentOK, Live, Cell
  <1>7. ASSUME Looks(t) PROVE Checked(t)'
    <2>1. Checked(t)  BY <1>1, <1>7 DEF CallOK
    <2>2. Due(c.args, c.align)' = Due(c.args, c.align)
      BY <1>3, ZenonT(60) DEF Due, Live, Cell
    <2>3. Is(t, "use")' <=> Is(t, "use")  BY <1>2 DEF Is
    <2>4. ASSUME NEW j \in DOMAIN c.args
          PROVE  Cell(c.args[j].p)' = Cell(c.args[j].p)
      BY <1>3 DEF Cell
    <2>5. ASSUME NEW j \in DOMAIN c.args
          PROVE  IsType(Cell(c.args[j].p), c.args[j].type)' <=> IsType(Cell(c.args[j].p), c.args[j].type)
      BY <2>4 DEF IsType
    <2>6. /\ \A j \in DOMAIN c.args :
               /\ c.args[j].type \in Types
               /\ j < c.k \/ Is(t, "use") => IsType(Cell(c.args[j].p), c.args[j].type)
          /\ c.due = Due(c.args, c.align) /\ (Is(t, "use") => c.align)
      BY <1>2, <2>1, Zenon DEF Checked
    <2>7. /\ \A j \in DOMAIN c.args :
               /\ c.args[j].type \in Types
               /\ j < c.k \/ Is(t, "use")' => IsType(Cell(c.args[j].p), c.args[j].type)'
          /\ c.due = Due(c.args, c.align)' /\ (Is(t, "use")' => c.align)
      BY <2>2, <2>3, <2>5, <2>6, Zenon
    <2> QED  BY <1>2, <2>7 DEF Checked
  <1>8. ASSUME Frees1(t) PROVE Freeing(t)'
    <2>1. Freeing(t)  BY <1>1, <1>8 DEF CallOK
    <2>2. 1 \in DOMAIN c.args  BY <1>2, <2>1, CallFacts DEF Freeing
    <2> QED  BY <1>2, <1>3, <2>1, <2>2 DEF Freeing, Is, Live, Cell
  <1>9. ASSUME NEW s \in Addresses, NEW u \in Threads, Uses(t, s), u # t
        PROVE  ~Frees(u, s)' /\ (Frees1(t) => ~Uses(u, s)')
    BY <1>1, <1>9 DEF CallOK
  <1> QED  BY <1>2, <1>4, <1>5, <1>6, <1>7, <1>8, <1>9 DEF CallOK

\* A step of one thread that leaves memory alone and begins no call.
LEMMA OthersCalm ==
  ASSUME Typed, Sound, NEW t \in Threads, NEW u \in Threads, u # t, ~Idle(u), misuse \subseteq misuse',
         mem' = mem, \A v \in Threads \ {t} : call'[v] = call[v],
         \A s \in Addresses : (Uses(t, s)' => Uses(t, s)) /\ (Frees(t, s)' => Frees(t, s))
  PROVE  CallOK(u)'
  <1>1. \A v \in Threads \ {u}, s \in Addresses :
           (Frees(v, s)' => Frees(v, s)) /\ (Uses(v, s)' => Uses(v, s))
    <2> SUFFICES ASSUME NEW v \in Threads \ {u, t}, NEW s \in Addresses
                 PROVE (Frees(v, s)' => Frees(v, s)) /\ (Uses(v, s)' => Uses(v, s))
      OBVIOUS
    <2> QED  BY DEF Frees, Uses
  <1> QED  BY <1>1, Others

LEMMA IdleUses ==
  ASSUME NEW t \in Threads, call'[t] = NoCall
  PROVE  \A s : ~Uses(t, s)' /\ ~Frees(t, s)' /\ ~Destroying(t, s)'
  BY DEF Uses, Frees, Destroying, NoCall

\* What is found to be of a type is the object that was meant.
LEMMA TypeTells ==
  ASSUME Typed, Sound, NEW t \in Threads, NEW j \in DOMAIN call[t].args, Looks(t)
  PROVE  LET p == call[t].args[j].p
             type == call[t].args[j].type IN
         IsType(Cell(p), type) <=> Live(p) /\ Cell(p).type = type
  <1>1. ~Idle(t) /\ CallOK(t) /\ Checked(t)  BY DEF Sound, CallOK, Looks, Idle
  <1>2. PICK p, type : /\ p = call[t].args[j].p /\ type = call[t].args[j].type
                       /\ type \in Types /\ ArgumentOK(p) /\ p.at \in Addresses
                       /\ Cell(p) = mem[p.at]
    BY <1>1, CallFacts, CellFacts DEF CallOK, Checked
  <1>3. CellOK(p.at)  BY <1>2 DEF Sound
  <1>4. type # "tombstone" /\ type # "other"  BY <1>2 DEF Types
  <1>5. IsType(Cell(p), type) => Live(p)
    BY <1>2, <1>3, ZenonT(60) DEF IsType, CellOK, ArgumentOK, Live
  <1>6. Live(p) => Cell(p).magic
    BY <1>2, <1>3 DEF Live, CellOK
  <1> QED  BY <1>2, <1>5, <1>6 DEF IsType

\* The one argument of libhat_free.
LEMMA FreeTells ==
  ASSUME Typed, Sound, NEW t \in Threads, Frees1(t)
  PROVE  LET p == call[t].args[1].p IN
         /\ Arg(t).p = p /\ ArgumentOK(p) /\ p.at \in Addresses /\ Cell(p) = mem[p.at]
         /\ \A s : Uses(t, s) <=> s = p.at
         /\ Freeing(t)
         /\ \A u \in Threads \ {t} : ~Uses(u, p.at)
         /\ ~Is(t, "destroy") => (Live(p) <=> Cell(p).object)
         /\ (Live(p) => Cell(p).magic) /\ CellOK(p.at)
  <1>1. ~Idle(t) /\ CallOK(t) /\ Freeing(t)  BY DEF Sound, CallOK, Frees1, Idle
  <1>2. DOMAIN call[t].args = {1} /\ call[t].k = 1  BY <1>1, CallFacts DEF Freeing
  <1>3. PICK p : /\ p = call[t].args[1].p /\ ArgumentOK(p) /\ p.at \in Addresses
                 /\ Cell(p) = mem[p.at] /\ Uses(t, p.at)
    BY <1>1, <1>2, CallFacts, CellFacts DEF CallOK
  <1>4. CellOK(p.at)  BY <1>3 DEF Sound
  <1>5. \A s : Uses(t, s) <=> s = p.at  BY <1>2, <1>3 DEF Uses
  <1>6. \A u \in Threads \ {t} : ~Uses(u, p.at)  BY <1>1, <1>3 DEF CallOK
  <1>7. (Live(p) => Cell(p).magic) /\ (Cell(p).object => Live(p)) /\ (Live(p) => Cell(p).object)
    BY <1>3, <1>4 DEF Live, CellOK, ArgumentOK
  <1> QED  BY <1>1, <1>2, <1>3, <1>4, <1>5, <1>6, <1>7 DEF Arg

\* A pointer the program may pass.
LEMMA Passable ==
  ASSUME Typed, Sound, NEW p \in Pointers, p # Null, Careful',
         misuse \subseteq misuse', mem' = mem, ~Live(p) => "stale" \in misuse'
  PROVE  ArgumentOK(p)' /\ p \in Pointer
  <1>1. p \in Pointer  BY PointersTyped
  <1>2. Without({"stale"})' => Live(p)  BY DEF Without
  <1>3. p = ForeignPointer \/ PointerOK(p)  BY DEF Pointers, Sound
  <1>4. p.at \in Slots => p.id > 0
    BY <1>3, CApiAssumption DEF PointerOK, ForeignPointer
  <1>5. ASSUME p.at \in Slots PROVE mem[p.at].id = p.id
    <2>1. PointerOK(p)  BY <1>3, <1>5, CApiAssumption DEF ForeignPointer
    <2>2. CASE Without({"stale"})'  BY <1>2, <2>2 DEF Live, Cell
    <2>3. CASE Without({"reused"})'  BY <2>1, <2>3, Back DEF PointerOK
    <2> QED  BY <2>2, <2>3 DEF Careful
  <1> QED  BY <1>1, <1>2, <1>4, <1>5 DEF ArgumentOK, Live, Cell

-----------------------------------------------------------------------------
(* The steps of careful programs *)

LEMMA MakeSound ==
  ASSUME Typed, Sound, Careful', misuse \subseteq misuse',
         NEW t \in Threads, NEW type \in Types, Make(t, type)
  PROVE  Sound'
  <1>1. PICK s \in Slots : /\ ~mem[s].object
                           /\ mem' = [mem EXCEPT ![s] = New(type, made + 1)]
                           /\ given' = given \cup {[at |-> s, id |-> made + 1]}
                           /\ misuse' = misuse \cup {m \in {"reused"} : mem[s].id > 0}
    BY DEF Make
  <1>2. UNCHANGED <<call, process, broken>>  BY DEF Make
  <1>3. PICK n \in Nat \ {0} : n = made + 1  BY CApiAssumption DEF Typed
  <1>4. /\ mem'[s] = New(type, n) /\ \A r \in Addresses : r # s => mem'[r] = mem[r]
        /\ s \in Addresses
    BY <1>1, <1>3 DEF Typed, Addresses
  <1>5. \A u \in Threads : \A r : /\ Uses(u, r)' <=> Uses(u, r)
                                  /\ Frees(u, r)' <=> Frees(u, r)
                                  /\ Destroying(u, r)' <=> Destroying(u, r)
    BY <1>2 DEF Uses, Frees, Destroying, Is
  <1>6. ASSUME NEW r \in Addresses PROVE CellOK(r)'
    <2>1. CASE r = s
      BY <1>3, <1>4, <2>1 DEF New, CellOK
    <2>2. CASE r # s
      <3>1. CellOK(r)  BY DEF Sound
      <3> QED  BY <1>4, <1>5, <2>2, <3>1 DEF CellOK
    <2> QED  BY <2>1, <2>2
  <1>7. ASSUME NEW u \in Threads, ~Idle(u), Uses(u, s) PROVE FALSE
    <2>1. PICK j \in DOMAIN call[u].args : call[u].args[j].p.at = s  BY <1>7 DEF Uses
    <2>2. PICK p : p = call[u].args[j].p /\ p.at = s /\ ArgumentOK(p)
      BY <1>7, <2>1 DEF Sound, CallOK
    <2>3. "stale" \in misuse  BY <1>1, <2>2 DEF ArgumentOK, Live, Cell, Without
    <2>4. "reused" \in misuse'  BY <1>1, <2>2 DEF ArgumentOK
    <2> QED  BY <1>1, <2>3, <2>4 DEF Careful, Without
  <1>8. ASSUME NEW u \in Threads, ~Idle(u) PROVE CallOK(u)'
    <2>1. \A r \in Addresses : Uses(u, r) => mem'[r] = mem[r]  BY <1>4, <1>7, <1>8
    <2> QED  BY <1>2, <1>5, <1>8, <2>1, Others
  <1>9. ASSUME NEW p \in given' PROVE PointerOK(p)'
    <2>1. CASE p = [at |-> s, id |-> n]
      BY <1>3, <1>4, <2>1 DEF PointerOK, New
    <2>2. CASE p \in given /\ p # Null
      <3>1. PointerOK(p)  BY <2>2 DEF Sound
      <3>2. p.at \in Slots /\ p.id > 0 /\ p.at \in Addresses  BY <2>2, <3>1 DEF PointerOK, Addresses
      <3>3. ASSUME Without({"reused"})' PROVE mem'[p.at].id = p.id
        <4>1. mem[p.at].id = p.id  BY <2>2, <3>1, <3>3, Back DEF PointerOK
        <4>2. p.at # s  BY <1>1, <3>2, <3>3, <4>1 DEF Without
        <4> QED  BY <1>4, <3>2, <4>1, <4>2
      <3> QED  BY <3>2, <3>3 DEF PointerOK
    <2> QED  BY <1>1, <1>3, <2>1, <2>2 DEF PointerOK
  <1>10. process = "terminated" => ~Without({"stale"})'
    BY Back DEF Sound
  <1>11. \A u \in Threads : Idle(u)' <=> Idle(u)  BY <1>2 DEF Idle
  <1> QED  BY <1>2, <1>6, <1>8, <1>9, <1>10, <1>11 DEF Sound

\* A step that leaves the memory and the pointers alone, and begins no call of others.
LEMMA CalmSound ==
  ASSUME Typed, Sound, Careful', misuse \subseteq misuse', NEW t \in Threads,
         mem' = mem, given' = given,
         \A v \in Threads \ {t} : call'[v] = call[v],
         ~Is(t, "destroy"),
         \A u \in Threads \ {t} : ~Idle(u) => CallOK(u)',
         ~Idle(t)' => CallOK(t)', ~broken', process' # "undefined",
         process' = "terminated" => process = "terminated" \/ ~Without({"stale"})'
  PROVE  Sound'
  <1>1. ASSUME NEW s \in Addresses PROVE CellOK(s)'
    <2>1. CellOK(s)  BY DEF Sound
    <2>2. \A u \in Threads : Destroying(u, s) => Destroying(u, s)'
      BY DEF Destroying, Is, Uses
    <2> QED  BY <2>1, <2>2 DEF CellOK
  <1>2. ASSUME NEW p \in given' PROVE PointerOK(p)'
    <2>1. PointerOK(p)  BY DEF Sound
    <2> QED  BY <2>1, Back DEF PointerOK
  <1>3. \A u \in Threads \ {t} : Idle(u)' <=> Idle(u)  BY DEF Idle
  <1>4. process' = "terminated" => ~Without({"stale"})'  BY Back DEF Sound
  <1> QED  BY <1>1, <1>2, <1>3, <1>4 DEF Sound

LEMMA CallWithSound ==
  ASSUME Typed, Typed', Sound, Careful', misuse \subseteq misuse', NEW t \in Threads, CallWith(t)
  PROVE  Sound'
  <1> DEFINE Call(args, align) ==
        [pc |-> "check", k |-> 1, args |-> args, align |-> align, due |-> Due(args, align)]
  <1>1. PICK want \in Wanted : \E p \in [DOMAIN want -> Pointers], align \in BOOLEAN :
          CallOf(t, want, p, align)
    BY DEF CallWith
  <1>2. PICK p \in [DOMAIN want -> Pointers], align \in BOOLEAN : CallOf(t, want, p, align)
    BY <1>1
  <1>3.
       LET args == [k \in DOMAIN want |-> [p |-> p[k], type |-> want[k]]] IN
         IF AnyNull(p)
         THEN broken' = (broken \/ Due(args, align) # "err value") /\ UNCHANGED <<call, misuse>>
         ELSE /\ call' = [call EXCEPT ![t] = Call(args, align)]
              /\ misuse' = misuse
                    \cup {m \in {"stale"} : \E k \in DOMAIN p : ~Live(p[k])}
                    \cup {m \in {"overlap"} : \E k \in DOMAIN p : \E u \in Threads : Frees(u, p[k].at)}
              /\ UNCHANGED broken
    BY <1>2 DEF CallOf
  <1>8. UNCHANGED <<mem, given, process>> /\ Idle(t)  BY <1>2 DEF CallOf
  <1>4. PICK args : args = [k \in DOMAIN want |-> [p |-> p[k], type |-> want[k]]]
    OBVIOUS
  <1>5. /\ args \in Seq(Argument) /\ DOMAIN args = DOMAIN want /\ DOMAIN p = DOMAIN want
        /\ \A j \in DOMAIN want : args[j].p = p[j] /\ args[j].type = want[j] /\ want[j] \in Types
    BY <1>4, ArgumentsTyped
  <1>6. CASE AnyNull(p)
    <2>1. Due(args, align) = "err value"  BY <1>5, <1>6 DEF AnyNull, Due
    <2>2. UNCHANGED <<call, misuse>> /\ ~broken'  BY <1>3, <1>4, <1>6, <2>1 DEF Sound
    <2>3. \A u \in Threads : \A s : (Uses(u, s)' <=> Uses(u, s)) /\ (Frees(u, s)' <=> Frees(u, s))
      BY <2>2 DEF Uses, Frees
    <2>4. ASSUME NEW u \in Threads \ {t}, ~Idle(u) PROVE CallOK(u)'
      BY <1>8, <2>2, <2>3, <2>4, Others
    <2>5. Idle(t)' /\ ~Is(t, "destroy")  BY <1>8, <2>2 DEF Idle, Is
    <2> QED  BY <1>8, <2>2, <2>4, <2>5, CalmSound DEF Sound
  <1>7. CASE ~AnyNull(p)
    <2>1. /\ call' = [call EXCEPT ![t] = Call(args, align)]
          /\ \A j \in DOMAIN want : ~Live(p[j]) => "stale" \in misuse'
          /\ \A j \in DOMAIN want, u \in Threads : ~Frees(u, p[j].at)
          /\ UNCHANGED broken
      BY <1>3, <1>4, <1>5, <1>7 DEF Careful, Without
    <2>2. PICK c : c = Call(args, align)  OBVIOUS
    <2>3. /\ c.pc = "check" /\ c.k = 1 /\ c.args = args /\ c.align = align /\ c.due = Due(args, align)
      BY <2>2
    <2>4. call'[t] = c /\ \A v \in Threads \ {t} : call'[v] = call[v]
      BY <2>1, <2>2 DEF Typed
    <2>5. ASSUME NEW j \in DOMAIN want PROVE ArgumentOK(p[j])'
      <3>1. p[j] \in Pointers /\ p[j] # Null  BY <1>5, <1>7, <2>5 DEF AnyNull
      <3> QED  BY <1>8, <2>1, <3>1, Passable
    <2>6. \A s : Uses(t, s)' <=> \E j \in DOMAIN want : p[j].at = s
      BY <1>5, <2>3, <2>4 DEF Uses
    <2>7. \A u \in Threads \ {t} : \A s : (Uses(u, s)' <=> Uses(u, s)) /\ (Frees(u, s)' <=> Frees(u, s))
      BY <2>4 DEF Uses, Frees
    <2>8. Checked(t)'
      <3>1. Due(args, align)' = Due(args, align)  BY <1>8 DEF Due, Live, Cell
      <3>2. \A j \in DOMAIN want : ~ (j < 1)  BY DEF Wanted
      <3> QED  BY <1>5, <2>3, <2>4, <3>1, <3>2 DEF Checked, Is
    <2>9. CallOK(t)'
      <3>1. Looks(t)' /\ ~Frees1(t)'  BY <2>3, <2>4 DEF Looks, Frees1
      <3>2. \A j \in DOMAIN call'[t].args : ArgumentOK(call[t].args[j].p)'
        <4> SUFFICES ASSUME NEW j \in DOMAIN want PROVE ArgumentOK(call[t].args[j].p)'
          BY <1>5, <2>3, <2>4
        <4>1. call'[t].args[j].p = p[j]  BY <1>5, <2>3, <2>4
        <4> QED  BY <2>5, <4>1 DEF ArgumentOK, Live, Cell
      <3>3. \A s \in Addresses, u \in Threads : Uses(t, s)' /\ u # t => ~Frees(u, s)'
        BY <2>1, <2>6, <2>7
      <3> QED  BY <2>8, <3>1, <3>2, <3>3 DEF CallOK
    <2>10. ASSUME NEW u \in Threads \ {t}, ~Idle(u) PROVE CallOK(u)'
      <3>1. \A s : ~Frees(t, s)'  BY <2>3, <2>4 DEF Frees
      <3>2. \A s : Uses(u, s) /\ Frees1(u) => ~Uses(t, s)'
        BY <2>1, <2>6 DEF Frees, Frees1
      <3>3. call'[u] = call[u]  BY <2>4
      <3> QED  BY <1>8, <2>7, <2>10, <3>1, <3>2, <3>3, Others
    <2>11. ~Is(t, "destroy")  BY <1>8 DEF Idle, Is
    <2> QED  BY <1>8, <2>1, <2>4, <2>9, <2>10, <2>11, CalmSound DEF Sound
  <1> QED  BY <1>6, <1>7

\* A call that ends with the effect it should have, and one that goes on.
LEMMA CalmEnds ==
  ASSUME Typed, Sound, Careful', NEW t \in Threads, ~Idle(t), ~Is(t, "destroy"),
         UNCHANGED <<mem, given, misuse>>, Ends(t, call[t].due),
         process' = process \/ (process' = "terminated" /\ ~Without({"stale"}))
  PROVE  Sound'
  <1>1. call'[t] = NoCall /\ \A v \in Threads \ {t} : call'[v] = call[v]  BY EndTyped
  <1>2. Idle(t)'  BY <1>1 DEF Idle, NoCall
  <1>3. \A s : ~Uses(t, s)' /\ ~Frees(t, s)'  BY <1>1, IdleUses
  <1>4. ASSUME NEW u \in Threads \ {t}, ~Idle(u) PROVE CallOK(u)'
    BY <1>1, <1>3, <1>4, OthersCalm
  <1>5. ~broken'  BY DEF Ends, Sound
  <1>6. process' # "undefined" /\ (process' = "terminated" => process = "terminated" \/ ~Without({"stale"})')
    BY DEF Sound, Without
  <1> QED  BY <1>1, <1>2, <1>4, <1>5, <1>6, CalmSound

LEMMA CalmMoves ==
  ASSUME Typed, Sound, Careful', NEW t \in Threads, ~Idle(t), ~Is(t, "destroy"),
         UNCHANGED <<mem, given, misuse, process, broken>>,
         NEW c, call' = [call EXCEPT ![t] = c], c.args = call[t].args,
         c.pc \in {"magic", "exchange", "destroy"} => Frees1(t), CallOK(t)'
  PROVE  Sound'
  <1>1. call'[t] = c /\ \A v \in Threads \ {t} : call'[v] = call[v]  BY DEF Typed
  <1>2. \A s : (Uses(t, s)' => Uses(t, s)) /\ (Frees(t, s)' => Frees(t, s))
    BY <1>1 DEF Uses, Frees, Frees1
  <1>3. ASSUME NEW u \in Threads \ {t}, ~Idle(u) PROVE CallOK(u)'
    BY <1>1, <1>2, <1>3, OthersCalm
  <1> QED  BY <1>1, <1>3, CalmSound DEF Sound

\* What check_type finds is what the call should end with.
LEMMA DueIs ==
  ASSUME Typed, Sound, NEW t \in Threads, Looks(t)
  PROVE  /\ (\E j \in DOMAIN call[t].args : ~IsType(Cell(call[t].args[j].p), call[t].args[j].type))
              => call[t].due = "err type"
         /\ (\A j \in DOMAIN call[t].args : IsType(Cell(call[t].args[j].p), call[t].args[j].type))
              => call[t].due = IF call[t].align THEN "success" ELSE "err value"
  <1>1. CallOK(t) /\ Checked(t)  BY DEF Sound, CallOK, Looks, Idle
  <1>2. PICK args, align : args = call[t].args /\ align = call[t].align  OBVIOUS
  <1>3. call[t].due = Due(args, align) /\ \A j \in DOMAIN args : args[j].p # Null
    BY <1>1, <1>2 DEF CallOK, Checked, ArgumentOK
  <1>4. \A j \in DOMAIN args :
          IsType(Cell(args[j].p), args[j].type) <=> Live(args[j].p) /\ Cell(args[j].p).type = args[j].type
    BY <1>2, TypeTells
  <1> QED  BY <1>2, <1>3, <1>4 DEF Due

LEMMA CheckTypeSound ==
  ASSUME Typed, Sound, Careful', NEW t \in Threads, CheckType(t)
  PROVE  Sound'
  <1>1. Is(t, "check") /\ UNCHANGED <<mem, given, misuse, process>>  BY DEF CheckType
  <1>2. ~Idle(t) /\ ~Is(t, "destroy") /\ Looks(t) /\ ~Frees1(t)  BY <1>1 DEF Is, Idle, Looks, Frees1
  <1>3. CallOK(t) /\ Checked(t)  BY <1>2 DEF Sound, CallOK
  <1>4. PICK c : c = call[t] /\ c \in Calls  BY CallFacts
  <1>5. c.k \in DOMAIN c.args /\ DOMAIN c.args = 1 .. Len(c.args) /\ Len(c.args) \in Nat
        /\ c.k \in Nat
    BY <1>2, <1>4, CallFacts
  <1> DEFINE ok(j) == IsType(Cell(c.args[j].p), c.args[j].type)
  <1>6. CASE ~ok(c.k) /\ Ends(t, "err type")
    <2>1. c.due = "err type"  BY <1>2, <1>4, <1>5, <1>6, DueIs
    <2> QED  BY <1>1, <1>2, <1>4, <1>6, <2>1, CalmEnds
  <1>7. ASSUME ok(c.k), c.k = Len(c.args) PROVE \A j \in DOMAIN c.args : ok(j)
    <2>1. \A j \in DOMAIN c.args : j < c.k \/ j = c.k  BY <1>5, <1>7
    <2> QED  BY <1>3, <1>4, <1>7, <2>1 DEF Checked
  <1>8. CASE ok(c.k) /\ c.k = Len(c.args) /\ ~c.align /\ Ends(t, "err value")
    <2>1. c.due = "err value"  BY <1>2, <1>4, <1>7, <1>8, DueIs
    <2> QED  BY <1>1, <1>2, <1>4, <1>8, <2>1, CalmEnds
  <1>9. ASSUME NEW d, call' = [call EXCEPT ![t] = d], d.args = c.args, d.pc \in {"check", "use"},
               d.due = c.due, d.align = c.align,
               \A j \in DOMAIN c.args : j < d.k \/ d.pc = "use" => ok(j),
               d.pc = "use" => c.align, UNCHANGED broken
        PROVE  Sound'
    <2>1. call'[t] = d /\ \A v \in Threads \ {t} : call'[v] = call[v]  BY <1>9 DEF Typed
    <2>2. Looks(t)' /\ ~Frees1(t)'  BY <1>9, <2>1 DEF Looks, Frees1
    <2>3. \A j \in DOMAIN c.args : ArgumentOK(c.args[j].p)'
      BY <1>1, <1>3, <1>4 DEF CallOK, ArgumentOK, Live, Cell, Without
    <2>4. Checked(t)'
      <3>1. Due(c.args, c.align)' = Due(c.args, c.align)  BY <1>1 DEF Due, Live, Cell
      <3>2. /\ \A j \in DOMAIN c.args : c.args[j].type \in Types
            /\ c.due = Due(c.args, c.align)
        BY <1>3, <1>4 DEF Checked
      <3>3. ASSUME NEW j \in DOMAIN c.args, ok(j)
            PROVE  IsType(Cell(c.args[j].p), c.args[j].type)'
        BY <1>1, <3>3 DEF IsType, Cell
      <3> HIDE DEF ok
      <3>4. /\ \A j \in DOMAIN d.args :
                 /\ d.args[j].type \in Types
                 /\ j < d.k \/ d.pc = "use" => IsType(Cell(d.args[j].p), d.args[j].type)'
            /\ d.due = Due(d.args, d.align)' /\ (d.pc = "use" => d.align)
        BY <1>9, <3>1, <3>2, <3>3, Zenon
      <3> QED  BY <2>1, <3>4 DEF Checked, Is
    <2>5. \A u \in Threads \ {t}, s \in Addresses : (Uses(u, s)' <=> Uses(u, s)) /\ (Frees(u, s)' <=> Frees(u, s))
      BY <2>1 DEF Uses, Frees
    <2>6. \A s : Uses(t, s)' <=> Uses(t, s)  BY <1>4, <1>9, <2>1 DEF Uses
    <2>7. \A s \in Addresses, u \in Threads : Uses(t, s)' /\ u # t => ~Frees(u, s)'
      BY <1>3, <2>5, <2>6 DEF CallOK
    <2>8. \A j \in DOMAIN call'[t].args : ArgumentOK(call[t].args[j].p)'
      <3> SUFFICES ASSUME NEW j \in DOMAIN c.args PROVE ArgumentOK(call[t].args[j].p)'
        BY <1>9, <2>1
      <3>1. call'[t].args[j].p = c.args[j].p  BY <1>9, <2>1
      <3> QED  BY <2>3, <3>1 DEF ArgumentOK, Live, Cell
    <2>9. CallOK(t)'  BY <2>2, <2>4, <2>7, <2>8 DEF CallOK
    <2> QED  BY <1>1, <1>2, <1>4, <1>9, <2>9, CalmMoves
  <1>10. CASE ok(c.k) /\ c.k = Len(c.args) /\ c.align /\ call' = [call EXCEPT ![t].pc = "use"] /\ UNCHANGED broken
    <2>1. PICK d : d = [c EXCEPT !.pc = "use", !.k = c.k]  OBVIOUS
    <2>2. /\ call' = [call EXCEPT ![t] = d]
          /\ d.args = c.args /\ d.pc = "use" /\ d.due = c.due /\ d.align = c.align
      BY <1>2, <1>4, <1>10, <2>1, Moves DEF Calls
    <2> QED  BY <1>7, <1>9, <1>10, <2>2
  <1>11. CASE ok(c.k) /\ call' = [call EXCEPT ![t].k = @ + 1] /\ UNCHANGED broken
    <2>1. PICK d : d = [c EXCEPT !.pc = c.pc, !.k = c.k + 1]  OBVIOUS
    <2>2. /\ call' = [call EXCEPT ![t] = d] /\ d.pc = "check" /\ d.k = c.k + 1
          /\ d.args = c.args /\ d.due = c.due /\ d.align = c.align
      BY <1>1, <1>2, <1>4, <1>11, <2>1, Moves DEF Calls, Is
    <2>3. \A j \in DOMAIN c.args : j < c.k + 1 => j < c.k \/ j = c.k  BY <1>5
    <2> QED  BY <1>3, <1>4, <1>9, <1>11, <2>2, <2>3 DEF Checked
  <1> QED  BY <1>4, <1>6, <1>8, <1>10, <1>11 DEF CheckType, Arg

LEMMA UseSound ==
  ASSUME Typed, Sound, Careful', NEW t \in Threads, Use(t)
  PROVE  Sound'
  <1>1. Is(t, "use") /\ UNCHANGED <<mem, given, misuse>> /\ Ends(t, "success")  BY DEF Use
  <1>2. ~Idle(t) /\ ~Is(t, "destroy") /\ Looks(t)  BY <1>1 DEF Is, Idle, Looks
  <1>3. Checked(t)  BY <1>2 DEF Sound, CallOK
  <1>4. \A j \in DOMAIN call[t].args : IsType(Cell(call[t].args[j].p), call[t].args[j].type)
    BY <1>1, <1>3 DEF Checked
  <1>5. call[t].due = "success"  BY <1>1, <1>2, <1>3, <1>4, DueIs DEF Checked
  <1>6. process' = process  BY <1>2, <1>4, TypeTells DEF Use
  <1> QED  BY <1>1, <1>2, <1>5, <1>6, CalmEnds

LEMMA FreeSound ==
  ASSUME Typed, Sound, Careful', NEW t \in Threads, Free(t)
  PROVE  Sound'
  <1>1. UNCHANGED <<mem, given, process, broken>> /\ Idle(t)  BY DEF Free, FreeOf
  <1>2. PICK p \in Pointers \ {Null} :
          /\ call' = [call EXCEPT ![t] =
               [NoCall EXCEPT !.pc = "magic", !.args = << [p |-> p, type |-> "any"] >>,
                              !.due = IF Live(p) THEN "freed" ELSE "terminate"]]
          /\ misuse' = misuse
               \cup {m \in {"stale"} : ~Live(p)}
               \cup {m \in {"overlap"} : \E u \in Threads : Uses(u, p.at)}
    BY DEF Free, FreeOf
  <1>3. /\ misuse \subseteq misuse' /\ (~Live(p) => "stale" \in misuse')
        /\ \A u \in Threads : ~Uses(u, p.at)
    BY <1>2 DEF Careful, Without
  <1>4. ArgumentOK(p)' /\ p \in Pointer  BY <1>1, <1>2, <1>3, Passable
  <1>5. PICK args : args = << [p |-> p, type |-> "any"] >>
    OBVIOUS
  <1>6. PICK c : c = [NoCall EXCEPT !.pc = "magic", !.args = << [p |-> p, type |-> "any"] >>,
                           !.due = IF Live(p) THEN "freed" ELSE "terminate"]
    OBVIOUS
  <1>7. call' = [call EXCEPT ![t] = c]  BY <1>2, <1>6
  <1>8. call'[t] = c /\ \A v \in Threads \ {t} : call'[v] = call[v]  BY <1>7 DEF Typed
  <1>9. DOMAIN args = {1} /\ Len(args) = 1 /\ args[1].p = p  BY <1>5
  <1>10. c.pc = "magic" /\ c.args = args /\ c.k = 1 /\ c.due = (IF Live(p) THEN "freed" ELSE "terminate")
    <2>1. PICK due : due = IF Live(p) THEN "freed" ELSE "terminate"
      OBVIOUS
    <2> QED  BY <1>5, <1>6, <2>1 DEF NoCall
  <1>11. \A s : (Uses(t, s)' <=> s = p.at) /\ (Frees(t, s)' => s = p.at)
    BY <1>8, <1>9, <1>10 DEF Uses, Frees
  <1>12. \A u \in Threads \ {t} : \A s : (Uses(u, s)' <=> Uses(u, s)) /\ (Frees(u, s)' <=> Frees(u, s))
    BY <1>8 DEF Uses, Frees
  <1>13. CallOK(t)'
    <2>1. ~Looks(t)' /\ Frees1(t)'  BY <1>8, <1>10 DEF Looks, Frees1
    <2>2. \A j \in DOMAIN call'[t].args : ArgumentOK(call[t].args[j].p)'
      <3>1. call'[t].args[1].p = p /\ DOMAIN call'[t].args = {1}  BY <1>8, <1>9, <1>10
      <3> QED  BY <1>4, <3>1 DEF ArgumentOK, Live, Cell
    <2>3. Freeing(t)'
      <3>1. call'[t].args[1].p = p  BY <1>8, <1>9, <1>10
      <3> QED  BY <1>1, <1>8, <1>9, <1>10, <3>1 DEF Freeing, Is, Live, Cell
    <2>4. \A s \in Addresses, u \in Threads : Uses(t, s)' /\ u # t => ~Frees(u, s)' /\ ~Uses(u, s)'
      BY <1>3, <1>11, <1>12 DEF Frees
    <2> QED  BY <2>1, <2>2, <2>3, <2>4 DEF CallOK
  <1>14. ASSUME NEW u \in Threads \ {t}, ~Idle(u) PROVE CallOK(u)'
    <2>1. \A s \in Addresses : Uses(u, s) => ~Frees(t, s)' /\ ~Uses(t, s)'
      BY <1>3, <1>11
    <2> QED  BY <1>1, <1>3, <1>8, <1>12, <1>14, <2>1, Others
  <1>15. ~Is(t, "destroy")  BY <1>1 DEF Idle, Is
  <1> QED  BY <1>1, <1>3, <1>8, <1>13, <1>14, <1>15, CalmSound DEF Sound

LEMMA CheckMagicSound ==
  ASSUME Typed, Sound, Careful', NEW t \in Threads, CheckMagic(t)
  PROVE  Sound'
  <1>1. Is(t, "magic") /\ UNCHANGED <<mem, given, misuse>>  BY DEF CheckMagic
  <1>2. ~Idle(t) /\ ~Is(t, "destroy") /\ Frees1(t) /\ CallOK(t)
    BY <1>1 DEF Is, Idle, Frees1, Sound
  <1>3. PICK c, p : c = call[t] /\ p = c.args[1].p /\ c \in Calls  BY CallFacts
  <1>4. Arg(t).p = p /\ ArgumentOK(p) /\ Freeing(t) /\ (Live(p) => Cell(p).magic)
    BY <1>2, <1>3, FreeTells
  <1>5. CASE ~Cell(p).magic /\ Terminate(t)
    <2>1. c.due = "terminate" /\ ~Without({"stale"})
      BY <1>1, <1>3, <1>4, <1>5 DEF Freeing, Is, ArgumentOK
    <2> QED  BY <1>1, <1>2, <1>3, <1>5, <2>1, CalmEnds DEF Terminate
  <1>6. CASE Cell(p).magic /\ call' = [call EXCEPT ![t].pc = "exchange"] /\ UNCHANGED <<process, broken>>
    <2>1. PICK d : d = [c EXCEPT !.pc = "exchange", !.k = c.k]  OBVIOUS
    <2>2. /\ call' = [call EXCEPT ![t] = d] /\ d.pc = "exchange"
          /\ d.args = c.args /\ d.due = c.due /\ d.k = c.k
      BY <1>2, <1>3, <1>6, <2>1, Moves DEF Calls
    <2>3. call'[t] = d /\ \A v \in Threads \ {t} : call'[v] = call[v]  BY <2>2 DEF Typed
    <2>4. ~Looks(t)' /\ Frees1(t)'  BY <2>2, <2>3 DEF Looks, Frees1
    <2>5. \A j \in DOMAIN call'[t].args : ArgumentOK(call[t].args[j].p)'
      <3> SUFFICES ASSUME NEW j \in DOMAIN c.args PROVE ArgumentOK(call[t].args[j].p)'
        BY <2>2, <2>3
      <3>1. call'[t].args[j].p = c.args[j].p /\ ArgumentOK(c.args[j].p)
        BY <1>2, <1>3, <2>2, <2>3 DEF CallOK
      <3> QED  BY <1>1, <3>1 DEF ArgumentOK, Live, Cell, Without
    <2>6. Freeing(t)'
      BY <1>1, <1>3, <1>4, <1>6, <2>2, <2>3 DEF Freeing, Is, Live, Cell
    <2>7. \A s \in Addresses : Uses(t, s)' <=> Uses(t, s)
      BY <1>3, <2>2, <2>3 DEF Uses
    <2>8. \A u \in Threads \ {t}, s \in Addresses : (Uses(u, s)' <=> Uses(u, s)) /\ (Frees(u, s)' <=> Frees(u, s))
      BY <2>3 DEF Uses, Frees
    <2>9. \A s \in Addresses, u \in Threads : Uses(t, s)' /\ u # t => ~Frees(u, s)' /\ ~Uses(u, s)'
      BY <1>2, <2>7, <2>8 DEF CallOK
    <2>10. CallOK(t)'  BY <2>4, <2>5, <2>6, <2>9 DEF CallOK
    <2> QED  BY <1>1, <1>2, <1>3, <1>6, <2>2, <2>10, CalmMoves
  <1> QED  BY <1>4, <1>5, <1>6 DEF CheckMagic

\* A write to memory that no other call is given.
LEMMA WriteSound ==
  ASSUME Typed, Sound, Careful', misuse \subseteq misuse', UNCHANGED <<given, process>>, ~broken',
         NEW s \in Addresses, mem'[s].id = mem[s].id, \A r \in Addresses \ {s} : mem'[r] = mem[r],
         CellOK(s)',
         \A u \in Threads : \A r \in Addresses \ {s} : Destroying(u, r) => Destroying(u, r)',
         \A u \in Threads : ~Idle(u)' => CallOK(u)'
  PROVE  Sound'
  <1>1. ASSUME NEW r \in Addresses \ {s} PROVE CellOK(r)'
    <2>1. CellOK(r)  BY DEF Sound
    <2> QED  BY <1>1, <2>1 DEF CellOK
  <1>2. \A r \in Addresses : mem'[r].id = mem[r].id  OBVIOUS
  <1>3. ASSUME NEW p \in given' PROVE PointerOK(p)'
    <2>1. PointerOK(p)  BY DEF Sound
    <2> QED  BY <1>2, <2>1, Back DEF PointerOK, Addresses
  <1>4. process' # "undefined" /\ (process' = "terminated" => ~Without({"stale"})')
    BY Back DEF Sound
  <1> QED  BY <1>1, <1>3, <1>4 DEF Sound

LEMMA ExchangeSound ==
  ASSUME Typed, Sound, Careful', NEW t \in Threads, Exchange(t)
  PROVE  Sound'
  <1>1. Is(t, "exchange") /\ UNCHANGED <<given, misuse>>  BY DEF Exchange
  <1>2. ~Idle(t) /\ ~Is(t, "destroy") /\ Frees1(t) /\ CallOK(t)
    BY <1>1 DEF Is, Idle, Frees1, Sound
  <1>3. PICK c, p : c = call[t] /\ p = c.args[1].p /\ c \in Calls  BY CallFacts
  <1>4. /\ Arg(t).p = p /\ ArgumentOK(p) /\ Freeing(t) /\ (Live(p) <=> Cell(p).object)
        /\ p.at \in Addresses /\ Cell(p) = mem[p.at] /\ CellOK(p.at)
        /\ \A r : Uses(t, r) <=> r = p.at
        /\ \A u \in Threads \ {t} : ~Uses(u, p.at)
    BY <1>2, <1>3, FreeTells
  <1>5. PICK s \in Addresses : s = p.at  BY <1>4
  <1>6. mem' = [mem EXCEPT ![s] = [mem[s] EXCEPT !.type = "tombstone"]]
    BY <1>4, <1>5, TypedExchange
  <1>7. ~\E u \in Threads : Destroying(u, s)
    BY <1>1, <1>4, <1>5 DEF Destroying, Is
  <1>8. CASE mem[s].type = "tombstone" /\ Terminate(t)
    <2>1. mem' = mem
      <3>1. mem[s] \in Contents  BY DEF Typed
      <3>2. [mem[s] EXCEPT !.type = "tombstone"] = mem[s]  BY <1>8, <3>1 DEF Contents
      <3> QED  BY <1>6, <3>2 DEF Typed
    <2>2. ~Live(p)  BY <1>4, <1>5, <1>7, <1>8 DEF CellOK, Types
    <2>3. c.due = "terminate" /\ ~Without({"stale"})
      BY <1>1, <1>3, <1>4, <2>2 DEF Freeing, Is, ArgumentOK
    <2> QED  BY <1>1, <1>2, <1>3, <1>8, <2>1, <2>3, CalmEnds DEF Terminate
  <1>9. CASE /\ mem[s].type # "tombstone" /\ UNCHANGED <<process, broken>>
             /\ call' = [call EXCEPT ![t].pc = "destroy"]
    <2>1. mem[s].object /\ mem[s].magic /\ s \in Slots
      BY <1>1, <1>3, <1>4, <1>5, <1>9, ZenonT(60) DEF Freeing, CellOK, Is
    <2>2. c.due = "freed"  BY <1>1, <1>3, <1>4, <1>5, <2>1 DEF Freeing, Is
    <2>3. PICK d : d = [c EXCEPT !.pc = "destroy", !.k = c.k]  OBVIOUS
    <2>4. /\ call' = [call EXCEPT ![t] = d] /\ d.pc = "destroy"
          /\ d.args = c.args /\ d.due = c.due /\ d.k = c.k
      BY <1>2, <1>3, <1>9, <2>3, Moves DEF Calls
    <2>5. call'[t] = d /\ \A v \in Threads \ {t} : call'[v] = call[v]  BY <2>4 DEF Typed
    <2>6. mem[s] \in Contents  BY DEF Typed
    <2>7. /\ mem'[s].object = mem[s].object /\ mem'[s].magic = mem[s].magic
          /\ mem'[s].type = "tombstone" /\ mem'[s].id = mem[s].id
          /\ \A r \in Addresses \ {s} : mem'[r] = mem[r]
      <3>1. mem'[s] = [mem[s] EXCEPT !.type = "tombstone"]  BY <1>6 DEF Typed
      <3>2. \A r \in Addresses \ {s} : mem'[r] = mem[r]  BY <1>6 DEF Typed
      <3> QED  BY <2>6, <3>1, <3>2 DEF Contents
    <2>8. \A r : Uses(t, r)' <=> r = s
      <3>1. call'[t].args = call[t].args  BY <1>3, <2>4, <2>5
      <3>2. \A r : Uses(t, r)' <=> Uses(t, r)  BY <3>1 DEF Uses
      <3> QED  BY <1>4, <1>5, <3>2
    <2>9. \A u \in Threads \ {t} : \A r : (Uses(u, r)' <=> Uses(u, r)) /\ (Frees(u, r)' <=> Frees(u, r))
                                          /\ (Destroying(u, r)' <=> Destroying(u, r))
      BY <2>5 DEF Uses, Frees, Destroying, Is
    <2>10. Destroying(t, s)'  BY <2>4, <2>5, <2>8 DEF Destroying, Is
    <2>11. CellOK(s)'
      <3>1. mem[s].id > 0  BY <1>4, <1>5, <2>1 DEF CellOK
      <3> QED  BY <2>1, <2>7, <2>10, <3>1 DEF CellOK, Types
    <2>12. CallOK(t)'
      <3>1. ~Looks(t)' /\ Frees1(t)'  BY <2>4, <2>5 DEF Looks, Frees1
      <3>2. ArgumentOK(p)'
        BY <1>1, <1>4, <1>5, <2>7 DEF ArgumentOK, Live, Cell, Without
      <3>3. Len(c.args) = 1 /\ c.k = 1 /\ DOMAIN c.args = {1}
        <4>1. Len(c.args) = 1 /\ c.k = 1  BY <1>3, <1>4 DEF Freeing
        <4>2. DOMAIN c.args = 1 .. Len(c.args)  BY <1>3, CallFacts
        <4> QED  BY <4>1, <4>2
      <3>4. \A j \in DOMAIN call'[t].args : ArgumentOK(call[t].args[j].p)'
        <4>1. call'[t].args[1].p = p /\ DOMAIN call'[t].args = {1}  BY <1>3, <2>4, <2>5, <3>3
        <4> QED  BY <3>2, <4>1 DEF ArgumentOK, Live, Cell
      <3>5. Freeing(t)'
        <4>1. call'[t].args[1].p = p /\ Len(call'[t].args) = 1 /\ call'[t].k = 1
          BY <1>3, <2>4, <2>5, <3>3
        <4> QED  BY <1>5, <2>1, <2>2, <2>4, <2>5, <2>7, <4>1 DEF Freeing, Is, Live, Cell
      <3>6. \A r \in Addresses, u \in Threads : Uses(t, r)' /\ u # t => ~Frees(u, r)' /\ ~Uses(u, r)'
        BY <1>4, <1>5, <2>8, <2>9 DEF Frees
      <3> QED  BY <3>1, <3>4, <3>5, <3>6 DEF CallOK
    <2>13. ASSUME NEW u \in Threads, ~Idle(u)' PROVE CallOK(u)'
      <3>1. CASE u = t  BY <2>12, <3>1
      <3>2. CASE u # t
        <4>1. ~Idle(u) /\ call'[u] = call[u]  BY <2>5, <2>13, <3>2 DEF Idle
        <4>2. \A r \in Addresses : Uses(u, r) => mem'[r] = mem[r] /\ ~Uses(t, r)' /\ ~Frees(t, r)'
          BY <1>4, <1>5, <2>7, <2>8, <3>2 DEF Frees
        <4> QED  BY <1>1, <2>9, <4>1, <4>2, Others
      <3> QED  BY <3>1, <3>2
    <2>14. \A u \in Threads : \A r \in Addresses \ {s} : Destroying(u, r) => Destroying(u, r)'
      BY <1>2, <2>9 DEF Destroying
    <2>15. ~broken'  BY <1>9 DEF Sound
    <2> QED  BY <1>1, <1>9, <2>7, <2>11, <2>13, <2>14, <2>15, WriteSound
  <1> QED  BY <1>4, <1>5, <1>8, <1>9 DEF Exchange

LEMMA DestroySound ==
  ASSUME Typed, Sound, Careful', NEW t \in Threads, Destroy(t),
         \A s \in Addresses : mem[s].id <= made
  PROVE  Sound'
  <1>1. Is(t, "destroy") /\ UNCHANGED <<given, misuse>> /\ Ends(t, "freed")  BY DEF Destroy
  <1>2. ~Idle(t) /\ Frees1(t)  BY <1>1 DEF Is, Idle, Frees1
  <1>3. PICK p : p = call[t].args[1].p  OBVIOUS
  <1>4. /\ Arg(t).p = p /\ Freeing(t)
        /\ p.at \in Addresses /\ Cell(p) = mem[p.at] /\ CellOK(p.at)
        /\ \A r : Uses(t, r) <=> r = p.at
        /\ \A u \in Threads \ {t} : ~Uses(u, p.at)
    BY <1>2, <1>3, FreeTells
  <1>5. PICK s \in Addresses : s = p.at  BY <1>4
  <1>6. mem[s].object /\ mem[s].type = "tombstone" /\ call[t].due = "freed"
    BY <1>1, <1>3, <1>4, <1>5 DEF Freeing
  <1>7. mem' = [mem EXCEPT ![s] = [mem[s] EXCEPT !.object = FALSE]]
    BY <1>4, <1>5, TypedDestroy
  <1>8. /\ mem'[s].object = FALSE /\ mem'[s].type = "tombstone" /\ mem'[s].id = mem[s].id
        /\ \A r \in Addresses \ {s} : mem'[r] = mem[r]
    <2>1. mem[s] \in Contents /\ mem'[s] = [mem[s] EXCEPT !.object = FALSE]  BY <1>7 DEF Typed
    <2>2. \A r \in Addresses \ {s} : mem'[r] = mem[r]  BY <1>7 DEF Typed
    <2> QED  BY <1>6, <2>1, <2>2 DEF Contents
  <1>9. call'[t] = NoCall /\ \A v \in Threads \ {t} : call'[v] = call[v]  BY <1>1, EndTyped
  <1>10. Idle(t)' /\ \A r : ~Uses(t, r)' /\ ~Frees(t, r)'  BY <1>9, IdleUses DEF Idle, NoCall
  <1>11. \A u \in Threads \ {t} : \A r : (Uses(u, r)' <=> Uses(u, r)) /\ (Frees(u, r)' <=> Frees(u, r))
                                         /\ (Destroying(u, r)' <=> Destroying(u, r))
    BY <1>9 DEF Uses, Frees, Destroying, Is
  <1>12. CellOK(s)'
    <2>1. s \in Slots  BY <1>4, <1>5, <1>6 DEF CellOK
    <2> QED  BY <1>8, <2>1 DEF CellOK, Types
  <1>13. ASSUME NEW u \in Threads, ~Idle(u)' PROVE CallOK(u)'
    <2>1. u # t /\ call'[u] = call[u] /\ ~Idle(u)  BY <1>9, <1>10, <1>13 DEF Idle
    <2>2. \A r \in Addresses : Uses(u, r) => mem'[r] = mem[r]  BY <1>4, <1>5, <1>8, <2>1
    <2> QED  BY <1>1, <1>10, <1>11, <2>1, <2>2, Others
  <1>14. \A u \in Threads : \A r \in Addresses \ {s} : Destroying(u, r) => Destroying(u, r)'
    BY <1>4, <1>5, <1>11 DEF Destroying
  <1>15. ~broken'  BY <1>1, <1>6 DEF Ends, Sound
  <1>16. process' = process  BY <1>4, <1>5, <1>6 DEF Destroy
  <1> QED  BY <1>1, <1>8, <1>12, <1>13, <1>14, <1>15, <1>16, WriteSound

LEMMA OverwriteSound ==
  ASSUME Typed, Sound, Careful', NEW s \in Slots, Overwrite(s)
  PROVE  Sound'
  <1>1. /\ ~mem[s].object /\ UNCHANGED <<given, call, process, broken>> /\ misuse \subseteq misuse'
        /\ \A t \in Threads : ~Uses(t, s)
    BY DEF Overwrite, Careful, Without
  <1>2. s \in Addresses /\ mem[s] \in Contents  BY DEF Addresses, Typed
  <1>3. mem' = [mem EXCEPT ![s] = [mem[s] EXCEPT !.magic = FALSE, !.type = "other"]]
    BY TypedOverwrite
  <1>4. /\ mem'[s].object = mem[s].object /\ mem'[s].magic = FALSE /\ mem'[s].type = "other"
        /\ mem'[s].id = mem[s].id /\ \A r \in Addresses \ {s} : mem'[r] = mem[r]
    <2>1. mem'[s] = [mem[s] EXCEPT !.magic = FALSE, !.type = "other"]  BY <1>2, <1>3 DEF Typed
    <2>2. \A r \in Addresses \ {s} : mem'[r] = mem[r]  BY <1>3 DEF Typed
    <2> QED  BY <1>2, <2>1, <2>2 DEF Contents
  <1>5. \A u \in Threads : \A r : (Uses(u, r)' <=> Uses(u, r)) /\ (Frees(u, r)' <=> Frees(u, r))
                                  /\ (Destroying(u, r)' <=> Destroying(u, r))
    BY <1>1 DEF Uses, Frees, Destroying, Is
  <1>6. CellOK(s)'  BY <1>1, <1>4 DEF CellOK, Types
  <1>7. ASSUME NEW u \in Threads, ~Idle(u)' PROVE CallOK(u)'
    <2>1. call'[u] = call[u] /\ ~Idle(u)  BY <1>1, <1>7 DEF Idle
    <2>2. \A r \in Addresses : Uses(u, r) => mem'[r] = mem[r]  BY <1>1, <1>4
    <2> QED  BY <1>1, <1>5, <2>1, <2>2, Others
  <1> QED  BY <1>1, <1>2, <1>4, <1>5, <1>6, <1>7, WriteSound DEF Sound

-----------------------------------------------------------------------------
(* What holds of all programs *)

LEMMA MisuseGrows == Next => misuse \subseteq misuse'
  <1> SUFFICES ASSUME Next PROVE misuse \subseteq misuse'
    OBVIOUS
  <1>1. ASSUME NEW t \in Threads, NEW type \in Types, Make(t, type) PROVE misuse \subseteq misuse'
    BY <1>1 DEF Make
  <1>2. ASSUME NEW t \in Threads, ParseNull(t) \/ CheckType(t) \/ Use(t) \/ Free(t)
                                  \/ CheckMagic(t) \/ Exchange(t) \/ Destroy(t)
        PROVE  misuse \subseteq misuse'
    BY <1>2 DEF ParseNull, CheckType, Use, Free, FreeOf, CheckMagic, Exchange, Destroy
  <1>3. ASSUME NEW t \in Threads, CallWith(t) PROVE misuse \subseteq misuse'
    BY <1>3 DEF CallWith, CallOf
  <1>4. ASSUME NEW s \in Slots, Overwrite(s) PROVE misuse \subseteq misuse'
    BY <1>4 DEF Overwrite
  <1> QED  BY <1>1, <1>2, <1>3, <1>4 DEF Next

\* The process runs until it ends in one of two ways.
Endings == {"runs", "terminated", "undefined"}

LEMMA EndsSomehow == process \in Endings /\ Next => process' \in Endings
  <1> SUFFICES ASSUME process \in Endings, Next PROVE process' \in Endings
    OBVIOUS
  <1> USE DEF Endings
  <1>1. ASSUME NEW t \in Threads, NEW type \in Types, Make(t, type) PROVE process' \in Endings
    BY <1>1 DEF Make
  <1>2. ASSUME NEW t \in Threads, ParseNull(t) \/ CallWith(t) \/ CheckType(t) \/ Free(t)
        PROVE  process' \in Endings
    BY <1>2 DEF ParseNull, CallWith, CallOf, CheckType, Free, FreeOf
  <1>3. ASSUME NEW t \in Threads, Use(t) \/ CheckMagic(t) \/ Exchange(t) \/ Destroy(t)
        PROVE  process' \in Endings
    BY <1>3 DEF Use, CheckMagic, Exchange, Destroy, Terminate
  <1>4. ASSUME NEW s \in Slots, Overwrite(s) PROVE process' \in Endings
    BY <1>4 DEF Overwrite
  <1> QED  BY <1>1, <1>2, <1>3, <1>4 DEF Next

\* The pointer that is freed is the only one its call is given.
LEMMA OneUse ==
  ASSUME Typed, Single, NEW t \in Threads, Frees1(t)
  PROVE  /\ ~Idle(t) /\ Arg(t) = call[t].args[1] /\ DOMAIN call[t].args = {1}
         /\ \A s : Uses(t, s) <=> s = Arg(t).p.at
  <1>1. Len(call[t].args) = 1 /\ call[t].k = 1  BY DEF Single
  <1>2. DOMAIN call[t].args = {1}  BY <1>1, CallFacts
  <1> QED  BY <1>1, <1>2 DEF Frees1, Idle, Arg, Uses

LEMMA SingleCalm ==
  ASSUME Typed, Single, misuse \subseteq misuse', UNCHANGED <<mem, made, destroyed>>,
         NEW t \in Threads, \A u \in Threads \ {t} : call'[u] = call[u],
         Frees1(t)' => Len(call'[t].args) = 1 /\ call'[t].k = 1,
         ~Is(t, "destroy")',
         Is(t, "exchange")' => \A s \in Addresses : Uses(t, s)' => mem[s].magic
  PROVE  Single'
  <1>1. \A u \in Threads : Frees1(u)' => Len(call'[u].args) = 1 /\ call'[u].k = 1
    <2> SUFFICES ASSUME NEW u \in Threads \ {t}, Frees1(u)' PROVE Len(call'[u].args) = 1 /\ call'[u].k = 1
      OBVIOUS
    <2> QED  BY DEF Single, Frees1
  <1>2. \A u \in Threads : \A s : Destroying(u, s)' => Destroying(u, s)
    <2> SUFFICES ASSUME NEW u \in Threads \ {t}, NEW s, Destroying(u, s)' PROVE Destroying(u, s)
      BY DEF Destroying
    <2> QED  BY DEF Destroying, Is, Uses
  <1>3. ASSUME Without({"reused", "overwritten"})', NEW s \in Addresses PROVE Kept(s)'
    <2>1. Kept(s)  BY <1>3, Back DEF Single
    <2>2. \A u \in Threads \ {t} : Is(u, "exchange")' /\ Uses(u, s)' => mem[s].magic
      BY <2>1 DEF Kept, Is, Uses
    <2> QED  BY <1>2, <2>1, <2>2 DEF Kept
  <1>4. ASSUME Without({"reused", "overwritten"})', NEW n \in 1 .. MaxObjects PROVE Once(n)'
    <2>1. Once(n)  BY <1>4, Back DEF Single
    <2> QED  BY <1>2, <2>1 DEF Once
  <1> QED  BY <1>1, <1>3, <1>4 DEF Single

LEMMA SingleCalls ==
  ASSUME Typed, Single, misuse \subseteq misuse', NEW t \in Threads,
         CallWith(t) \/ CheckType(t) \/ Use(t) \/ Free(t) \/ CheckMagic(t)
  PROVE  Single'
  <1>1. UNCHANGED <<mem, made, destroyed>>  BY DEF CallWith, CallOf, CheckType, Use, Free, FreeOf, CheckMagic
  <1>2. ASSUME NEW c, call' = [call EXCEPT ![t] = c], c.pc \in {"idle", "check", "use"} PROVE Single'
    <2>1. call'[t] = c /\ \A u \in Threads \ {t} : call'[u] = call[u]  BY <1>2 DEF Typed
    <2>2. ~Frees1(t)' /\ ~Is(t, "destroy")' /\ ~Is(t, "exchange")'
      BY <1>2, <2>1 DEF Frees1, Is
    <2> QED  BY <1>1, <2>1, <2>2, SingleCalm
  <1>3. ASSUME UNCHANGED call PROVE Single'
    <2>1. \A u \in Threads : \A s : (Destroying(u, s)' <=> Destroying(u, s)) /\ (Uses(u, s)' <=> Uses(u, s))
                                    /\ (Frees1(u)' <=> Frees1(u)) /\ (Is(u, "exchange")' <=> Is(u, "exchange"))
      BY <1>3 DEF Destroying, Uses, Frees1, Is
    <2>2. Without({"reused", "overwritten"})' => \A s \in Addresses : Kept(s)'
      BY <1>1, <2>1, Back DEF Single, Kept
    <2>3. Without({"reused", "overwritten"})' => \A n \in 1 .. MaxObjects : Once(n)'
      BY <1>1, <2>1, Back DEF Single, Once
    <2> QED  BY <1>1, <1>3, <2>1, <2>2, <2>3 DEF Single
  <1>4. CASE CallWith(t)
    <2>1. PICK want \in Wanted : \E p \in [DOMAIN want -> Pointers], align \in BOOLEAN :
            CallOf(t, want, p, align)
      BY <1>4 DEF CallWith
    <2>2. UNCHANGED call \/ \E args, align : call' = [call EXCEPT ![t] =
                      [pc |-> "check", k |-> 1, args |-> args, align |-> align, due |-> Due(args, align)]]
      BY <2>1 DEF CallOf
    <2>3. ASSUME NEW args, NEW align, call' = [call EXCEPT ![t] =
                      [pc |-> "check", k |-> 1, args |-> args, align |-> align, due |-> Due(args, align)]]
          PROVE  Single'
      <3>1. PICK c : c = [pc |-> "check", k |-> 1, args |-> args, align |-> align, due |-> Due(args, align)]
        OBVIOUS
      <3> QED  BY <1>2, <2>3, <3>1
    <2> QED  BY <1>3, <2>2, <2>3
  <1>5. CASE \E effect : Ends(t, effect)
    <2>1. call' = [call EXCEPT ![t] = NoCall] /\ NoCall.pc = "idle"  BY <1>5 DEF Ends, NoCall
    <2> QED  BY <1>2, <2>1
  <1>6. CASE CheckType(t) /\ ~\E effect : Ends(t, effect)
    <2>1. PICK c : c = call[t] /\ c \in Calls /\ c.pc = "check" /\ ~Idle(t)
      BY <1>6, CallFacts DEF CheckType, Is, Idle
    <2>2. call' = [call EXCEPT ![t].pc = "use"] \/ call' = [call EXCEPT ![t].k = @ + 1]
      BY <1>6, ZenonT(60) DEF CheckType
    <2>3. \/ call' = [call EXCEPT ![t] = [c EXCEPT !.pc = "use", !.k = c.k]]
          \/ call' = [call EXCEPT ![t] = [c EXCEPT !.pc = "check", !.k = c.k + 1]]
      BY <2>1, <2>2, Moves
    <2>4. [c EXCEPT !.pc = "use", !.k = c.k].pc = "use" /\ [c EXCEPT !.pc = "check", !.k = c.k + 1].pc = "check"
      BY <2>1 DEF Calls
    <2> QED  BY <1>2, <2>3, <2>4
  <1>7. CASE Free(t)
    <2>1. PICK p \in Pointers \ {Null} :
            call' = [call EXCEPT ![t] =
              [NoCall EXCEPT !.pc = "magic", !.args = << [p |-> p, type |-> "any"] >>,
                             !.due = IF Live(p) THEN "freed" ELSE "terminate"]]
      BY <1>7 DEF Free, FreeOf
    <2>2. PICK args : args = << [p |-> p, type |-> "any"] >>
      OBVIOUS
    <2>3. PICK due : due = IF Live(p) THEN "freed" ELSE "terminate"
      OBVIOUS
    <2>4. PICK c : c = [NoCall EXCEPT !.pc = "magic", !.args = args, !.due = due]
      OBVIOUS
    <2>5. call' = [call EXCEPT ![t] = c]  BY <2>1, <2>2, <2>3, <2>4
    <2>6. c.pc = "magic" /\ c.args = args /\ c.k = 1 /\ Len(args) = 1  BY <2>2, <2>4 DEF NoCall
    <2>7. call'[t] = c /\ \A u \in Threads \ {t} : call'[u] = call[u]  BY <2>5 DEF Typed
    <2>8. Len(call'[t].args) = 1 /\ call'[t].k = 1 /\ ~Is(t, "destroy")' /\ ~Is(t, "exchange")'
      BY <2>6, <2>7 DEF Is
    <2> QED  BY <1>1, <2>7, <2>8, SingleCalm
  <1>8. CASE CheckMagic(t) /\ ~\E effect : Ends(t, effect)
    <2>1. /\ Is(t, "magic") /\ Frees1(t) /\ call' = [call EXCEPT ![t].pc = "exchange"]
          /\ Cell(Arg(t).p).magic
      BY <1>8 DEF CheckMagic, Terminate, Is, Frees1
    <2>2. PICK c, p : c = call[t] /\ p = Arg(t).p /\ c \in Calls /\ p.at \in Addresses /\ mem[p.at].magic
                      /\ ~Idle(t) /\ Len(c.args) = 1 /\ c.k = 1
      BY <2>1, CallFacts, OneUse, ArgumentFacts DEF Single
    <2>3. PICK d : d = [c EXCEPT !.pc = "exchange", !.k = c.k]  OBVIOUS
    <2>4. call' = [call EXCEPT ![t] = d] /\ d.pc = "exchange" /\ d.args = c.args /\ d.k = 1
      BY <2>1, <2>2, <2>3, Moves DEF Calls
    <2>5. call'[t] = d /\ \A u \in Threads \ {t} : call'[u] = call[u]  BY <2>4 DEF Typed
    <2>6. \A s : Uses(t, s)' => s = p.at
      <3>1. call'[t].args = call[t].args  BY <2>2, <2>4, <2>5
      <3>2. \A s : Uses(t, s)' <=> Uses(t, s)  BY <3>1 DEF Uses
      <3> QED  BY <2>1, <2>2, <3>2, OneUse
    <2>7. Len(call'[t].args) = 1 /\ call'[t].k = 1 /\ ~Is(t, "destroy")'
      BY <2>2, <2>4, <2>5 DEF Is
    <2> QED  BY <1>1, <2>2, <2>5, <2>6, <2>7, SingleCalm
  <1> QED  BY <1>4, <1>5, <1>6, <1>7, <1>8 DEF Use

LEMMA SingleStill ==
  ASSUME Typed, Single, misuse \subseteq misuse', UNCHANGED <<mem, made, destroyed, call>>
  PROVE  Single'
  <1>1. \A u \in Threads : \A s : (Destroying(u, s)' <=> Destroying(u, s)) /\ (Uses(u, s)' <=> Uses(u, s))
                                  /\ (Frees1(u)' <=> Frees1(u)) /\ (Is(u, "exchange")' <=> Is(u, "exchange"))
    BY DEF Destroying, Uses, Frees1, Is
  <1>2. Without({"reused", "overwritten"})' => \A s \in Addresses : Kept(s)'
    BY <1>1, Back DEF Single, Kept
  <1>3. Without({"reused", "overwritten"})' => \A n \in 1 .. MaxObjects : Once(n)'
    BY <1>1, Back DEF Single, Once
  <1> QED  BY <1>1, <1>2, <1>3 DEF Single

LEMMA SingleMake ==
  ASSUME Typed, Single, misuse \subseteq misuse', NEW t \in Threads, NEW type \in Types, Make(t, type)
  PROVE  Single'
  <1>1. PICK s \in Slots : /\ mem' = [mem EXCEPT ![s] = New(type, made + 1)]
                           /\ misuse' = misuse \cup {m \in {"reused"} : mem[s].id > 0}
    BY DEF Make
  <1>2. PICK k \in Nat, n \in Nat \ {0} : k = made /\ n = made + 1 /\ n = k + 1 /\ made' = n
    BY CApiAssumption DEF Typed, Make
  <1>3. UNCHANGED <<call, destroyed>>  BY DEF Make
  <1>4. /\ mem'[s] = New(type, n) /\ \A r \in Addresses : r # s => mem'[r] = mem[r]
        /\ s \in Addresses /\ mem'[s].id = n
    BY <1>1, <1>2 DEF Typed, Addresses, New
  <1>5. \A u \in Threads : \A r : (Destroying(u, r)' <=> Destroying(u, r)) /\ (Uses(u, r)' <=> Uses(u, r))
                                  /\ (Frees1(u)' <=> Frees1(u)) /\ (Is(u, "exchange")' <=> Is(u, "exchange"))
    BY <1>3 DEF Destroying, Uses, Frees1, Is
  <1>6. \A r \in Addresses : mem[r].id \in Nat /\ mem[r].id <= k
    BY <1>2 DEF Typed, Contents, Single
  <1>7. \A r \in Addresses : mem'[r].id <= n
    BY <1>2, <1>4, <1>6
  <1>8. ASSUME NEW q \in Addresses, NEW r \in Addresses, mem'[q].id = mem'[r].id, mem'[q].id > 0
        PROVE  q = r
    BY <1>2, <1>4, <1>6, <1>8 DEF Single
  <1>9. ASSUME NEW m \in 1 .. MaxObjects, m > n PROVE destroyed'[m] = 0
    BY <1>2, <1>3, <1>9 DEF Single
  <1>10. ASSUME Without({"reused", "overwritten"})' PROVE mem[s].id = 0 /\ \A u \in Threads : ~Destroying(u, s)
    <2>1. ~(mem[s].id > 0)  BY <1>1, <1>10 DEF Without
    <2>2. Kept(s)  BY <1>4, <1>10, Back DEF Single
    <2> QED  BY <1>4, <1>6, <2>1, <2>2 DEF Kept
  <1>11. ASSUME Without({"reused", "overwritten"})', NEW r \in Addresses PROVE Kept(r)'
    <2>1. Kept(r)  BY <1>11, Back DEF Single
    <2>2. CASE r = s  BY <1>2, <1>4, <1>5, <1>10, <1>11, <2>2 DEF Kept, New
    <2>3. CASE r # s  BY <1>4, <1>5, <2>1, <2>3 DEF Kept
    <2> QED  BY <2>2, <2>3
  <1>12. ASSUME Without({"reused", "overwritten"})', NEW m \in 1 .. MaxObjects PROVE Once(m)'
    <2>1. Once(m)  BY <1>12, Back DEF Single
    <2>2. m = n => destroyed[m] = 0
      <3>1. m = n => m > made  BY <1>2
      <3> QED  BY <3>1 DEF Single
    <2>3. ASSUME destroyed[m] = 1, NEW r \in Slots, mem'[r].id = m
          PROVE  mem'[r].type = "tombstone" /\ \A u \in Threads : ~Destroying(u, r)
      <3>1. r # s /\ r \in Addresses  BY <1>4, <2>2, <2>3 DEF Addresses
      <3> QED  BY <1>4, <2>1, <2>3, <3>1 DEF Once
    <2> QED  BY <1>3, <1>5, <2>1, <2>3 DEF Once
  <1>13. \A u \in Threads : Frees1(u)' => Len(call'[u].args) = 1 /\ call'[u].k = 1
    BY <1>3, <1>5 DEF Single
  <1> QED  BY <1>2, <1>7, <1>8, <1>9, <1>11, <1>12, <1>13 DEF Single

LEMMA SingleExchange ==
  ASSUME Typed, Single, misuse \subseteq misuse', NEW t \in Threads, Exchange(t)
  PROVE  Single'
  <1>1. Is(t, "exchange") /\ Frees1(t) /\ ~Idle(t) /\ UNCHANGED <<made, misuse, destroyed>>
    BY DEF Exchange, Is, Frees1, Idle
  <1>2. PICK c, s : /\ c = call[t] /\ c \in Calls /\ Len(c.args) = 1 /\ c.k = 1
                    /\ s = Arg(t).p.at /\ s \in Addresses /\ Cell(Arg(t).p) = mem[s] /\ mem[s] \in Contents
                    /\ \A r : Uses(t, r) <=> r = s
    BY <1>1, CallFacts, ArgumentFacts, OneUse DEF Single
  <1>3. mem' = [mem EXCEPT ![s] = [mem[s] EXCEPT !.type = "tombstone"]]
    BY <1>2, TypedExchange
  <1>4. CASE mem[s].type = "tombstone" /\ Ends(t, "terminate")
    <2>1. mem' = mem
      <3>1. [mem[s] EXCEPT !.type = "tombstone"] = mem[s]  BY <1>2, <1>4 DEF Contents
      <3> QED  BY <1>3, <3>1 DEF Typed
    <2>2. call'[t] = NoCall /\ \A u \in Threads \ {t} : call'[u] = call[u]  BY <1>4, EndTyped
    <2>3. ~Frees1(t)' /\ ~Is(t, "destroy")' /\ ~Is(t, "exchange")'
      BY <2>2 DEF NoCall, Frees1, Is
    <2> QED  BY <1>1, <2>1, <2>2, <2>3, SingleCalm
  <1>5. CASE mem[s].type # "tombstone" /\ call' = [call EXCEPT ![t].pc = "destroy"]
    <2>1. PICK d : d = [c EXCEPT !.pc = "destroy", !.k = c.k]  OBVIOUS
    <2>2. call' = [call EXCEPT ![t] = d] /\ d.pc = "destroy" /\ d.args = c.args /\ d.k = 1
      BY <1>1, <1>2, <1>5, <2>1, Moves DEF Calls
    <2>3. call'[t] = d /\ \A u \in Threads \ {t} : call'[u] = call[u]  BY <2>2 DEF Typed
    <2>4. /\ mem'[s].object = mem[s].object /\ mem'[s].magic = mem[s].magic
          /\ mem'[s].type = "tombstone" /\ mem'[s].id = mem[s].id
          /\ \A r \in Addresses \ {s} : mem'[r] = mem[r]
      <3>1. mem'[s] = [mem[s] EXCEPT !.type = "tombstone"]  BY <1>2, <1>3 DEF Typed
      <3>2. \A r \in Addresses \ {s} : mem'[r] = mem[r]  BY <1>3 DEF Typed
      <3> QED  BY <1>2, <3>1, <3>2 DEF Contents
    <2>5. \A u \in Threads \ {t} : \A r : (Destroying(u, r)' <=> Destroying(u, r)) /\ (Uses(u, r)' <=> Uses(u, r))
                                    /\ (Frees1(u)' <=> Frees1(u)) /\ (Is(u, "exchange")' <=> Is(u, "exchange"))
      BY <2>3 DEF Destroying, Uses, Frees1, Is
    <2>6. (\A r : Uses(t, r)' <=> r = s) /\ ~Is(t, "exchange")'
      <3>1. call'[t].args = call[t].args  BY <1>2, <2>2, <2>3
      <3>2. \A r : Uses(t, r)' <=> Uses(t, r)  BY <3>1 DEF Uses
      <3>3. ~Is(t, "exchange")'  BY <2>2, <2>3 DEF Is
      <3> QED  BY <1>2, <3>2, <3>3
    <2>7. \A r \in Addresses : mem'[r].id = mem[r].id  BY <2>4
    <2>8. ASSUME Without({"reused", "overwritten"})', NEW r \in Addresses PROVE Kept(r)'
      <3>1. Kept(r)  BY <2>8, Back DEF Single
      <3>2. CASE r = s
        <4>1. mem[s].magic /\ s \in Slots /\ mem[s].id > 0
          BY <1>1, <1>2, <3>1, <3>2 DEF Kept
        <4>2. \A u \in Threads : ~Destroying(u, s)  BY <1>5, <3>1, <3>2 DEF Kept
        <4>3. \A u \in Threads : Destroying(u, s)' => u = t  BY <2>5, <4>2
        <4> QED  BY <2>4, <3>2, <4>1, <4>3 DEF Kept
      <3>3. CASE r # s
        <4>1. ~Destroying(t, r)' /\ ~Destroying(t, r)  BY <1>2, <2>6, <3>3 DEF Destroying
        <4>2. \A u \in Threads : Destroying(u, r)' <=> Destroying(u, r)  BY <2>5, <4>1
        <4>3. \A u \in Threads : Is(u, "exchange")' /\ Uses(u, r)' => Is(u, "exchange") /\ Uses(u, r)
          BY <2>5, <2>6
        <4>4. mem'[r] = mem[r]  BY <2>4, <3>3
        <4> QED  BY <3>1, <4>2, <4>3, <4>4 DEF Kept
      <3> QED  BY <3>2, <3>3
    <2>9. ASSUME Without({"reused", "overwritten"})', NEW n \in 1 .. MaxObjects PROVE Once(n)'
      <3>1. Once(n)  BY <2>9, Back DEF Single
      <3>2. ASSUME destroyed[n] = 1, NEW r \in Slots, mem'[r].id = n
            PROVE  mem'[r].type = "tombstone" /\ \A u \in Threads : ~Destroying(u, r)'
        <4>1. r \in Addresses /\ mem[r].id = n  BY <2>7, <3>2 DEF Addresses
        <4>2. mem[r].type = "tombstone" /\ \A u \in Threads : ~Destroying(u, r)
          BY <3>1, <3>2, <4>1 DEF Once
        <4>3. r # s  BY <1>5, <4>2
        <4>4. ~Destroying(t, r)'  BY <2>6, <4>3 DEF Destroying
        <4> QED  BY <2>4, <2>5, <4>1, <4>2, <4>3, <4>4
      <3> QED  BY <1>1, <3>1, <3>2 DEF Once
    <2>10. \A u \in Threads : Frees1(u)' => Len(call'[u].args) = 1 /\ call'[u].k = 1
      <3>1. Len(call'[t].args) = 1 /\ call'[t].k = 1  BY <1>2, <2>2, <2>3
      <3> QED  BY <2>3, <2>5, <3>1 DEF Single
    <2> QED  BY <1>1, <2>7, <2>8, <2>9, <2>10 DEF Single
  <1> QED  BY <1>2, <1>4, <1>5 DEF Exchange, Terminate

LEMMA SingleDestroy ==
  ASSUME Typed, Single, misuse \subseteq misuse', NEW t \in Threads, Destroy(t)
  PROVE  Single'
  <1>1. Is(t, "destroy") /\ Frees1(t) /\ ~Idle(t) /\ Ends(t, "freed") /\ UNCHANGED <<made, misuse>>
    BY DEF Destroy, Is, Frees1, Idle
  <1>2. PICK s : /\ s = Arg(t).p.at /\ s \in Addresses /\ Cell(Arg(t).p) = mem[s] /\ mem[s] \in Contents
                 /\ \A r : Uses(t, r) <=> r = s
    BY <1>1, ArgumentFacts, OneUse
  <1>3. mem' = [mem EXCEPT ![s] = [mem[s] EXCEPT !.object = FALSE]]
    BY <1>2, TypedDestroy DEF Single
  <1>4. /\ mem'[s].type = mem[s].type /\ mem'[s].magic = mem[s].magic /\ mem'[s].id = mem[s].id
        /\ \A r \in Addresses \ {s} : mem'[r] = mem[r]
    <2>1. mem'[s] = [mem[s] EXCEPT !.object = FALSE]  BY <1>2, <1>3 DEF Typed
    <2>2. \A r \in Addresses \ {s} : mem'[r] = mem[r]  BY <1>3 DEF Typed
    <2> QED  BY <1>2, <2>1, <2>2 DEF Contents
  <1>5. PICK k \in Nat : k = mem[s].id /\ k <= made  BY <1>2 DEF Contents, Single
  <1>6. destroyed' = IF k > 0 THEN [destroyed EXCEPT ![k] = @ + 1] ELSE destroyed
    BY <1>2, <1>5 DEF Destroy
  <1>7. k > 0 => k \in 1 .. MaxObjects  BY <1>5, CApiAssumption DEF Typed
  <1>8. \A n \in 1 .. MaxObjects : destroyed'[n] = IF n = k THEN destroyed[n] + 1 ELSE destroyed[n]
    BY <1>6, <1>7 DEF Typed
  <1>9. call'[t] = NoCall /\ \A u \in Threads \ {t} : call'[u] = call[u]  BY <1>1, EndTyped
  <1>10. \A r : ~Uses(t, r)' /\ ~Destroying(t, r)'  BY <1>9, IdleUses
  <1>11. ~Frees1(t)' /\ ~Is(t, "exchange")'  BY <1>9 DEF NoCall, Frees1, Is
  <1>12. \A u \in Threads \ {t} : \A r : (Destroying(u, r)' <=> Destroying(u, r)) /\ (Uses(u, r)' <=> Uses(u, r))
                                  /\ (Frees1(u)' <=> Frees1(u)) /\ (Is(u, "exchange")' <=> Is(u, "exchange"))
    BY <1>9 DEF Destroying, Uses, Frees1, Is
  <1>13. \A r \in Addresses : /\ mem'[r].id = mem[r].id /\ mem'[r].magic = mem[r].magic
                              /\ mem'[r].type = mem[r].type
    BY <1>4
  <1>14. \A n \in 1 .. MaxObjects : n > made => destroyed'[n] = 0
    BY <1>5, <1>8 DEF Single, Typed
  <1>15. Destroying(t, s)  BY <1>1, <1>2 DEF Destroying
  <1>16. ASSUME Without({"reused", "overwritten"})', NEW r \in Addresses PROVE Kept(r)'
    <2>1. Kept(r)  BY <1>16, Back DEF Single
    <2>2. \A u \in Threads : Destroying(u, r)' => Destroying(u, r)  BY <1>10, <1>12
    <2>3. \A u \in Threads : Is(u, "exchange")' /\ Uses(u, r)' => Is(u, "exchange") /\ Uses(u, r)
      BY <1>11, <1>12
    <2>4. mem'[r].object = mem[r].object \/ mem'[r].type = "tombstone"
      <3>1. r = s => mem[r].type = "tombstone"  BY <1>15, <2>1 DEF Kept
      <3> QED  BY <1>4, <3>1
    <2> QED  BY <1>13, <2>1, <2>2, <2>3, <2>4 DEF Kept
  <1>17. ASSUME Without({"reused", "overwritten"})', NEW n \in 1 .. MaxObjects PROVE Once(n)'
    <2>1. Once(n) /\ destroyed[n] \in Nat  BY <1>17, Back DEF Single, Typed
    <2>2. CASE n = k
      <3>1. Kept(s)  BY <1>2, <1>17, Back DEF Single
      <3>2. s \in Slots /\ mem[s].type = "tombstone" /\ \A u \in Threads : Destroying(u, s) => u = t
        BY <1>15, <3>1 DEF Kept
      <3>3. destroyed[n] # 1  BY <1>5, <1>15, <2>1, <2>2, <3>2 DEF Once
      <3>4. destroyed'[n] = 1
        <4>1. PICK d \in Nat : d = destroyed[n] /\ d <= 1 /\ d # 1  BY <2>1, <3>3 DEF Once
        <4> QED  BY <1>8, <2>2, <4>1
      <3>5. ASSUME NEW r \in Slots, mem'[r].id = n
            PROVE  mem'[r].type = "tombstone" /\ \A u \in Threads : ~Destroying(u, r)'
        <4>1. r \in Addresses /\ mem[r].id = mem[s].id /\ mem[s].id > 0
          BY <1>5, <1>13, <2>2, <3>5 DEF Addresses
        <4>2. r = s  BY <1>2, <4>1 DEF Single
        <4> QED  BY <1>4, <1>10, <1>12, <3>2, <4>2
      <3> QED  BY <3>4, <3>5 DEF Once
    <2>3. CASE n # k
      <3>1. destroyed'[n] = destroyed[n]  BY <1>8, <2>3
      <3>2. \A u \in Threads : \A r : Destroying(u, r)' => Destroying(u, r)  BY <1>10, <1>12
      <3>3. \A r \in Slots : mem'[r].id = mem[r].id /\ mem'[r].type = mem[r].type
        BY <1>13 DEF Addresses
      <3> QED  BY <2>1, <3>1, <3>2, <3>3 DEF Once
    <2> QED  BY <2>2, <2>3
  <1>18. \A u \in Threads : Frees1(u)' => Len(call'[u].args) = 1 /\ call'[u].k = 1
    BY <1>9, <1>11, <1>12 DEF Single
  <1> QED  BY <1>1, <1>13, <1>14, <1>16, <1>17, <1>18 DEF Single

LEMMA SingleOverwrite ==
  ASSUME Typed, Single, misuse \subseteq misuse', NEW s \in Slots, Overwrite(s)
  PROVE  Single'
  <1>1. UNCHANGED <<made, call, destroyed>> /\ ~Without({"reused", "overwritten"})'
    BY DEF Overwrite, Without
  <1>2. mem[s] \in Contents /\ mem' = [mem EXCEPT ![s] = [mem[s] EXCEPT !.magic = FALSE, !.type = "other"]]
    BY TypedOverwrite DEF Addresses, Typed
  <1>3. \A r \in Addresses : mem'[r].id = mem[r].id
    <2>1. [mem[s] EXCEPT !.magic = FALSE, !.type = "other"].id = mem[s].id  BY <1>2 DEF Contents
    <2> QED  BY <1>2, <2>1 DEF Typed
  <1>4. \A u \in Threads : Frees1(u)' => Len(call'[u].args) = 1 /\ call'[u].k = 1
    BY <1>1 DEF Single, Frees1
  <1> QED  BY <1>1, <1>3, <1>4 DEF Single

-----------------------------------------------------------------------------
(* The invariant, and what follows from it *)

LEMMA Inductive ==
  /\ Init => IInv /\ process \in Endings
  /\ IInv /\ process \in Endings /\ [Next]_vars => IInv' /\ (process \in Endings)'
  <1>1. ASSUME Init PROVE IInv /\ process \in Endings
    <2>1. Typed  BY <1>1, TypedInit
    <2>2. \A s \in Addresses : mem[s] = [object |-> FALSE, magic |-> FALSE, type |-> "other", id |-> 0]
      BY <1>1 DEF Init, Addresses
    <2>3. \A t \in Threads : call[t] = NoCall  BY <1>1 DEF Init
    <2>4. \A t \in Threads : Idle(t) /\ ~Frees1(t) /\ ~Is(t, "exchange") /\ \A s : ~Destroying(t, s)
      BY <2>3 DEF NoCall, Idle, Frees1, Is, Destroying
    <2>5. Sound
      <3>1. \A s \in Addresses : CellOK(s)  BY <2>2 DEF CellOK, Types
      <3>2. given = {}  BY <1>1 DEF Init
      <3> QED  BY <1>1, <2>4, <3>1, <3>2 DEF Init, Sound
    <2>6. Single
      <3>1. \A s \in Addresses : mem[s].id = 0  BY <2>2
      <3>2. \A s \in Addresses : Kept(s)  BY <2>2, <2>4 DEF Kept
      <3>3. \A n \in 1 .. MaxObjects : Once(n) /\ destroyed[n] = 0  BY <1>1 DEF Init, Once
      <3>4. made = 0  BY <1>1 DEF Init
      <3> QED  BY <2>4, <3>1, <3>2, <3>3, <3>4 DEF Single
    <2> QED  BY <1>1, <2>1, <2>5, <2>6 DEF IInv, Init, Endings
  <1>2. ASSUME Typed, Single, Careful => Sound, process \in Endings, Next
        PROVE  IInv' /\ process' \in Endings
    <2>1. Typed' /\ misuse \subseteq misuse'  BY <1>2, TypedNext, MisuseGrows
    <2>2. Single'
      <3>1. ASSUME NEW t \in Threads, NEW type \in Types, Make(t, type) PROVE Single'
        BY <1>2, <2>1, <3>1, SingleMake
      <3>2. ASSUME NEW t \in Threads, ParseNull(t) PROVE Single'
        BY <1>2, <2>1, <3>2, SingleStill DEF ParseNull
      <3>3. ASSUME NEW t \in Threads, CallWith(t) \/ CheckType(t) \/ Use(t) \/ Free(t) \/ CheckMagic(t)
            PROVE  Single'
        BY <1>2, <2>1, <3>3, SingleCalls
      <3>4. ASSUME NEW t \in Threads, Exchange(t) \/ Destroy(t) PROVE Single'
        BY <1>2, <2>1, <3>4, SingleExchange, SingleDestroy
      <3> QED  BY <1>2, <2>1, <3>1, <3>2, <3>3, <3>4, SingleOverwrite DEF Next
    <2>3. ASSUME Careful' PROVE Sound'
      <3>1. Sound  BY <1>2, <2>1, <2>3, Back DEF Careful
      <3>2. ASSUME NEW t \in Threads, NEW type \in Types, Make(t, type) PROVE Sound'
        BY <1>2, <2>1, <2>3, <3>1, <3>2, MakeSound
      <3>3. ASSUME NEW t \in Threads, CallWith(t) PROVE Sound'
        BY <1>2, <2>1, <2>3, <3>1, <3>3, CallWithSound
      <3>4. ASSUME NEW t \in Threads, ParseNull(t) PROVE Sound'
        BY <2>3, <3>4 DEF ParseNull, Careful, Without
      <3>5. ASSUME NEW t \in Threads, CheckType(t) \/ Use(t) \/ Free(t) \/ CheckMagic(t) PROVE Sound'
        BY <1>2, <2>3, <3>1, <3>5, CheckTypeSound, UseSound, FreeSound, CheckMagicSound
      <3>6. ASSUME NEW t \in Threads, Exchange(t) \/ Destroy(t) PROVE Sound'
        BY <1>2, <2>3, <3>1, <3>6, ExchangeSound, DestroySound DEF Single
      <3> QED  BY <1>2, <2>3, <3>1, <3>2, <3>3, <3>4, <3>5, <3>6, OverwriteSound DEF Next
    <2> QED  BY <1>2, <2>1, <2>2, <2>3, EndsSomehow DEF IInv
  <1>3. ASSUME IInv, process \in Endings, UNCHANGED vars PROVE IInv' /\ process' \in Endings
    <2>1. misuse \subseteq misuse' /\ UNCHANGED <<mem, made, given, call, process, misuse, destroyed, broken>>
      BY <1>3 DEF vars
    <2>2. Typed'  BY <1>3, <2>1 DEF IInv, Typed, Idle
    <2>3. Single'  BY <1>3, <2>1, SingleStill DEF IInv
    <2>4. ASSUME Careful' PROVE Sound'
      <3>1. Sound  BY <1>3, <2>1, <2>4 DEF IInv, Careful, Without
      <3>2. \A u \in Threads : \A s : /\ (Uses(u, s)' <=> Uses(u, s)) /\ (Frees(u, s)' <=> Frees(u, s))
                                      /\ (Destroying(u, s)' <=> Destroying(u, s))
        BY <2>1 DEF Uses, Frees, Destroying, Is
      <3>3. \A u \in Threads : ~Idle(u)' => CallOK(u)'
        BY <1>3, <2>1, <3>1, <3>2, Others DEF IInv, Idle
      <3>4. \A s \in Addresses : CellOK(s)'  BY <2>1, <3>1, <3>2 DEF Sound, CellOK
      <3>5. ASSUME NEW p \in given' PROVE PointerOK(p)'
        <4>1. PointerOK(p)  BY <2>1, <3>1 DEF Sound
        <4> QED  BY <2>1, <4>1 DEF PointerOK, Without
      <3> QED  BY <2>1, <3>1, <3>3, <3>4, <3>5 DEF Sound, Without
    <2> QED  BY <1>3, <2>1, <2>2, <2>3, <2>4 DEF IInv
  <1> QED  BY <1>1, <1>2, <1>3 DEF IInv

LEMMA Invariance == Spec => [](IInv /\ process \in Endings)
  BY Inductive, PTL DEF Spec

\* However many threads call, on however many objects: a program that passes only
\* objects it has not freed, and frees none that another call is given, is never led
\* to memory that is not the object wanted, nor terminated.
THEOREM Disciplined == Spec => []DisciplinedSafe
  <1>1. IInv /\ process \in Endings => DisciplinedSafe
    BY DEF IInv, Sound, Careful, Without, DisciplinedSafe, Endings
  <1> QED  BY <1>1, Invariance, PTL

\* Stale pointers and wrong types are found out before anything is read through them,
\* unless calls overlap or the memory has been used again.
THEOREM Caught == Spec => []MisuseCaught
  <1>1. IInv => MisuseCaught
    BY DEF IInv, Sound, Careful, Without, MisuseCaught
  <1> QED  BY <1>1, Invariance, PTL

\* And each call has the effect the table of README.md:45-52 gives its arguments.
THEOREM AsPromised == Spec => []EffectAsPromised
  <1>1. IInv => EffectAsPromised
    BY DEF IInv, Sound, Careful, Without, EffectAsPromised
  <1> QED  BY <1>1, Invariance, PTL

\* Of any number of threads that free an object, the exchange lets one through.
THEOREM FreedOnce == Spec => []DestroyedOnce
  <1>1. IInv => DestroyedOnce
    BY CApiAssumption DEF IInv, Typed, Single, Once, DestroyedOnce
  <1> QED  BY <1>1, Invariance, PTL

-----------------------------------------------------------------------------
(* Wrappers *)

IsMethod(d) == d = [at |-> d.at, on |-> d.on, want |-> d.want, with |-> d.with]
IsWrapper(r) == r = [type |-> r.type, handle |-> r.handle, owner |-> r.owner, kept |-> r.kept]

WrapperOK(w) ==
  /\ IsWrapper(wrapper[w])
  /\ w > made => wrapper[w] = NoWrapper
  /\ wrapper[w].handle = Null \/ (wrapper[w].handle \in given /\ wrapper[w].handle.id = w)

\* What a call of the C interface will be given.
Fits(t) ==
  /\ doing[t].want \in Wanted
  /\ DOMAIN doing[t].with = DOMAIN doing[t].want
  /\ \A k \in DOMAIN doing[t].want :
       LET p == doing[t].with[k] IN
       /\ p \in given
       /\ wrapper[p.id].type = doing[t].want[k]
       /\ shared \/ wrapper[p.id].owner = t

\* The pointer that is freed.
Hold(t) ==
  LET p == doing[t].with[1] IN
  /\ doing[t].on # 0
  /\ p \in given /\ p.id = doing[t].on
  /\ wrapper[p.id].handle \in {p, Null}
  /\ shared \/ wrapper[p.id].owner = t

Releases(t) == doing[t].at \in {"free", "freeing"}

MethodOK(t) ==
  /\ IsMethod(doing[t])
  /\ doing[t].on # 0 =>
       /\ doing[t].on \in 1 .. made
       /\ wrapper[doing[t].on].kept \/ wrapper[doing[t].on].owner = t
       /\ ~Releases(t) =>
            /\ ~wrapper[doing[t].on].kept /\ wrapper[doing[t].on].type = "signature"
            /\ wrapper[doing[t].on].owner = t /\ wrapper[doing[t].on].handle # Null
  /\ In(t, "program") => doing[t].on = 0
  /\ In(t, "text") \/ In(t, "close") => doing[t].on # 0
  /\ In(t, "enter") \/ In(t, "inside") => Fits(t)
  /\ Releases(t) => Hold(t)
  /\ ~Idle(t) =>
       \/ /\ In(t, "inside") /\ Looks(t)
          /\ call[t].args = [k \in DOMAIN doing[t].want |-> [p |-> doing[t].with[k], type |-> doing[t].want[k]]]
       \/ /\ In(t, "freeing") /\ Frees1(t)
          /\ call[t].args = << [p |-> doing[t].with[1], type |-> "any"] >>

Bound ==
  /\ made \in Nat
  /\ \A p \in given : p.at \in Slots /\ p.id \in 1 .. made
  /\ wrapper = [w \in Wrappers |-> wrapper[w]]
  /\ doing = [t \in Threads |-> doing[t]]
  /\ call = [t \in Threads |-> call[t]]
  /\ made <= MaxObjects
  /\ \A w \in Wrappers : WrapperOK(w)
  /\ \A t \in Threads : MethodOK(t)

\* The method of one thread and what it looks at stay as they are, but that a pointer
\* may be forgotten.
LEMMA Bystander ==
  ASSUME Bound, NEW u \in Threads, MethodOK(u), doing'[u] = doing[u], call'[u] = call[u],
         given \subseteq given', shared' = shared, made' \in Nat, made <= made',
         NEW x,
         \A w \in 1 .. made : /\ wrapper'[w].type = wrapper[w].type /\ wrapper'[w].owner = wrapper[w].owner
                              /\ wrapper'[w].kept = wrapper[w].kept
                              /\ wrapper'[w].handle = wrapper[w].handle \/ (w = x /\ wrapper'[w].handle = Null),
         x # 0 /\ doing[u].on = x => Releases(u)
  PROVE  MethodOK(u)'
  <1>1. PICK d : d = doing[u] /\ d = doing'[u]  OBVIOUS
  <1>2. PICK c : c = call[u] /\ c = call'[u]  OBVIOUS
  <1>3. \A at : In(u, at)' <=> In(u, at)  BY <1>1 DEF In
  <1>4. /\ Idle(u)' <=> Idle(u)
        /\ Looks(u)' <=> Looks(u)
        /\ Frees1(u)' <=> Frees1(u)
        /\ Releases(u)' <=> Releases(u)
    BY <1>1, <1>2 DEF Idle, Looks, Frees1, Releases
  <1>5. Fits(u) => Fits(u)'
    BY <1>1 DEF Fits, Bound
  <1>6. Hold(u) => Hold(u)'
    BY <1>1, ZenonT(60) DEF Hold, Bound
  <1>7. IsMethod(d)  BY <1>1 DEF MethodOK
  <1>8. d.on # 0 => d.on \in 1 .. made'  BY <1>1 DEF MethodOK, Bound
  <1>9. d.on # 0 => /\ wrapper'[d.on].kept \/ wrapper'[d.on].owner = u
                    /\ ~Releases(u) =>
                         /\ ~wrapper'[d.on].kept /\ wrapper'[d.on].type = "signature"
                         /\ wrapper'[d.on].owner = u /\ wrapper'[d.on].handle # Null
    BY <1>1 DEF MethodOK
  <1>10. ~Idle(u) =>
       \/ /\ In(u, "inside") /\ Looks(u)
          /\ c.args = [k \in DOMAIN d.want |-> [p |-> d.with[k], type |-> d.want[k]]]
       \/ /\ In(u, "freeing") /\ Frees1(u)
          /\ c.args = << [p |-> d.with[1], type |-> "any"] >>
    BY <1>1, <1>2 DEF MethodOK
  <1>11. /\ In(u, "program") => d.on = 0
         /\ In(u, "text") \/ In(u, "close") => d.on # 0
         /\ In(u, "enter") \/ In(u, "inside") => Fits(u)'
         /\ Releases(u) => Hold(u)'
    BY <1>1, <1>5, <1>6 DEF MethodOK
  <1> QED  BY <1>1, <1>2, <1>3, <1>4, <1>7, <1>8, <1>9, <1>10, <1>11 DEF MethodOK

-----------------------------------------------------------------------------
(* The methods keep to their wrappers *)

LEMMA Moved ==
  ASSUME Bound, NEW t \in Threads, NEW d, IsMethod(d), doing' = [doing EXCEPT ![t] = d]
  PROVE  /\ doing'[t] = d /\ \A u \in Threads \ {t} : doing'[u] = doing[u]
         /\ doing' = [u \in Threads |-> doing'[u]]
  BY DEF Bound

LEMMA Gone ==
  ASSUME Bound, NEW t \in Threads, NEW at, Go(t, at)
  PROVE  doing' = [doing EXCEPT ![t] = [at |-> at, on |-> doing[t].on, want |-> doing[t].want, with |-> doing[t].with]]
  <1>1. IsMethod(doing[t])  BY DEF Bound, MethodOK
  <1>2. PICK d : d = doing[t]  OBVIOUS
  <1>3. [d EXCEPT !.at = at] = [at |-> at, on |-> d.on, want |-> d.want, with |-> d.with]
    BY <1>1, <1>2 DEF IsMethod
  <1>4. doing' = [doing EXCEPT ![t] = [d EXCEPT !.at = at]]  BY <1>2 DEF Go
  <1> QED  BY <1>2, <1>3, <1>4

\* A step of one thread that forgets no pointer leaves the others as they are.
LEMMA BoundStep ==
  ASSUME Bound, NEW t \in Threads, NEW x,
         \A u \in Threads \ {t} : doing'[u] = doing[u] /\ call'[u] = call[u],
         doing' = [u \in Threads |-> doing'[u]], call' = [u \in Threads |-> call'[u]],
         given \subseteq given', shared' = shared, made' \in Nat, made <= made', made' <= MaxObjects,
         \A p \in given' : p.at \in Slots /\ p.id \in 1 .. made',
         wrapper' = [w \in Wrappers |-> wrapper'[w]],
         \A w \in 1 .. made : /\ wrapper'[w].type = wrapper[w].type /\ wrapper'[w].owner = wrapper[w].owner
                              /\ wrapper'[w].kept = wrapper[w].kept
                              /\ wrapper'[w].handle = wrapper[w].handle \/ (w = x /\ wrapper'[w].handle = Null),
         \A u \in Threads \ {t} : x # 0 /\ doing[u].on = x => Releases(u),
         \A w \in Wrappers : WrapperOK(w)', MethodOK(t)'
  PROVE  Bound'
  <1>1. ASSUME NEW u \in Threads \ {t} PROVE MethodOK(u)'
    <2>1. MethodOK(u)  BY DEF Bound
    <2> QED  BY <1>1, <2>1, Bystander
  <1> QED  BY <1>1 DEF Bound

LEMMA CallsFunction ==
  ASSUME Bound, NEW t \in Threads, NEW c, call' = [call EXCEPT ![t] = c]
  PROVE  /\ call'[t] = c /\ \A u \in Threads \ {t} : call'[u] = call[u]
         /\ call' = [u \in Threads |-> call'[u]]
  BY DEF Bound

\* Wrappers and pointers stay as they are.
LEMMA QuietStep ==
  ASSUME Bound, NEW t \in Threads,
         \A u \in Threads \ {t} : doing'[u] = doing[u],
         \A u \in Threads \ {t} : call'[u] = call[u],
         doing' = [u \in Threads |-> doing'[u]], call' = [u \in Threads |-> call'[u]],
         UNCHANGED <<given, made, shared, wrapper>>, MethodOK(t)'
  PROVE  Bound'
  <1>1. \A w \in Wrappers : WrapperOK(w)'  BY DEF Bound, WrapperOK
  <1>2. made' \in Nat /\ made <= made' /\ made' <= MaxObjects /\ given \subseteq given'
    BY DEF Bound
  <1>3. /\ \A p \in given' : p.at \in Slots /\ p.id \in 1 .. made'
        /\ wrapper' = [w \in Wrappers |-> wrapper'[w]]
    BY DEF Bound
  <1>4. PICK x : x = 0  OBVIOUS
  <1> QED  BY <1>1, <1>2, <1>3, <1>4, BoundStep

LEMMA MethodStep ==
  ASSUME Bound, NEW t \in Threads, NEW d, IsMethod(d), doing' = [doing EXCEPT ![t] = d],
         UNCHANGED <<given, made, shared, wrapper, call>>, MethodOK(t)'
  PROVE  Bound'
  <1>1. \A u \in Threads \ {t} : doing'[u] = doing[u]  BY Moved
  <1>2. doing' = [u \in Threads |-> doing'[u]]  BY Moved
  <1>3. call' = [u \in Threads |-> call'[u]]  BY DEF Bound
  <1> QED  BY <1>1, <1>2, <1>3, QuietStep

\* A new object and its wrapper.
LEMMA Wrapped ==
  ASSUME Bound, NEW t \in Threads, NEW type \in Types, NEW kept \in BOOLEAN,
         Make(t, type), Wrapping(t, type, kept)
  PROVE  \E s \in Slots :
           /\ ~mem[s].object
           /\ mem' = [mem EXCEPT ![s] = New(type, made + 1)]
           /\ made' = made + 1 /\ made + 1 \in Wrappers
           /\ given' = given \cup {[at |-> s, id |-> made + 1]}
           /\ wrapper' = [wrapper EXCEPT ![made + 1] =
                [type |-> type, handle |-> [at |-> s, id |-> made + 1], owner |-> t, kept |-> kept]]
           /\ misuse' \subseteq misuse \cup {"reused"}
           /\ UNCHANGED <<call, process>>
           /\ Idle(t)
  <1>1. PICK s \in Slots : /\ ~mem[s].object
                           /\ mem' = [mem EXCEPT ![s] = New(type, made + 1)]
                           /\ given' = given \cup {[at |-> s, id |-> made + 1]}
                           /\ misuse' = misuse \cup {m \in {"reused"} : mem[s].id > 0}
    BY DEF Make
  <1>2. made' = made + 1 /\ made < MaxObjects /\ UNCHANGED <<call, process>> /\ Idle(t)  BY DEF Make
  <1>3. made + 1 \in Wrappers  BY <1>2, CApiAssumption DEF Bound, Wrappers
  <1>4. PICK p \in given' \ given :
          wrapper' = [wrapper EXCEPT ![p.id] = [type |-> type, handle |-> p, owner |-> t, kept |-> kept]]
    BY DEF Wrapping
  <1>5. p = [at |-> s, id |-> made + 1]  BY <1>1, <1>4
  <1>6. p.id = made + 1  BY <1>5
  <1> QED  BY <1>1, <1>2, <1>3, <1>4, <1>5, <1>6

LEMMA WrappedOK ==
  ASSUME Bound, NEW t \in Threads, NEW type \in Types, NEW kept \in BOOLEAN, NEW s \in Slots,
         made' = made + 1, made + 1 \in Wrappers,
         given' = given \cup {[at |-> s, id |-> made + 1]},
         wrapper' = [wrapper EXCEPT ![made + 1] =
           [type |-> type, handle |-> [at |-> s, id |-> made + 1], owner |-> t, kept |-> kept]]
  PROVE  /\ made' \in Nat /\ made <= made' /\ made' <= MaxObjects
         /\ \A p \in given' : p.at \in Slots /\ p.id \in 1 .. made'
         /\ wrapper' = [w \in Wrappers |-> wrapper'[w]]
         /\ \A w \in 1 .. made : wrapper'[w] = wrapper[w]
         /\ wrapper'[made + 1] =
              [type |-> type, handle |-> [at |-> s, id |-> made + 1], owner |-> t, kept |-> kept]
         /\ \A w \in Wrappers : WrapperOK(w)'
  <1>1. made \in Nat /\ made' \in Nat /\ made <= made' /\ made' <= MaxObjects
    BY CApiAssumption DEF Bound, Wrappers
  <1>2. PICK n \in Nat : n = made + 1 /\ n = made'  BY <1>1
  <1>3. \A p \in given' : p.at \in Slots /\ p.id \in 1 .. made'  BY <1>1 DEF Bound
  <1>4. wrapper' = [w \in Wrappers |-> wrapper'[w]]  BY DEF Bound
  <1>5. \A w \in Wrappers : w # made + 1 => wrapper'[w] = wrapper[w]  BY DEF Bound
  <1>6. PICK p : p = [at |-> s, id |-> n]  OBVIOUS
  <1>7. wrapper'[n] = [type |-> type, handle |-> p, owner |-> t, kept |-> kept]
    BY <1>2, <1>6 DEF Bound
  <1>8. WrapperOK(n)'
    BY <1>1, <1>2, <1>6, <1>7 DEF WrapperOK, IsWrapper
  <1>9. ASSUME NEW w \in Wrappers, w # n PROVE WrapperOK(w)'
    <2>1. WrapperOK(w) /\ wrapper'[w] = wrapper[w]  BY <1>2, <1>5, <1>9 DEF Bound
    <2>2. w > n => w > made  BY <1>1, <1>2, <1>9 DEF Wrappers
    <2> QED  BY <1>2, <2>1, <2>2 DEF WrapperOK
  <1>10. \A w \in 1 .. made : w \in Wrappers /\ w # made + 1
    BY <1>1, CApiAssumption DEF Wrappers, Bound
  <1> QED  BY <1>1, <1>2, <1>3, <1>4, <1>5, <1>6, <1>7, <1>8, <1>9, <1>10

LEMMA BoundWrap ==
  ASSUME Bound, NEW t \in Threads, NEW type \in Types, Wrap(t, type)
  PROVE  Bound'
  <1>1. PICK s \in Slots :
           /\ made' = made + 1 /\ made + 1 \in Wrappers
           /\ given' = given \cup {[at |-> s, id |-> made + 1]}
           /\ wrapper' = [wrapper EXCEPT ![made + 1] =
                [type |-> type, handle |-> [at |-> s, id |-> made + 1], owner |-> t, kept |-> TRUE]]
           /\ UNCHANGED call
    BY Wrapped DEF Wrap
  <1>2. /\ made' \in Nat /\ made <= made' /\ made' <= MaxObjects
        /\ \A p \in given' : p.at \in Slots /\ p.id \in 1 .. made'
        /\ wrapper' = [w \in Wrappers |-> wrapper'[w]]
        /\ \A w \in 1 .. made : wrapper'[w] = wrapper[w]
        /\ \A w \in Wrappers : WrapperOK(w)'
    BY <1>1, WrappedOK
  <1>3. UNCHANGED <<doing, shared>> /\ given \subseteq given'  BY <1>1 DEF Wrap
  <1>4. MethodOK(t)'
    <2>1. MethodOK(t)  BY DEF Bound
    <2> QED  BY <1>1, <1>2, <1>3, <2>1, Bystander
  <1> QED  BY <1>1, <1>2, <1>3, <1>4, BoundStep DEF Bound

LEMMA BoundFindText ==
  ASSUME Bound, NEW t \in Threads, FindText(t)
  PROVE  Bound'
  <1>1. PICK s \in Slots :
           /\ made' = made + 1 /\ made + 1 \in Wrappers
           /\ given' = given \cup {[at |-> s, id |-> made + 1]}
           /\ wrapper' = [wrapper EXCEPT ![made + 1] =
                [type |-> "signature", handle |-> [at |-> s, id |-> made + 1], owner |-> t, kept |-> FALSE]]
           /\ UNCHANGED call /\ Idle(t)
    BY Wrapped DEF FindText, Types
  <1>2. /\ made' \in Nat /\ made <= made' /\ made' <= MaxObjects
        /\ \A p \in given' : p.at \in Slots /\ p.id \in 1 .. made'
        /\ wrapper' = [w \in Wrappers |-> wrapper'[w]]
        /\ \A w \in 1 .. made : wrapper'[w] = wrapper[w]
        /\ wrapper'[made + 1] =
             [type |-> "signature", handle |-> [at |-> s, id |-> made + 1], owner |-> t, kept |-> FALSE]
        /\ \A w \in Wrappers : WrapperOK(w)'
    BY <1>1, WrappedOK DEF Types
  <1>3. PICK d : d = [at |-> "text", on |-> made + 1, want |-> <<>>, with |-> <<>>]  OBVIOUS
  <1>4. doing' = [doing EXCEPT ![t] = d]
    <2>1. PICK n : n = made + 1  OBVIOUS
    <2>2. PICK e : e = [NoMethod EXCEPT !.at = "text", !.on = n]  OBVIOUS
    <2>3. e = [at |-> "text", on |-> n, want |-> <<>>, with |-> <<>>]  BY <2>2 DEF NoMethod
    <2>4. doing' = [doing EXCEPT ![t] = e]  BY <2>1, <2>2 DEF FindText
    <2> QED  BY <1>3, <2>1, <2>3, <2>4
  <1>5. IsMethod(d)  BY <1>3 DEF IsMethod
  <1>6. /\ doing'[t] = d /\ doing' = [u \in Threads |-> doing'[u]]
        /\ \A u \in Threads \ {t} : doing'[u] = doing[u]
    BY <1>4, <1>5, Moved
  <1>7. Idle(t)' /\ shared' = shared /\ given \subseteq given'  BY <1>1 DEF FindText, Idle
  <1>8. [at |-> s, id |-> made + 1] # Null  BY CApiAssumption DEF Null
  <1>9. MethodOK(t)'
    <2>1. PICK n \in Nat : n = made + 1 /\ n = made' /\ n # 0  BY <1>1, <1>2 DEF Bound
    <2>2. PICK r : /\ r = wrapper'[n] /\ ~r.kept /\ r.type = "signature" /\ r.owner = t /\ r.handle # Null
      BY <1>2, <1>8, <2>1
    <2>3. d.on = n /\ d.at = "text" /\ n \in 1 .. n  BY <1>3, <2>1
    <2> QED  BY <1>5, <1>6, <1>7, <2>1, <2>2, <2>3 DEF MethodOK, In, Releases
  <1> QED  BY <1>1, <1>2, <1>6, <1>7, <1>9, BoundStep DEF Bound

\* The pointers read from wrappers are theirs.
LEMMA HandlesFit ==
  ASSUME Bound, NEW t \in Threads, NEW want, NEW with \in Handles(t, want)
  PROVE  /\ with = [k \in DOMAIN want |-> with[k]]
         /\ \A k \in DOMAIN want :
              LET p == with[k] IN
              /\ p \in given /\ p.id \in Wrappers
              /\ wrapper[p.id].handle = p /\ wrapper[p.id].type = want[k]
              /\ shared \/ wrapper[p.id].owner = t
  <1>1. PICK w \in [DOMAIN want -> Wrappers] :
          /\ \A k \in DOMAIN want : Usable(t, w[k]) /\ wrapper[w[k]].type = want[k] /\ wrapper[w[k]].handle # Null
          /\ with = [k \in DOMAIN want |-> wrapper[w[k]].handle]
    BY DEF Handles
  <1>2. ASSUME NEW k \in DOMAIN want
        PROVE  LET p == with[k] IN
               /\ p \in given /\ p.id \in Wrappers
               /\ wrapper[p.id].handle = p /\ wrapper[p.id].type = want[k]
               /\ shared \/ wrapper[p.id].owner = t
    <2>1. w[k] \in Wrappers /\ with[k] = wrapper[w[k]].handle  BY <1>1, <1>2
    <2>2. with[k] \in given /\ with[k].id = w[k]  BY <1>1, <2>1 DEF Bound, WrapperOK
    <2> QED  BY <1>1, <2>1, <2>2 DEF Usable
  <1> QED  BY <1>1, <1>2

LEMMA BoundRead ==
  ASSUME Bound, NEW t \in Threads, Read(t)
  PROVE  Bound'
  <1>0. PICK want \in Wanted : \E with \in Handles(t, want) :
          doing' = [doing EXCEPT ![t] = [at |-> "enter", on |-> 0, want |-> want, with |-> with]]
    BY DEF Read
  <1>1. PICK with \in Handles(t, want) :
          doing' = [doing EXCEPT ![t] = [at |-> "enter", on |-> 0, want |-> want, with |-> with]]
    BY <1>0
  <1>2. UNCHANGED <<given, made, shared, wrapper, call>>  BY DEF Read, vars
  <1>3. /\ IsMethod(doing[t]) /\ doing[t].on = 0 /\ Idle(t)
    BY DEF Bound, MethodOK, Read, In
  <1>4. PICK d : d = [at |-> "enter", on |-> 0, want |-> want, with |-> with]  OBVIOUS
  <1>5. doing' = [doing EXCEPT ![t] = d]  BY <1>1, <1>4
  <1>6. IsMethod(d)  BY <1>4 DEF IsMethod
  <1>7. doing'[t] = d  BY <1>5, <1>6, Moved
  <1>8. Fits(t)'
    <2>1. with = [k \in DOMAIN want |-> with[k]]  BY HandlesFit
    <2>2. DOMAIN with = DOMAIN want  BY <2>1
    <2>3. ASSUME NEW k \in DOMAIN want
          PROVE  /\ with[k] \in given /\ wrapper[with[k].id].type = want[k]
                 /\ shared \/ wrapper[with[k].id].owner = t
      BY <2>3, HandlesFit
    <2>4. d.want = want /\ d.with = with  BY <1>4
    <2> QED  BY <1>2, <1>7, <2>2, <2>3, <2>4 DEF Fits
  <1>9. MethodOK(t)'
    <2>1. d.at = "enter" /\ d.on = 0  BY <1>4
    <2>2. Idle(t)'  BY <1>2, <1>3 DEF Idle
    <2> QED  BY <1>6, <1>7, <1>8, <2>1, <2>2 DEF MethodOK, In, Releases
  <1> QED  BY <1>2, <1>5, <1>6, <1>9, MethodStep

\* A method that goes on with what it has read.
LEMMA GoOn ==
  ASSUME Bound, NEW t \in Threads, NEW at, Go(t, at), ~Releases(t),
         at \in {"enter", "inside"} => In(t, "enter") \/ In(t, "inside"),
         at \in {"text", "close"} => doing[t].on # 0,
         at \in {"text", "close", "enter", "inside"},
         UNCHANGED <<given, made, shared, wrapper>>,
         Idle(t)' \/ (/\ at = "inside" /\ Looks(t)'
                      /\ call'[t].args = [k \in DOMAIN doing[t].want |->
                                            [p |-> doing[t].with[k], type |-> doing[t].want[k]]])
  PROVE  MethodOK(t)'
  <1>1. PICK c : c = doing[t]  OBVIOUS
  <1>2. PICK d : d = [at |-> at, on |-> c.on, want |-> c.want, with |-> c.with]  OBVIOUS
  <1>3. doing' = [doing EXCEPT ![t] = d]  BY <1>1, <1>2, Gone
  <1>4. IsMethod(d)  BY <1>2 DEF IsMethod
  <1>5. doing'[t] = d  BY <1>3, <1>4, Moved
  <1>6. d.at = at /\ d.on = c.on /\ d.want = c.want /\ d.with = c.with  BY <1>2
  <1>7. MethodOK(t)  BY DEF Bound
  <1>8. at \in {"enter", "inside"} => Fits(t)'
    BY <1>1, <1>5, <1>6, <1>7 DEF MethodOK, Fits
  <1>9. c.on # 0 =>
       /\ c.on \in 1 .. made' /\ ~wrapper'[c.on].kept /\ wrapper'[c.on].type = "signature"
       /\ wrapper'[c.on].owner = t /\ wrapper'[c.on].handle # Null
    BY <1>1, <1>7 DEF MethodOK
  <1> QED  BY <1>1, <1>4, <1>5, <1>6, <1>8, <1>9 DEF MethodOK, In, Releases

LEMMA BoundEnter ==
  ASSUME Bound, NEW t \in Threads, Enter(t)
  PROVE  Bound'
  <1>1. PICK want, with : want = doing[t].want /\ with = doing[t].with  OBVIOUS
  <1>2. PICK args : args = [k \in DOMAIN want |-> [p |-> with[k], type |-> want[k]]]  OBVIOUS
  <1>3. CallOf(t, want, with, TRUE)  BY <1>1 DEF Enter
  <1>4. UNCHANGED <<given, made, shared, wrapper>> /\ Go(t, "inside") /\ In(t, "enter") /\ Idle(t)
    BY <1>3 DEF Enter, CallOf
  <1>5. /\ \A u \in Threads \ {t} : call'[u] = call[u]
        /\ call' = [u \in Threads |-> call'[u]]
        /\ Idle(t)' \/ (Looks(t)' /\ call'[t].args = args)
    <2>1. CASE UNCHANGED call  BY <1>4, <2>1 DEF Bound, Idle
    <2>2. CASE ~UNCHANGED call
      <3>1. PICK c : /\ c = [pc |-> "check", k |-> 1, args |-> args, align |-> TRUE, due |-> Due(args, TRUE)]
                     /\ call' = [call EXCEPT ![t] = c]
        BY <1>2, <1>3, <2>2 DEF CallOf
      <3>2. c.pc = "check" /\ c.args = args  BY <3>1
      <3> QED  BY <3>1, <3>2, CallsFunction DEF Looks
    <2> QED  BY <2>1, <2>2
  <1>6. ~Releases(t)  BY <1>4 DEF Releases, In
  <1>7. MethodOK(t)'
    BY <1>1, <1>2, <1>4, <1>5, <1>6, GoOn
  <1>8. doing' = [u \in Threads |-> doing'[u]] /\ \A u \in Threads \ {t} : doing'[u] = doing[u]
    BY <1>4 DEF Go, Bound
  <1> QED  BY <1>4, <1>5, <1>7, <1>8, QuietStep

LEMMA NoMethodOK ==
  ASSUME NEW t \in Threads, doing'[t] = NoMethod, Idle(t)'
  PROVE  MethodOK(t)'
  BY DEF MethodOK, NoMethod, IsMethod, In, Releases

LEMMA BoundReturn ==
  ASSUME Bound, NEW t \in Threads, Return(t)
  PROVE  Bound'
  <1>1. UNCHANGED <<given, made, shared, wrapper, call>> /\ Idle(t) /\ In(t, "inside")
    BY DEF Return, vars
  <1>2. Idle(t)'  BY <1>1 DEF Idle
  <1>3. ~Releases(t)  BY <1>1 DEF Releases, In
  <1>4. CASE doing[t].on = 0
    <2>1. doing' = [doing EXCEPT ![t] = NoMethod]  BY <1>4 DEF Return
    <2>2. IsMethod(NoMethod)  BY DEF IsMethod, NoMethod
    <2>3. MethodOK(t)'  BY <1>2, <2>1, <2>2, Moved, NoMethodOK
    <2> QED  BY <1>1, <2>1, <2>2, <2>3, MethodStep
  <1>5. CASE doing[t].on # 0
    <2>1. Go(t, "close")  BY <1>5 DEF Return
    <2>2. MethodOK(t)'  BY <1>1, <1>2, <1>3, <1>5, <2>1, GoOn
    <2>3. PICK d : d = [at |-> "close", on |-> doing[t].on, want |-> doing[t].want, with |-> doing[t].with]
      OBVIOUS
    <2>4. IsMethod(d)  BY <2>3 DEF IsMethod
    <2> QED  BY <1>1, <2>1, <2>2, <2>3, <2>4, Gone, MethodStep
  <1> QED  BY <1>4, <1>5

LEMMA Pair ==
  ASSUME NEW a, NEW b
  PROVE  << a >> \o << b >> = << a, b >>
  <1>1. PICK e, f : e = << a >> /\ f = << b >>  OBVIOUS
  <1>2. e \in Seq({a, b}) /\ f \in Seq({a, b}) /\ Len(e) = 1 /\ Len(f) = 1  BY <1>1
  <1>3. PICK r : r = e \o f  OBVIOUS
  <1>4. r \in Seq({a, b}) /\ Len(r) = 2  BY <1>2, <1>3, ConcatProperties
  <1>5. \A i \in 1 .. 2 : r[i] = IF i <= 1 THEN e[i] ELSE f[i - 1]
    BY <1>2, <1>3, ConcatProperties
  <1>6. r[1] = a  BY <1>1, <1>5
  <1>7. r[2] = b
    <2>1. r[2] = f[2 - 1]  BY <1>5
    <2>2. 2 - 1 = 1  OBVIOUS
    <2> QED  BY <1>1, <2>1, <2>2
  <1>8. << a, b >> \in Seq({a, b}) /\ Len(<< a, b >>) = 2  OBVIOUS
  <1>9. r = << a, b >>  BY <1>4, <1>6, <1>7, <1>8
  <1> QED  BY <1>1, <1>3, <1>9

\* The arguments of a search for a text.
LEMMA SearchWith ==
  ASSUME NEW h, NEW more \in {<<>>, <<"module">>}, NEW with, with = [k \in DOMAIN more |-> with[k]]
  PROVE  \/ more = <<>> /\ <<"signature">> \o more = <<"signature">> /\ << h >> \o with = << h >>
         \/ /\ more = <<"module">> /\ <<"signature">> \o more = <<"signature", "module">>
            /\ << h >> \o with = << h, with[1] >>
  <1>1. CASE more = <<>>
    <2>1. with = <<>>  BY <1>1
    <2> QED  BY <1>1, <2>1
  <1>2. CASE more = <<"module">>
    <2>1. with = << with[1] >>
      <3>1. DOMAIN more = {1}  BY <1>2
      <3> QED  BY <3>1
    <2>2. <<"signature">> \o more = <<"signature", "module">>  BY <1>2, Pair
    <2>3. PICK g : g = with[1]  OBVIOUS
    <2>4. with = << g >>  BY <2>1, <2>3
    <2>5. << h >> \o with = << h, g >>  BY <2>4, Pair
    <2> QED  BY <1>2, <2>2, <2>3, <2>5
  <1> QED  BY <1>1, <1>2

LEMMA BoundText ==
  ASSUME Bound, NEW t \in Threads, Text(t)
  PROVE  Bound'
  <1>1. UNCHANGED <<given, made, shared, wrapper, call>> /\ In(t, "text")
    BY DEF Text, vars
  <1>2. MethodOK(t) /\ Idle(t) /\ ~Releases(t)  BY <1>1 DEF Bound, MethodOK, In, Releases
  <1>3. Idle(t)'  BY <1>1, <1>2 DEF Idle
  <1>4. PICK n : n = doing[t].on  OBVIOUS
  <1>5. /\ n # 0 /\ n \in 1 .. made /\ ~wrapper[n].kept /\ wrapper[n].type = "signature"
        /\ wrapper[n].owner = t /\ wrapper[n].handle # Null
    BY <1>1, <1>2, <1>4 DEF MethodOK
  <1>6. CASE Search(t, n)
    <2>1. PICK more \in {<<>>, <<"module">>} : \E with \in Handles(t, more) :
            doing' = [doing EXCEPT ![t] =
              [at |-> "enter", on |-> n, want |-> <<"signature">> \o more, with |-> << wrapper[n].handle >> \o with]]
      BY <1>4, <1>6 DEF Search
    <2>2. PICK with \in Handles(t, more) :
            doing' = [doing EXCEPT ![t] =
              [at |-> "enter", on |-> n, want |-> <<"signature">> \o more, with |-> << wrapper[n].handle >> \o with]]
      BY <2>1
    <2>3. PICK h : h = wrapper[n].handle  OBVIOUS
    <2>4. h \in given /\ h.id = n
      BY <1>5, <2>3, CApiAssumption DEF Bound, WrapperOK, Wrappers
    <2>5. PICK want, all : want = <<"signature">> \o more /\ all = << h >> \o with  OBVIOUS
    <2>6. with = [k \in DOMAIN more |-> with[k]]  BY HandlesFit
    <2>7. \/ more = <<>> /\ want = <<"signature">> /\ all = << h >>
          \/ more = <<"module">> /\ want = <<"signature", "module">> /\ all = << h, with[1] >>
      BY <2>5, <2>6, SearchWith
    <2>8. /\ h \in given /\ wrapper[h.id].type = "signature"
          /\ shared \/ wrapper[h.id].owner = t
      BY <1>5, <2>3, <2>4
    <2>9. /\ want \in Wanted /\ DOMAIN all = DOMAIN want
          /\ \A k \in DOMAIN want :
               /\ all[k] \in given /\ wrapper[all[k].id].type = want[k]
               /\ shared \/ wrapper[all[k].id].owner = t
      <3>1. CASE more = <<>> /\ want = <<"signature">> /\ all = << h >>
        <4>1. DOMAIN want = {1} /\ DOMAIN all = {1} /\ want[1] = "signature" /\ all[1] = h  BY <3>1
        <4>2. want \in Wanted  BY <3>1 DEF Wanted
        <4> QED  BY <2>8, <4>1, <4>2
      <3>2. CASE more = <<"module">> /\ want = <<"signature", "module">> /\ all = << h, with[1] >>
        <4>1. DOMAIN more = {1} /\ more[1] = "module"  BY <3>2
        <4>2. /\ with[1] \in given /\ wrapper[with[1].id].type = "module"
              /\ shared \/ wrapper[with[1].id].owner = t
          BY <4>1, HandlesFit
        <4>3. DOMAIN want = {1, 2} /\ want[1] = "signature" /\ want[2] = "module"  BY <3>2
        <4>4. DOMAIN all = {1, 2} /\ all[1] = h /\ all[2] = with[1]  BY <3>2
        <4>5. want \in Wanted  BY <3>2 DEF Wanted
        <4> QED  BY <2>8, <4>2, <4>3, <4>4, <4>5
      <3> QED  BY <2>7, <3>1, <3>2
    <2>10. PICK d : d = [at |-> "enter", on |-> n, want |-> want, with |-> all]  OBVIOUS
    <2>11. doing' = [doing EXCEPT ![t] = d]  BY <2>2, <2>3, <2>5, <2>10
    <2>12. IsMethod(d)  BY <2>10 DEF IsMethod
    <2>13. doing'[t] = d  BY <2>11, <2>12, Moved
    <2>14. d.at = "enter" /\ d.on = n /\ d.want = want /\ d.with = all  BY <2>10
    <2>15. Fits(t)'  BY <1>1, <2>9, <2>13, <2>14 DEF Fits
    <2>16. MethodOK(t)'
      BY <1>1, <1>3, <1>5, <2>12, <2>13, <2>14, <2>15 DEF MethodOK, In, Releases
    <2> QED  BY <1>1, <2>11, <2>12, <2>16, MethodStep
  <1>7. CASE Go(t, "close")
    <2>1. MethodOK(t)'  BY <1>1, <1>2, <1>3, <1>4, <1>5, <1>7, GoOn
    <2>2. PICK d : d = [at |-> "close", on |-> doing[t].on, want |-> doing[t].want, with |-> doing[t].with]
      OBVIOUS
    <2>3. IsMethod(d)  BY <2>2 DEF IsMethod
    <2> QED  BY <1>1, <1>7, <2>1, <2>2, <2>3, Gone, MethodStep
  <1> QED  BY <1>4, <1>6, <1>7 DEF Text

LEMMA BoundClose ==
  ASSUME Bound, NEW t \in Threads, Close(t)
  PROVE  Bound'
  <1>1. UNCHANGED <<given, made, shared, wrapper, call>>  BY DEF Close, vars
  <1>2. PICK w \in Wrappers :
          /\ \/ In(t, "program") /\ Usable(t, w) /\ wrapper[w].handle # Null
             \/ In(t, "close") /\ w = doing[t].on
          /\ doing' = [doing EXCEPT ![t] =
               [at |-> "free", on |-> w, want |-> <<>>, with |-> << wrapper[w].handle >>]]
    BY DEF Close
  <1>3. MethodOK(t)  BY DEF Bound
  <1>4. wrapper[w].handle # Null /\ (wrapper[w].kept \/ wrapper[w].owner = t) /\ (shared \/ wrapper[w].owner = t)
    BY <1>2, <1>3 DEF Usable, MethodOK, In, Releases
  <1>5. PICK p : p = wrapper[w].handle  OBVIOUS
  <1>6. p \in given /\ p.id = w  BY <1>4, <1>5 DEF Bound, WrapperOK
  <1>7. w \in 1 .. made /\ w # 0  BY <1>6 DEF Bound
  <1>8. PICK d : d = [at |-> "free", on |-> w, want |-> <<>>, with |-> << p >>]  OBVIOUS
  <1>9. doing' = [doing EXCEPT ![t] = d]  BY <1>2, <1>5, <1>8
  <1>10. IsMethod(d) /\ d.at = "free" /\ d.on = w /\ d.with[1] = p  BY <1>8 DEF IsMethod
  <1>11. doing'[t] = d  BY <1>9, <1>10, Moved
  <1>12. Hold(t)'  BY <1>1, <1>4, <1>5, <1>6, <1>7, <1>10, <1>11 DEF Hold
  <1>13. Idle(t)'  BY <1>1, <1>2, <1>3 DEF Idle, MethodOK, In
  <1>14. MethodOK(t)'
    BY <1>1, <1>4, <1>7, <1>10, <1>11, <1>12, <1>13 DEF MethodOK, In, Releases
  <1> QED  BY <1>1, <1>9, <1>10, <1>14, MethodStep

LEMMA BoundEnterFree ==
  ASSUME Bound, NEW t \in Threads, EnterFree(t)
  PROVE  Bound'
  <1>1. PICK p : p = doing[t].with[1]  OBVIOUS
  <1>2. FreeOf(t, p) /\ Go(t, "freeing") /\ In(t, "free")  BY <1>1 DEF EnterFree
  <1>3. UNCHANGED <<given, made, shared, wrapper>>  BY <1>2 DEF EnterFree, FreeOf
  <1>4. PICK due : due = IF Live(p) THEN "freed" ELSE "terminate"  OBVIOUS
  <1>5. PICK args : args = << [p |-> p, type |-> "any"] >>  OBVIOUS
  <1>6. PICK c : c = [pc |-> "magic", args |-> args, k |-> 1, align |-> TRUE, due |-> due]  OBVIOUS
  <1>7. call' = [call EXCEPT ![t] = c]
    <2>1. PICK e : e = [NoCall EXCEPT !.pc = "magic", !.args = args, !.due = due]  OBVIOUS
    <2>2. e = [pc |-> "magic", args |-> args, k |-> 1, align |-> TRUE, due |-> due]
      BY <2>1 DEF NoCall
    <2> QED  BY <1>2, <1>4, <1>5, <1>6, <2>1, <2>2 DEF FreeOf
  <1>8. /\ call'[t] = c /\ \A u \in Threads \ {t} : call'[u] = call[u]
        /\ call' = [u \in Threads |-> call'[u]]
    BY <1>7, CallsFunction
  <1>9. c.pc = "magic" /\ c.args = args  BY <1>6
  <1>10. ~Idle(t)' /\ Frees1(t)' /\ call'[t].args = args  BY <1>8, <1>9 DEF Idle, Frees1
  <1>11. PICK o : o = doing[t]  OBVIOUS
  <1>12. PICK d : d = [at |-> "freeing", on |-> o.on, want |-> o.want, with |-> o.with]  OBVIOUS
  <1>13. doing' = [doing EXCEPT ![t] = d]  BY <1>2, <1>11, <1>12, Gone
  <1>14. IsMethod(d) /\ d.at = "freeing" /\ d.on = o.on /\ d.with = o.with  BY <1>12 DEF IsMethod
  <1>15. /\ doing'[t] = d /\ doing' = [u \in Threads |-> doing'[u]]
         /\ \A u \in Threads \ {t} : doing'[u] = doing[u]
    BY <1>13, <1>14, Moved
  <1>16. MethodOK(t) /\ Releases(t)  BY <1>2 DEF Bound, Releases, In
  <1>17. Hold(t)'  BY <1>3, <1>11, <1>14, <1>15, <1>16 DEF MethodOK, Hold
  <1>18. o.on # 0 => /\ o.on \in 1 .. made' /\ (wrapper'[o.on].kept \/ wrapper'[o.on].owner = t)
    BY <1>3, <1>11, <1>16 DEF MethodOK
  <1>19. MethodOK(t)'
    BY <1>1, <1>5, <1>10, <1>11, <1>14, <1>15, <1>17, <1>18 DEF MethodOK, In, Releases
  <1> QED  BY <1>3, <1>8, <1>15, <1>19, QuietStep

LEMMA BoundFreed ==
  ASSUME Bound, NEW t \in Threads, Freed(t)
  PROVE  Bound'
  <1>1. PICK n : n = doing[t].on  OBVIOUS
  <1>2. /\ UNCHANGED <<given, made, shared, call>> /\ In(t, "freeing") /\ Idle(t)
        /\ wrapper' = [wrapper EXCEPT ![n].handle = Null]
        /\ doing' = [doing EXCEPT ![t] = NoMethod]
    BY <1>1 DEF Freed, vars
  <1>3. MethodOK(t) /\ Releases(t)  BY <1>2 DEF Bound, Releases, In
  <1>4. n # 0 /\ n \in 1 .. made /\ (wrapper[n].kept \/ wrapper[n].owner = t)
    BY <1>1, <1>3 DEF MethodOK, Hold
  <1>5. n \in Wrappers  BY <1>4, CApiAssumption DEF Bound, Wrappers
  <1>6. PICK r : r = wrapper[n]  OBVIOUS
  <1>7. PICK q : q = [r EXCEPT !.handle = Null]  OBVIOUS
  <1>8. q = [type |-> r.type, handle |-> Null, owner |-> r.owner, kept |-> r.kept]
    <2>1. IsWrapper(r)  BY <1>5, <1>6 DEF Bound, WrapperOK
    <2> QED  BY <1>7, <2>1 DEF IsWrapper
  <1>9. wrapper' = [wrapper EXCEPT ![n] = q]  BY <1>2, <1>6, <1>7
  <1>10. /\ wrapper'[n] = q /\ \A w \in Wrappers : w # n => wrapper'[w] = wrapper[w]
         /\ wrapper' = [w \in Wrappers |-> wrapper'[w]]
    BY <1>5, <1>9 DEF Bound
  <1>11. /\ q.type = r.type /\ q.handle = Null /\ q.owner = r.owner /\ q.kept = r.kept /\ IsWrapper(q)
    BY <1>8 DEF IsWrapper
  <1>12. ASSUME NEW w \in Wrappers PROVE WrapperOK(w)'
    <2>1. WrapperOK(w) /\ made' = made /\ given' = given  BY <1>2 DEF Bound
    <2>2. CASE w # n  BY <1>10, <2>1, <2>2 DEF WrapperOK
    <2>3. CASE w = n
      <3>1. ~(n > made)  BY <1>4 DEF Bound
      <3> QED  BY <1>10, <1>11, <2>1, <2>3, <3>1 DEF WrapperOK
    <2> QED  BY <2>2, <2>3
  <1>13. \A w \in 1 .. made : /\ wrapper'[w].type = wrapper[w].type /\ wrapper'[w].owner = wrapper[w].owner
                              /\ wrapper'[w].kept = wrapper[w].kept
                              /\ wrapper'[w].handle = wrapper[w].handle \/ (w = n /\ wrapper'[w].handle = Null)
    <2>1. \A w \in 1 .. made : w \in Wrappers  BY CApiAssumption DEF Bound, Wrappers
    <2> QED  BY <1>6, <1>10, <1>11, <2>1
  <1>14. ASSUME NEW u \in Threads \ {t}, doing[u].on = n PROVE Releases(u)
    <2>1. MethodOK(u)  BY DEF Bound
    <2> QED  BY <1>4, <1>14, <2>1 DEF MethodOK
  <1>15. IsMethod(NoMethod)  BY DEF IsMethod, NoMethod
  <1>16. /\ doing'[t] = NoMethod /\ doing' = [u \in Threads |-> doing'[u]]
         /\ \A u \in Threads \ {t} : doing'[u] = doing[u]
    BY <1>2, <1>15, Moved
  <1>17. MethodOK(t)'
    <2>1. Idle(t)'  BY <1>2 DEF Idle
    <2> QED  BY <1>16, <2>1, NoMethodOK
  <1>18. /\ made' \in Nat /\ made <= made' /\ made' <= MaxObjects /\ given \subseteq given'
         /\ \A p \in given' : p.at \in Slots /\ p.id \in 1 .. made'
         /\ \A u \in Threads \ {t} : call'[u] = call[u]
         /\ call' = [u \in Threads |-> call'[u]]
         /\ shared' = shared
    BY <1>2 DEF Bound
  <1> QED  BY <1>10, <1>12, <1>13, <1>14, <1>16, <1>17, <1>18, BoundStep

\* A call that goes on keeps what it was given.
LEMMA CallStep ==
  ASSUME Bound, NEW t \in Threads,
         CheckType(t) \/ Use(t) \/ CheckMagic(t) \/ Exchange(t) \/ Destroy(t)
  PROVE  /\ ~Idle(t)
         /\ \A u \in Threads \ {t} : call'[u] = call[u]
         /\ call' = [u \in Threads |-> call'[u]]
         /\ UNCHANGED <<given, made, misuse>>
         /\ Idle(t)' \/ (/\ call'[t].args = call[t].args /\ call'[t].due = call[t].due
                         /\ Looks(t) => Looks(t)'
                         /\ Frees1(t) => Frees1(t)')
  <1>1. ~Idle(t) /\ UNCHANGED <<given, made, misuse>>
    BY DEF CheckType, Use, CheckMagic, Exchange, Destroy, Idle, Is
  <1>2. \/ \E effect : Ends(t, effect)
        \/ Looks(t) /\ call' = [call EXCEPT ![t].pc = "use"]
        \/ Frees1(t) /\ \E pc \in {"exchange", "destroy"} : call' = [call EXCEPT ![t].pc = pc]
        \/ call' = [call EXCEPT ![t].k = @ + 1]
    BY DEF CheckType, Use, CheckMagic, Exchange, Destroy, Terminate, Is, Looks, Frees1
  <1>3. PICK c : c = call[t]  OBVIOUS
  <1>4. ASSUME NEW e, call' = [call EXCEPT ![t] = e]
        PROVE  /\ \A u \in Threads \ {t} : call'[u] = call[u]
               /\ call' = [u \in Threads |-> call'[u]]
               /\ call'[t] = e
    BY <1>4, CallsFunction
  <1>5. CASE \E effect : Ends(t, effect)
    <2>1. call' = [call EXCEPT ![t] = NoCall]  BY <1>5 DEF Ends
    <2>2. NoCall.pc = "idle"  BY DEF NoCall
    <2> QED  BY <1>1, <1>4, <2>1, <2>2 DEF Idle
  <1>6. CASE \E pc \in {"use", "exchange", "destroy"} :
               /\ call' = [call EXCEPT ![t].pc = pc]
               /\ IF pc = "use" THEN Looks(t) ELSE Frees1(t)
    <2>1. PICK pc \in {"use", "exchange", "destroy"} :
            /\ call' = [call EXCEPT ![t].pc = pc]
            /\ IF pc = "use" THEN Looks(t) ELSE Frees1(t)
      BY <1>6
    <2>2. PICK e : e = [c EXCEPT !.pc = pc]  OBVIOUS
    <2>3. call' = [call EXCEPT ![t] = e]  BY <1>3, <2>1, <2>2
    <2>4. e.args = c.args /\ e.due = c.due  BY <2>2
    <2>5. c.pc \in {"check", "use", "magic", "exchange", "destroy"}
      BY <1>3, <2>1 DEF Looks, Frees1
    <2>6. e.pc = pc \/ e.pc = c.pc  BY <2>2
    <2>7. call'[t] = e  BY <1>4, <2>3
    <2>8. Looks(t) => Looks(t)'  BY <1>3, <2>1, <2>6, <2>7 DEF Looks, Frees1
    <2>9. Frees1(t) => Frees1(t)'  BY <1>3, <2>1, <2>6, <2>7 DEF Looks, Frees1
    <2> QED  BY <1>1, <1>3, <1>4, <2>3, <2>4, <2>7, <2>8, <2>9
  <1>7. CASE call' = [call EXCEPT ![t].k = @ + 1]
    <2>1. PICK e : e = [c EXCEPT !.k = c.k + 1]  OBVIOUS
    <2>2. call' = [call EXCEPT ![t] = e]  BY <1>3, <1>7, <2>1
    <2>3. e.args = c.args /\ e.due = c.due /\ e.pc = c.pc  BY <2>1
    <2>4. call'[t] = e  BY <1>4, <2>2
    <2> QED  BY <1>1, <1>3, <1>4, <2>2, <2>3, <2>4 DEF Looks, Frees1
  <1> QED  BY <1>2, <1>5, <1>6, <1>7

LEMMA BoundCallStep ==
  ASSUME Bound, NEW t \in Threads,
         CheckType(t) \/ Use(t) \/ CheckMagic(t) \/ Exchange(t) \/ Destroy(t),
         UNCHANGED bindings
  PROVE  Bound'
  <1>1. UNCHANGED <<shared, wrapper, doing, given, made>>  BY CallStep DEF bindings
  <1>2. doing' = [u \in Threads |-> doing'[u]] /\ \A u \in Threads \ {t} : doing'[u] = doing[u]
    BY <1>1 DEF Bound
  <1>3. MethodOK(t)'
    <2>1. MethodOK(t) /\ ~Idle(t)  BY CallStep DEF Bound
    <2>2. PICK d : d = doing[t] /\ d = doing'[t]  BY <1>1
    <2>3. PICK a : a = call[t].args  OBVIOUS
    <2>4. Idle(t)' \/ (/\ call'[t].args = a
                       /\ Looks(t) => Looks(t)'
                       /\ Frees1(t) => Frees1(t)')
      BY <2>3, CallStep
    <2>5. \/ /\ d.at = "inside" /\ Looks(t)
             /\ a = [k \in DOMAIN d.want |-> [p |-> d.with[k], type |-> d.want[k]]]
          \/ /\ d.at = "freeing" /\ Frees1(t)
             /\ a = << [p |-> d.with[1], type |-> "any"] >>
      BY <2>1, <2>2, <2>3 DEF MethodOK, In
    <2>6. ~Idle(t)' =>
          \/ /\ In(t, "inside")' /\ Looks(t)'
             /\ call'[t].args = [k \in DOMAIN d.want |-> [p |-> d.with[k], type |-> d.want[k]]]
          \/ /\ In(t, "freeing")' /\ Frees1(t)'
             /\ call'[t].args = << [p |-> d.with[1], type |-> "any"] >>
      BY <2>2, <2>4, <2>5 DEF In
    <2>7. (Fits(t) => Fits(t)') /\ (Hold(t) => Hold(t)') /\ (Releases(t)' <=> Releases(t))
      BY <1>1 DEF Fits, Hold, Releases, In
    <2>8. d.at \in {"inside", "freeing"}  BY <2>5
    <2> QED  BY <1>1, <2>1, <2>2, <2>6, <2>7, <2>8 DEF MethodOK, In
  <1> QED  BY <1>1, <1>2, <1>3, CallStep, QuietStep

LEMMA BoundOverwrite ==
  ASSUME Bound, NEW s \in Slots, Overwrite(s), UNCHANGED bindings
  PROVE  Bound'
  <1>1. UNCHANGED <<shared, wrapper, doing, given, made, call>>  BY DEF Overwrite, bindings
  <1>2. \A w \in Wrappers : WrapperOK(w)'  BY <1>1 DEF Bound, WrapperOK
  <1>3. ASSUME NEW u \in Threads PROVE MethodOK(u)'
    <2>1. MethodOK(u)  BY DEF Bound
    <2>2. PICK x : x = 0  OBVIOUS
    <2> QED  BY <1>1, <2>1, <2>2, Bystander DEF Bound
  <1> QED  BY <1>1, <1>2, <1>3 DEF Bound

LEMMA BoundNext ==
  ASSUME Bound, WrappedNext
  PROVE  Bound'
  <1>1. ASSUME NEW t \in Threads, NEW type \in Types, Wrap(t, type) PROVE Bound'
    BY <1>1, BoundWrap
  <1>2. ASSUME NEW t \in Threads, Read(t) \/ Enter(t) \/ Return(t) PROVE Bound'
    BY <1>2, BoundRead, BoundEnter, BoundReturn
  <1>3. ASSUME NEW t \in Threads, FindText(t) \/ Text(t) PROVE Bound'
    BY <1>3, BoundFindText, BoundText
  <1>4. ASSUME NEW t \in Threads, Close(t) \/ EnterFree(t) \/ Freed(t) PROVE Bound'
    BY <1>4, BoundClose, BoundEnterFree, BoundFreed
  <1>5. ASSUME NEW t \in Threads,
               (CheckType(t) \/ Use(t) \/ CheckMagic(t) \/ Exchange(t) \/ Destroy(t)) /\ UNCHANGED bindings
        PROVE  Bound'
    BY <1>5, BoundCallStep
  <1>6. ASSUME NEW s \in Slots, Overwrite(s) /\ UNCHANGED bindings PROVE Bound'
    BY <1>6, BoundOverwrite
  <1> QED  BY <1>1, <1>2, <1>3, <1>4, <1>5, <1>6 DEF WrappedNext

LEMMA BoundInit == BindingsInit => Bound
  <1> SUFFICES ASSUME BindingsInit PROVE Bound
    OBVIOUS
  <1>1. made = 0 /\ given = {} /\ call = [t \in Threads |-> NoCall]  BY DEF BindingsInit, Init
  <1>2. \A w \in Wrappers : WrapperOK(w)
    <2>1. \A w \in Wrappers : wrapper[w] = NoWrapper  BY DEF BindingsInit
    <2>2. IsWrapper(NoWrapper) /\ NoWrapper.handle = Null  BY DEF IsWrapper, NoWrapper
    <2> QED  BY <2>1, <2>2 DEF WrapperOK
  <1>3. ASSUME NEW t \in Threads PROVE MethodOK(t)
    <2>1. doing[t] = NoMethod  BY DEF BindingsInit
    <2>2. Idle(t)  BY <1>1 DEF Idle, NoCall
    <2> QED  BY <2>1, <2>2 DEF MethodOK, NoMethod, IsMethod, In, Releases
  <1>4. wrapper = [w \in Wrappers |-> wrapper[w]] /\ doing = [t \in Threads |-> doing[t]]
    BY DEF BindingsInit
  <1> QED  BY <1>1, <1>2, <1>3, <1>4, CApiAssumption DEF Bound

-----------------------------------------------------------------------------
(* Wrapped programs are programs of the C interface *)

LEMMA WrappedCalls ==
  ASSUME Bound, WrappedNext
  PROVE  [Next]_vars
  <1>1. process = "runs"  BY DEF WrappedNext
  <1>2. ASSUME NEW t \in Threads, NEW type \in Types, Wrap(t, type) PROVE Next
    BY <1>1, <1>2 DEF Wrap, Next
  <1>3. ASSUME NEW t \in Threads, Read(t) \/ Return(t) \/ Text(t) \/ Close(t) \/ Freed(t) PROVE UNCHANGED vars
    BY <1>3 DEF Read, Return, Text, Close, Freed
  <1>4. ASSUME NEW t \in Threads, Enter(t) PROVE Next
    <2>1. PICK want, with : want = doing[t].want /\ with = doing[t].with  OBVIOUS
    <2>2. CallOf(t, want, with, TRUE)  BY <1>4, <2>1 DEF Enter
    <2>3. /\ want \in Wanted /\ DOMAIN with = DOMAIN want
          /\ \A k \in DOMAIN want : with[k] \in given
      BY <1>4, <2>1 DEF Bound, MethodOK, Enter, Fits
    <2>4. PICK with2 \in [DOMAIN want -> Pointers] : \A k \in DOMAIN want : with2[k] = with[k]
      <3>1. [k \in DOMAIN want |-> with[k]] \in [DOMAIN want -> Pointers]
        BY <2>3 DEF Pointers
      <3> QED  BY <3>1
    <2>5. CallOf(t, want, with2, TRUE)
      <3>1. DOMAIN with2 = DOMAIN want  BY <2>4
      <3>2. [k \in DOMAIN want |-> [p |-> with2[k], type |-> want[k]]]
              = [k \in DOMAIN want |-> [p |-> with[k], type |-> want[k]]]
        BY <2>4
      <3>3. AnyNull(with2) <=> AnyNull(with)  BY <2>3, <2>4, <3>1 DEF AnyNull
      <3>4. /\ (\E k \in DOMAIN with2 : ~Live(with2[k])) <=> (\E k \in DOMAIN with : ~Live(with[k]))
            /\ (\E k \in DOMAIN with2 : \E u \in Threads : Frees(u, with2[k].at))
                 <=> (\E k \in DOMAIN with : \E u \in Threads : Frees(u, with[k].at))
        BY <2>3, <2>4, <3>1
      <3> QED  BY <2>2, <3>2, <3>3, <3>4 DEF CallOf
    <2>6. CallWith(t)  BY <2>3, <2>4, <2>5 DEF CallWith
    <2> QED  BY <1>1, <2>6 DEF Next
  <1>5. ASSUME NEW t \in Threads, FindText(t) PROVE Next
    BY <1>1, <1>5 DEF FindText, Next, Types
  <1>6. ASSUME NEW t \in Threads, EnterFree(t) PROVE Next
    <2>1. PICK p : p = doing[t].with[1]  OBVIOUS
    <2>2. FreeOf(t, p)  BY <1>6, <2>1 DEF EnterFree
    <2>3. p \in given  BY <1>6, <2>1 DEF EnterFree, Bound, MethodOK, Releases, In, Hold
    <2>4. p # Null  BY <2>3, CApiAssumption DEF Bound, Null
    <2>5. Free(t)  BY <2>2, <2>3, <2>4 DEF Free, Pointers
    <2> QED  BY <1>1, <2>5 DEF Next
  <1>7. ASSUME NEW t \in Threads,
               CheckType(t) \/ Use(t) \/ CheckMagic(t) \/ Exchange(t) \/ Destroy(t)
        PROVE  Next
    BY <1>1, <1>7 DEF Next
  <1>8. ASSUME NEW s \in Slots, Overwrite(s) PROVE Next
    BY <1>1, <1>8 DEF Next
  <1> QED  BY <1>2, <1>3, <1>4, <1>5, <1>6, <1>7, <1>8 DEF WrappedNext

WInv == client = "wrapped" => Bound

LEMMA WInvariant == BindingsSpec => []WInv
  <1>1. BindingsInit => WInv  BY BoundInit DEF WInv
  <1>2. WInv /\ [BindingsNext]_<<vars, bindings>> => WInv'
    <2> SUFFICES ASSUME WInv, [BindingsNext]_<<vars, bindings>>, client' = "wrapped" PROVE Bound'
      BY DEF WInv
    <2>1. CASE client = "wrapped" /\ WrappedNext  BY <2>1, BoundNext DEF WInv
    <2>2. CASE client = "c" /\ UNCHANGED bindings  BY <2>2 DEF bindings
    <2>3. CASE UNCHANGED <<vars, bindings>>
      <3>1. UNCHANGED <<shared, wrapper, doing, given, made, call, client>>  BY <2>3 DEF vars, bindings
      <3>2. Bound  BY <3>1 DEF WInv
      <3>3. \A w \in Wrappers : WrapperOK(w)'  BY <3>1, <3>2 DEF Bound, WrapperOK
      <3>4. ASSUME NEW u \in Threads PROVE MethodOK(u)'
        <4>1. MethodOK(u)  BY <3>2 DEF Bound
        <4>2. PICK x : x = 0  OBVIOUS
        <4> QED  BY <3>1, <3>2, <4>1, <4>2, Bystander DEF Bound
      <3> QED  BY <3>1, <3>2, <3>3, <3>4 DEF Bound
    <2> QED  BY <2>1, <2>2, <2>3 DEF BindingsNext
  <1> QED  BY <1>1, <1>2, PTL DEF BindingsSpec

\* Whatever the bindings do, the C interface could have been called that way: what it
\* promises its users it promises the wrappers.
THEOREM WrappersCall == BindingsSpec => Spec
  <1>1. BindingsInit => Init  BY DEF BindingsInit
  <1>2. WInv /\ [BindingsNext]_<<vars, bindings>> => [Next]_vars
    <2> SUFFICES ASSUME WInv, [BindingsNext]_<<vars, bindings>> PROVE [Next]_vars
      OBVIOUS
    <2>1. CASE client = "wrapped" /\ WrappedNext  BY <2>1, WrappedCalls DEF WInv
    <2>2. CASE client = "c" /\ Next  BY <2>2
    <2>3. CASE UNCHANGED <<vars, bindings>>  BY <2>3
    <2> QED  BY <2>1, <2>2, <2>3 DEF BindingsNext
  <1> QED  BY <1>1, <1>2, WInvariant, PTL DEF BindingsSpec, Spec

-----------------------------------------------------------------------------
(* No object is lost *)

\* An object is held by its wrapper, which the program has or the search that made it.
Holder(s) ==
  LET n == mem[s].id IN
  /\ n \in 1 .. made
  /\ wrapper[n].handle = [at |-> s, id |-> n]
  /\ wrapper[n].owner \in Threads
  /\ wrapper[n].kept \/ doing[wrapper[n].owner].on = n

\* A method that has freed its pointer has freed the object.
Released(t) == In(t, "freeing") /\ Idle(t) /\ process = "runs" => ~Live(doing[t].with[1])

Held ==
  /\ \A s \in Slots : mem[s].object => Holder(s)
  /\ \A t \in Threads : Released(t)

LEMMA FreesWith ==
  ASSUME Typed, Bound, NEW t \in Threads, Frees1(t)
  PROVE  LET p == doing[t].with[1] IN
         /\ ~Idle(t) /\ In(t, "freeing") /\ Hold(t)
         /\ Arg(t).p = p /\ p \in given /\ p.at \in Slots /\ p.id = doing[t].on
         /\ \A s : Uses(t, s) <=> s = p.at
  <1>1. ~Idle(t) /\ MethodOK(t)  BY DEF Frees1, Idle, Bound
  <1>2. PICK p : p = doing[t].with[1]  OBVIOUS
  <1>3. PICK a : a = [p |-> p, type |-> "any"]  OBVIOUS
  <1>4. In(t, "freeing") /\ call[t].args = << a >>
    BY <1>1, <1>2, <1>3 DEF MethodOK, Looks, Frees1
  <1>5. Hold(t) /\ p \in given /\ p.id = doing[t].on  BY <1>1, <1>2, <1>4 DEF MethodOK, Releases, Hold, In
  <1>6. p.at \in Slots  BY <1>5 DEF Bound
  <1>7. DOMAIN call[t].args = {1} /\ call[t].args[1] = a /\ a.p = p  BY <1>3, <1>4
  <1>8. Arg(t).p = p  BY <1>1, <1>7, CallFacts DEF Arg
  <1>9. \A s : Uses(t, s) <=> s = p.at  BY <1>7 DEF Uses
  <1> QED  BY <1>1, <1>2, <1>4, <1>5, <1>6, <1>8, <1>9

\* Only the type of an object changes before its destructor runs.
LEMMA ExchangeCells ==
  ASSUME Typed, Bound, NEW t \in Threads, Exchange(t)
  PROVE  LET a == doing[t].with[1].at IN
         /\ \A r \in Slots : mem'[r].object = mem[r].object /\ mem'[r].id = mem[r].id
         /\ \A r \in Slots : r # a => mem'[r] = mem[r]
  <1>1. Frees1(t)  BY DEF Exchange, Frees1, Is
  <1>2. PICK a \in Slots : a = doing[t].with[1].at /\ a = Arg(t).p.at  BY <1>1, FreesWith
  <1>3. a \in Addresses  BY DEF Addresses
  <1>4. mem' = [mem EXCEPT ![a] = [mem[a] EXCEPT !.type = "tombstone"]]  BY <1>2, TypedExchange
  <1>5. mem[a] \in Contents /\ [mem[a] EXCEPT !.type = "tombstone"] \in Contents  BY <1>3, CellParts
  <1>6. PICK c, e : c = mem[a] /\ e = [c EXCEPT !.type = "tombstone"]  OBVIOUS
  <1>7. mem'[a] = e /\ \A r \in Addresses \ {a} : mem'[r] = mem[r]
    BY <1>3, <1>4, <1>5, <1>6, CellTyped
  <1>8. e.object = c.object /\ e.id = c.id  BY <1>5, <1>6 DEF Contents
  <1> QED  BY <1>2, <1>6, <1>7, <1>8 DEF Addresses

LEMMA DestroyCells ==
  ASSUME Typed, Bound, NEW t \in Threads, Destroy(t), \A s \in Addresses : mem[s].id <= made
  PROVE  LET a == doing[t].with[1].at IN
         /\ a \in Slots /\ ~mem'[a].object /\ mem'[a].id = mem[a].id
         /\ \A r \in Slots : r # a => mem'[r] = mem[r]
  <1>1. Frees1(t)  BY DEF Destroy, Frees1, Is
  <1>2. PICK a \in Slots : a = doing[t].with[1].at /\ a = Arg(t).p.at  BY <1>1, FreesWith
  <1>3. a \in Addresses  BY DEF Addresses
  <1>4. mem' = [mem EXCEPT ![a] = [mem[a] EXCEPT !.object = FALSE]]  BY <1>2, TypedDestroy
  <1>5. mem[a] \in Contents /\ [mem[a] EXCEPT !.object = FALSE] \in Contents  BY <1>3, CellParts
  <1>6. PICK c, e : c = mem[a] /\ e = [c EXCEPT !.object = FALSE]  OBVIOUS
  <1>7. mem'[a] = e /\ \A r \in Addresses \ {a} : mem'[r] = mem[r]
    BY <1>3, <1>4, <1>5, <1>6, CellTyped
  <1>8. ~e.object /\ e.id = c.id  BY <1>5, <1>6 DEF Contents
  <1> QED  BY <1>2, <1>6, <1>7, <1>8 DEF Addresses

LEMMA OverwriteCells ==
  ASSUME Typed, NEW s \in Slots, Overwrite(s)
  PROVE  /\ ~mem[s].object /\ ~mem'[s].object
         /\ \A r \in Slots : r # s => mem'[r] = mem[r]
  <1>1. s \in Addresses /\ ~mem[s].object  BY DEF Addresses, Overwrite
  <1>2. mem' = [mem EXCEPT ![s] = [mem[s] EXCEPT !.magic = FALSE, !.type = "other"]]
    BY TypedOverwrite
  <1>3. mem[s] \in Contents /\ [mem[s] EXCEPT !.magic = FALSE, !.type = "other"] \in Contents
    BY <1>1, CellParts
  <1>4. PICK c, e : c = mem[s] /\ e = [c EXCEPT !.magic = FALSE, !.type = "other"]  OBVIOUS
  <1>5. mem'[s] = e /\ \A r \in Addresses \ {s} : mem'[r] = mem[r]
    BY <1>1, <1>2, <1>3, <1>4, CellTyped
  <1>6. e.object = c.object  BY <1>3, <1>4 DEF Contents
  <1> QED  BY <1>1, <1>4, <1>5, <1>6 DEF Addresses

LEMMA HolderKeeps ==
  ASSUME NEW s \in Slots, Holder(s), mem'[s].id = mem[s].id, made \in Nat, made' \in Nat, made <= made',
         wrapper'[mem[s].id] = wrapper[mem[s].id],
         \A u \in Threads : doing'[u].on = doing[u].on \/ doing[u].on # mem[s].id
  PROVE  Holder(s)'
  <1>1. PICK n : n = mem[s].id /\ n = mem'[s].id  OBVIOUS
  <1>2. PICK r : r = wrapper[n] /\ r = wrapper'[n]  BY <1>1
  <1>3. n \in 1 .. made'  BY <1>1 DEF Holder
  <1>4. r.owner \in Threads /\ r.handle = [at |-> s, id |-> n]  BY <1>1, <1>2 DEF Holder
  <1>5. r.kept \/ doing'[r.owner].on = n  BY <1>1, <1>2, <1>4 DEF Holder
  <1> QED  BY <1>1, <1>2, <1>3, <1>4, <1>5 DEF Holder

\* Where no object is made and no wrapper changes.
LEMMA HeldKeeps ==
  ASSUME Bound, Held, UNCHANGED <<made, wrapper>>,
         \A u \in Threads : doing'[u].on = doing[u].on \/ doing[u].on = 0,
         \A s \in Slots : mem'[s].object => mem[s].object /\ mem'[s].id = mem[s].id
  PROVE  \A s \in Slots : mem'[s].object => Holder(s)'
  <1> SUFFICES ASSUME NEW s \in Slots, mem'[s].object PROVE Holder(s)'
    OBVIOUS
  <1>1. Holder(s) /\ mem'[s].id = mem[s].id  BY DEF Held
  <1>2. mem[s].id # 0  BY <1>1 DEF Holder
  <1>3. made \in Nat /\ made' \in Nat /\ made <= made'  BY DEF Bound
  <1> QED  BY <1>1, <1>2, <1>3, HolderKeeps

LEMMA ReleasedKeeps ==
  ASSUME NEW u \in Threads, Released(u), process = "runs", doing'[u] = doing[u], call'[u] = call[u],
         LET p == doing[u].with[1] IN
           In(u, "freeing") /\ mem'[p.at].object /\ mem'[p.at].id = p.id => mem[p.at].object /\ mem[p.at].id = p.id
  PROVE  Released(u)'
  <1>1. PICK p : p = doing[u].with[1] /\ p = doing'[u].with[1]  OBVIOUS
  <1>2. (In(u, "freeing")' <=> In(u, "freeing")) /\ (Idle(u)' <=> Idle(u))  BY DEF In, Idle
  <1>3. In(u, "freeing") /\ Idle(u) => ~(mem[p.at].object /\ mem[p.at].id = p.id)
    BY <1>1 DEF Released, Live, Cell
  <1> QED  BY <1>1, <1>2, <1>3 DEF Released, Live, Cell

LEMMA MakeCells ==
  ASSUME Typed, NEW s \in Slots, NEW type, mem' = [mem EXCEPT ![s] = New(type, made + 1)]
  PROVE  /\ mem'[s].object /\ mem'[s].id = made + 1 /\ mem'[s].type = type
         /\ \A r \in Slots : r # s => mem'[r] = mem[r]
  <1>1. s \in Addresses  BY DEF Addresses
  <1>2. PICK c : c = New(type, made + 1)  OBVIOUS
  <1>3. c.object /\ c.id = made + 1 /\ c.type = type  BY <1>2 DEF New
  <1>4. mem'[s] = c /\ \A r \in Addresses \ {s} : mem'[r] = mem[r]  BY <1>1, <1>2 DEF Typed
  <1> QED  BY <1>3, <1>4 DEF Addresses

\* A wrapper is made with its object.
LEMMA HeldMake ==
  ASSUME Typed, Bound, Held, process = "runs", NEW t \in Threads, NEW type \in Types, NEW kept \in BOOLEAN,
         In(t, "program"), Make(t, type), Wrapping(t, type, kept),
         \A u \in Threads \ {t} : doing'[u] = doing[u],
         IF kept THEN doing'[t] = doing[t] ELSE doing'[t].on = made + 1 /\ ~In(t, "freeing")'
  PROVE  Held'
  <1>1. PICK s \in Slots :
           /\ ~mem[s].object
           /\ mem' = [mem EXCEPT ![s] = New(type, made + 1)]
           /\ made' = made + 1 /\ made + 1 \in Wrappers
           /\ given' = given \cup {[at |-> s, id |-> made + 1]}
           /\ wrapper' = [wrapper EXCEPT ![made + 1] =
                [type |-> type, handle |-> [at |-> s, id |-> made + 1], owner |-> t, kept |-> kept]]
           /\ misuse' \subseteq misuse \cup {"reused"}
           /\ UNCHANGED <<call, process>>
           /\ Idle(t)
    BY Wrapped
  <1>2. PICK n \in Nat : n = made + 1 /\ n = made' /\ n \in 1 .. n  BY <1>1 DEF Bound
  <1>3. /\ \A w \in 1 .. made : wrapper'[w] = wrapper[w]
        /\ wrapper'[n] = [type |-> type, handle |-> [at |-> s, id |-> n], owner |-> t, kept |-> kept]
        /\ made \in Nat /\ made' \in Nat /\ made <= made'
    BY <1>1, <1>2, WrappedOK DEF Bound
  <1>4. /\ mem'[s].object /\ mem'[s].id = n
        /\ \A r \in Slots : r # s => mem'[r] = mem[r]
    BY <1>1, <1>2, MakeCells
  <1>5. doing[t].on = 0 /\ ~In(t, "freeing")  BY DEF Bound, MethodOK, In
  <1>6. Holder(s)'
    <2>1. PICK r : r = wrapper'[n]  OBVIOUS
    <2>2. r.handle = [at |-> s, id |-> n] /\ r.owner = t /\ r.kept = kept  BY <1>3, <2>1
    <2>3. kept \/ doing'[t].on = n  BY <1>2
    <2> QED  BY <1>2, <1>4, <2>1, <2>2, <2>3 DEF Holder
  <1>7. ASSUME NEW r \in Slots, r # s, mem'[r].object PROVE Holder(r)'
    <2>1. Holder(r) /\ mem'[r].id = mem[r].id  BY <1>4, <1>7 DEF Held
    <2>2. mem[r].id \in 1 .. made /\ mem[r].id # 0  BY <1>3, <2>1 DEF Holder
    <2>3. \A u \in Threads : doing'[u].on = doing[u].on \/ doing[u].on # mem[r].id
      BY <1>5, <2>2
    <2> QED  BY <1>3, <2>1, <2>2, <2>3, HolderKeeps
  <1>8. ASSUME NEW u \in Threads PROVE Released(u)'
    <2>1. CASE u = t
      <3>1. ~In(t, "freeing")'  BY <1>5 DEF In
      <3> QED  BY <2>1, <3>1 DEF Released
    <2>2. CASE u # t
      <3>1. Released(u) /\ call'[u] = call[u] /\ doing'[u] = doing[u]  BY <1>1, <2>2 DEF Held
      <3>2. PICK p : p = doing[u].with[1]  OBVIOUS
      <3>3. In(u, "freeing") => p.at \in Slots /\ p.id # n
        <4>1. MethodOK(u)  BY DEF Bound
        <4>2. In(u, "freeing") => Hold(u)  BY <4>1 DEF MethodOK, Releases, In
        <4>3. In(u, "freeing") => p \in given  BY <3>2, <4>2 DEF Hold
        <4>4. p \in given => p.at \in Slots /\ p.id \in 1 .. made  BY DEF Bound
        <4> QED  BY <1>2, <1>3, <4>3, <4>4
      <3>4. In(u, "freeing") /\ mem'[p.at].object /\ mem'[p.at].id = p.id => mem[p.at].object /\ mem[p.at].id = p.id
        BY <1>4, <3>3
      <3> QED  BY <3>1, <3>2, <3>4, ReleasedKeeps
    <2> QED  BY <2>1, <2>2
  <1> QED  BY <1>6, <1>7, <1>8 DEF Held

LEMMA FreeStarts ==
  ASSUME Bound, NEW t \in Threads, NEW p, FreeOf(t, p)
  PROVE  /\ call'[t].pc = "magic" /\ ~Idle(t)'
         /\ call'[t].due = IF Live(p) THEN "freed" ELSE "terminate"
  <1>1. PICK due : due = IF Live(p) THEN "freed" ELSE "terminate"  OBVIOUS
  <1>2. PICK args : args = << [p |-> p, type |-> "any"] >>  OBVIOUS
  <1>3. PICK e : e = [NoCall EXCEPT !.pc = "magic", !.args = args, !.due = due]  OBVIOUS
  <1>4. e.pc = "magic" /\ e.due = due  BY <1>3 DEF NoCall
  <1>5. call' = [call EXCEPT ![t] = e]  BY <1>1, <1>2, <1>3 DEF FreeOf
  <1>6. call'[t] = e  BY <1>5, CallsFunction
  <1> QED  BY <1>1, <1>4, <1>6 DEF Idle

LEMMA HeldMethod ==
  ASSUME Bound, Bound', Held, process = "runs", NEW t \in Threads,
         Read(t) \/ Enter(t) \/ Return(t) \/ Text(t) \/ Close(t) \/ EnterFree(t)
  PROVE  Held'
  <1>1. UNCHANGED <<mem, made, wrapper, process>>
    BY DEF Read, Enter, Return, Text, Close, EnterFree, CallOf, FreeOf, vars
  <1>2. \A u \in Threads \ {t} : doing'[u] = doing[u] /\ call'[u] = call[u]
    BY DEF Read, Enter, Return, Text, Close, EnterFree, CallOf, FreeOf, vars, Bound, Go, Search
  <1>3. IsMethod(doing[t])  BY DEF Bound, MethodOK
  <1>4. doing'[t].on = doing[t].on \/ doing[t].on = 0
    <2>1. CASE Read(t)  BY <2>1 DEF Read, Bound, MethodOK
    <2>2. ASSUME NEW at, Go(t, at) PROVE doing'[t].on = doing[t].on
      <3>1. PICK d, o : o = doing[t] /\ d = [at |-> at, on |-> o.on, want |-> o.want, with |-> o.with]
        OBVIOUS
      <3>2. doing'[t] = d  BY <2>2, <3>1, Gone DEF Bound
      <3> QED  BY <3>1, <3>2
    <2>3. CASE Enter(t)  BY <2>2, <2>3 DEF Enter
    <2>4. CASE EnterFree(t)  BY <2>2, <2>4 DEF EnterFree
    <2>5. CASE Return(t)  BY <2>2, <2>5 DEF Return
    <2>6. CASE Text(t)
      <3>1. CASE Search(t, doing[t].on)
        <4>1. PICK w, g : doing' = [doing EXCEPT ![t] = [at |-> "enter", on |-> doing[t].on, want |-> w, with |-> g]]
          BY <3>1 DEF Search
        <4> QED  BY <4>1 DEF Bound
      <3> QED  BY <2>2, <2>6, <3>1 DEF Text
    <2>7. CASE Close(t)
      <3>1. PICK w \in Wrappers :
          /\ \/ In(t, "program")
             \/ In(t, "close") /\ w = doing[t].on
          /\ doing' = [doing EXCEPT ![t] =
               [at |-> "free", on |-> w, want |-> <<>>, with |-> << wrapper[w].handle >>]]
        BY <2>7 DEF Close
      <3>2. doing'[t].on = w  BY <3>1 DEF Bound
      <3> QED  BY <3>1, <3>2 DEF Bound, MethodOK
    <2> QED  BY <2>1, <2>3, <2>4, <2>5, <2>6, <2>7
  <1>5. \A s \in Slots : mem'[s].object => Holder(s)'
    BY <1>1, <1>2, <1>4, HeldKeeps
  <1>6. ASSUME NEW u \in Threads PROVE Released(u)'
    <2>1. CASE u # t
      <3>1. Released(u) /\ call'[u] = call[u] /\ doing'[u] = doing[u]  BY <1>2, <2>1 DEF Held
      <3> QED  BY <1>1, <3>1, ReleasedKeeps
    <2>2. CASE u = t
      <3>1. CASE EnterFree(t)
        <4>1. FreeOf(t, doing[t].with[1])  BY <3>1 DEF EnterFree
        <4>2. ~Idle(t)'  BY <4>1, FreeStarts
        <4> QED  BY <2>2, <4>2 DEF Released
      <3>2. CASE Read(t) \/ Enter(t) \/ Return(t) \/ Text(t) \/ Close(t)
        <4>1. doing'[t].at # "freeing"
          <5>1. ASSUME NEW at, Go(t, at) PROVE doing'[t].at = at
            BY <5>1, Gone DEF Bound
          <5>2. CASE Read(t)  BY <5>2 DEF Read, Bound
          <5>3. CASE Close(t)  BY <5>3 DEF Close, Bound
          <5>4. CASE Enter(t)  BY <5>1, <5>4 DEF Enter
          <5>5. CASE Return(t)
            <6>1. CASE Go(t, "close")  BY <5>1, <6>1
            <6>2. CASE doing' = [doing EXCEPT ![t] = NoMethod]  BY <6>2 DEF Bound, NoMethod
            <6> QED  BY <5>5, <6>1, <6>2 DEF Return
          <5>6. CASE Text(t)
            <6>1. CASE Go(t, "close")  BY <5>1, <6>1
            <6>2. CASE Search(t, doing[t].on)  BY <6>2 DEF Search, Bound
            <6> QED  BY <5>6, <6>1, <6>2 DEF Text
          <5> QED  BY <3>2, <5>2, <5>3, <5>4, <5>5, <5>6
        <4>2. ~In(t, "freeing")'  BY <4>1 DEF In
        <4> QED  BY <2>2, <4>2 DEF Released
      <3> QED  BY <3>1, <3>2
    <2> QED  BY <2>1, <2>2
  <1> QED  BY <1>5, <1>6 DEF Held

\* A pointer is forgotten when its object is gone.
LEMMA HeldFreed ==
  ASSUME Bound, Held, process = "runs", NEW t \in Threads, Freed(t)
  PROVE  Held'
  <1>1. PICK n : n = doing[t].on  OBVIOUS
  <1>2. /\ UNCHANGED <<mem, made, call, process>> /\ In(t, "freeing") /\ Idle(t)
        /\ wrapper' = [wrapper EXCEPT ![n].handle = Null]
        /\ doing' = [doing EXCEPT ![t] = NoMethod]
    BY <1>1 DEF Freed, vars
  <1>3. PICK p : p = doing[t].with[1]  OBVIOUS
  <1>4. p.id = n /\ wrapper[n].handle \in {p, Null} /\ p \in given
    BY <1>1, <1>2, <1>3 DEF Bound, MethodOK, Releases, Hold, In
  <1>5. ~Live(p)  BY <1>2, <1>3 DEF Held, Released
  <1>6. \A u \in Threads \ {t} : doing'[u] = doing[u]  BY <1>2 DEF Bound
  <1>7. ASSUME NEW s \in Slots, mem'[s].object PROVE Holder(s)'
    <2>1. PICK m : m = mem[s].id  OBVIOUS
    <2>2. Holder(s) /\ mem'[s].id = mem[s].id /\ mem[s].object  BY <1>2, <1>7 DEF Held
    <2>3. PICK q : q = [at |-> s, id |-> m]  OBVIOUS
    <2>4. wrapper[m].handle = q /\ m \in 1 .. made  BY <2>1, <2>2, <2>3 DEF Holder
    <2>5. m # n
      <3> SUFFICES ASSUME m = n PROVE FALSE
        OBVIOUS
      <3>1. q # Null  BY <2>3, CApiAssumption DEF Null
      <3>2. q = p  BY <1>4, <2>4, <3>1
      <3>3. p.at = s /\ p.id = m  BY <2>3, <3>2
      <3>4. Live(p)  BY <2>1, <2>2, <3>3 DEF Live, Cell
      <3> QED  BY <1>5, <3>4
    <2>6. wrapper'[m] = wrapper[m]
      <3>1. m \in Wrappers  BY <2>4, CApiAssumption DEF Bound, Wrappers
      <3> QED  BY <1>2, <2>5, <3>1 DEF Bound
    <2>7. \A u \in Threads : doing'[u].on = doing[u].on \/ doing[u].on # m  BY <1>1, <1>6, <2>5
    <2>8. made \in Nat /\ made' \in Nat /\ made <= made'  BY <1>2 DEF Bound
    <2> QED  BY <2>1, <2>2, <2>6, <2>7, <2>8, HolderKeeps
  <1>8. ASSUME NEW u \in Threads PROVE Released(u)'
    <2>1. CASE u # t
      <3>1. Released(u) /\ call'[u] = call[u] /\ doing'[u] = doing[u]  BY <1>2, <1>6, <2>1 DEF Held
      <3> QED  BY <1>2, <3>1, ReleasedKeeps
    <2>2. CASE u = t
      <3>1. ~In(t, "freeing")'  BY <1>2 DEF Bound, In, NoMethod
      <3> QED  BY <2>2, <3>1 DEF Released
    <2> QED  BY <2>1, <2>2
  <1> QED  BY <1>7, <1>8 DEF Held

LEMMA HeldCallStep ==
  ASSUME Typed, \A s \in Addresses : mem[s].id <= made, Bound, Held, process = "runs", NEW t \in Threads,
         CheckType(t) \/ Use(t) \/ CheckMagic(t) \/ Exchange(t) \/ Destroy(t),
         UNCHANGED bindings
  PROVE  Held'
  <1>1. /\ UNCHANGED <<made, wrapper, doing>> /\ ~Idle(t)
        /\ \A u \in Threads \ {t} : call'[u] = call[u]
    BY CallStep DEF bindings
  <1>2. \A s \in Slots : /\ mem'[s].object => mem[s].object
                         /\ mem'[s].id = mem[s].id
    <2>1. CASE CheckType(t) \/ Use(t) \/ CheckMagic(t)
      BY <2>1 DEF CheckType, Use, CheckMagic
    <2>2. CASE Exchange(t)  BY <2>2, ExchangeCells
    <2>3. CASE Destroy(t)  BY <2>3, DestroyCells
    <2> QED  BY <2>1, <2>2, <2>3
  <1>3. \A s \in Slots : mem'[s].object => Holder(s)'
    BY <1>1, <1>2, HeldKeeps
  <1>4. ASSUME NEW u \in Threads PROVE Released(u)'
    <2>1. MethodOK(u) /\ doing'[u] = doing[u]  BY <1>1 DEF Bound
    <2>2. PICK p : p = doing[u].with[1]  OBVIOUS
    <2>3. In(u, "freeing") => p.at \in Slots
      BY <2>1, <2>2 DEF Bound, MethodOK, Releases, Hold, In
    <2>4. CASE u # t
      <3>1. Released(u) /\ call'[u] = call[u]  BY <1>1, <2>4 DEF Held
      <3>2. In(u, "freeing") /\ mem'[p.at].object /\ mem'[p.at].id = p.id => mem[p.at].object /\ mem[p.at].id = p.id
        BY <1>2, <2>3
      <3> QED  BY <2>1, <2>2, <3>1, <3>2, ReleasedKeeps
    <2>5. CASE u = t /\ In(t, "freeing")
      <3>1. ~Looks(t) /\ Frees1(t)  BY <1>1, <2>1, <2>5 DEF MethodOK, In, Looks, Frees1
      <3>2. CASE CheckType(t) \/ Use(t)  BY <3>1, <3>2 DEF CheckType, Use, Looks, Is
      <3>3. CASE CheckMagic(t) \/ Exchange(t)
        <4>1. CASE process' = "terminated"  BY <4>1 DEF Released
        <4>2. CASE \E pc \in {"exchange", "destroy"} : call' = [call EXCEPT ![t].pc = pc]
          <5>1. PICK pc \in {"exchange", "destroy"} : call' = [call EXCEPT ![t].pc = pc]  BY <4>2
          <5>2. call' = [call EXCEPT ![t] = [call[t] EXCEPT !.pc = pc, !.k = call[t].k]]
            BY <1>1, <5>1, Moves
          <5>3. call[t] \in Calls  BY CallFacts
          <5>4. PICK e : e = [call[t] EXCEPT !.pc = pc, !.k = call[t].k]  OBVIOUS
          <5>5. e.pc = pc  BY <5>3, <5>4 DEF Calls
          <5>6. call'[t] = e  BY <5>2, <5>4, CallsFunction
          <5>7. ~Idle(t)'  BY <5>5, <5>6 DEF Idle
          <5> QED  BY <2>5, <5>7 DEF Released
        <4> QED  BY <3>3, <4>1, <4>2 DEF CheckMagic, Exchange, Terminate
      <3>4. CASE Destroy(t)
        <4>1. ~mem'[p.at].object  BY <2>2, <2>5, <3>4, DestroyCells
        <4>2. ~Live(doing[u].with[1])'  BY <2>1, <2>2, <4>1 DEF Live, Cell
        <4> QED  BY <4>2 DEF Released
      <3> QED  BY <3>2, <3>3, <3>4
    <2>6. CASE u = t /\ ~In(t, "freeing")
      <3>1. ~In(t, "freeing")'  BY <2>1, <2>6 DEF In
      <3> QED  BY <2>6, <3>1 DEF Released
    <2> QED  BY <2>4, <2>5, <2>6
  <1> QED  BY <1>3, <1>4 DEF Held

LEMMA HeldOverwrite ==
  ASSUME Typed, Bound, Held, process = "runs", NEW s \in Slots, Overwrite(s), UNCHANGED bindings
  PROVE  Held'
  <1>1. UNCHANGED <<made, wrapper, doing, call>>  BY DEF Overwrite, bindings
  <1>2. \A r \in Slots : mem'[r].object => mem[r].object /\ mem'[r].id = mem[r].id
    BY OverwriteCells
  <1>3. \A r \in Slots : mem'[r].object => Holder(r)'  BY <1>1, <1>2, HeldKeeps
  <1>4. ASSUME NEW u \in Threads PROVE Released(u)'
    <2>1. PICK p : p = doing[u].with[1]  OBVIOUS
    <2>2. In(u, "freeing") => p.at \in Slots
      BY <2>1 DEF Bound, MethodOK, Releases, Hold, In
    <2>3. In(u, "freeing") /\ mem'[p.at].object /\ mem'[p.at].id = p.id => mem[p.at].object /\ mem[p.at].id = p.id
      BY <1>2, <2>2
    <2>4. Released(u) /\ doing'[u] = doing[u] /\ call'[u] = call[u]  BY <1>1 DEF Held
    <2> QED  BY <2>1, <2>3, <2>4, ReleasedKeeps
  <1> QED  BY <1>3, <1>4 DEF Held

LEMMA HeldNext ==
  ASSUME Typed, Single, Bound, Bound', Held, WrappedNext
  PROVE  Held'
  <1>1. process = "runs"  BY DEF WrappedNext
  <1>2. ASSUME NEW t \in Threads, NEW type \in Types, Wrap(t, type) PROVE Held'
    <2>1. UNCHANGED doing /\ In(t, "program") /\ Make(t, type) /\ Wrapping(t, type, TRUE)
      BY <1>2 DEF Wrap
    <2> QED  BY <1>1, <2>1, HeldMake
  <1>3. ASSUME NEW t \in Threads, FindText(t) PROVE Held'
    <2>1. In(t, "program") /\ Make(t, "signature") /\ Wrapping(t, "signature", FALSE)
      BY <1>3 DEF FindText
    <2>2. PICK n : n = made + 1  OBVIOUS
    <2>3. PICK e : e = [NoMethod EXCEPT !.at = "text", !.on = n]  OBVIOUS
    <2>4. doing' = [doing EXCEPT ![t] = e]  BY <1>3, <2>2, <2>3 DEF FindText
    <2>5. e.at = "text" /\ e.on = n  BY <2>3 DEF NoMethod
    <2>6. doing'[t] = e /\ \A u \in Threads \ {t} : doing'[u] = doing[u]  BY <2>4 DEF Bound
    <2>7. doing'[t].on = made + 1 /\ ~In(t, "freeing")'  BY <2>2, <2>5, <2>6 DEF In
    <2>8. "signature" \in Types  BY DEF Types
    <2> QED  BY <1>1, <2>1, <2>6, <2>7, <2>8, HeldMake
  <1>4. ASSUME NEW t \in Threads,
               Read(t) \/ Enter(t) \/ Return(t) \/ Text(t) \/ Close(t) \/ EnterFree(t)
        PROVE  Held'
    BY <1>1, <1>4, HeldMethod
  <1>5. ASSUME NEW t \in Threads, Freed(t) PROVE Held'
    BY <1>1, <1>5, HeldFreed
  <1>6. ASSUME NEW t \in Threads,
               (CheckType(t) \/ Use(t) \/ CheckMagic(t) \/ Exchange(t) \/ Destroy(t)) /\ UNCHANGED bindings
        PROVE  Held'
    <2>1. \A s \in Addresses : mem[s].id <= made  BY DEF Single
    <2> QED  BY <1>1, <1>6, <2>1, HeldCallStep
  <1>7. ASSUME NEW s \in Slots, Overwrite(s) /\ UNCHANGED bindings PROVE Held'
    BY <1>1, <1>7, HeldOverwrite
  <1> QED  BY <1>2, <1>3, <1>4, <1>5, <1>6, <1>7 DEF WrappedNext

LEMMA HeldInit == ASSUME BindingsInit PROVE Held
  <1>1. \A s \in Slots : ~mem[s].object  BY DEF BindingsInit, Init
  <1>2. \A t \in Threads : ~In(t, "freeing")  BY DEF BindingsInit, NoMethod, In
  <1> QED  BY <1>1, <1>2 DEF Held, Released

HInv == client = "wrapped" => Held

LEMMA HInvariant == BindingsSpec => []HInv
  <1>1. BindingsInit => HInv  BY HeldInit DEF HInv
  <1>2. IInv /\ WInv /\ WInv' /\ HInv /\ [BindingsNext]_<<vars, bindings>> => HInv'
    <2> SUFFICES ASSUME IInv, WInv, WInv', HInv, [BindingsNext]_<<vars, bindings>>, client' = "wrapped" PROVE Held'
      BY DEF HInv
    <2>1. CASE client = "wrapped" /\ WrappedNext  BY <2>1, HeldNext DEF HInv, WInv, IInv
    <2>2. CASE client = "c" /\ UNCHANGED bindings  BY <2>2 DEF bindings
    <2>3. CASE UNCHANGED <<vars, bindings>>
      <3>1. UNCHANGED <<mem, process, shared, wrapper, doing, made, call, client>>  BY <2>3 DEF vars, bindings
      <3>2. Held  BY <3>1 DEF HInv
      <3>3. \A s \in Slots : Holder(s)' <=> Holder(s)  BY <3>1 DEF Holder
      <3>4. \A t \in Threads : Released(t)' <=> Released(t)  BY <3>1 DEF Released, In, Idle, Live, Cell
      <3> QED  BY <3>1, <3>2, <3>3, <3>4 DEF Held
    <2> QED  BY <2>1, <2>2, <2>3 DEF BindingsNext
  <1> QED  BY <1>1, <1>2, WInvariant, WrappersCall, Invariance, PTL DEF BindingsSpec

\* An object that a wrapper was made for, or a search for a text, is never left without
\* somebody who will or can close it, even when threads share wrappers and close them
\* at the same time.
THEOREM NoneLost == BindingsSpec => []NothingLost
  <1>1. HInv => NothingLost  BY DEF HInv, Held, Holder, NothingLost
  <1> QED  BY <1>1, HInvariant, PTL

-----------------------------------------------------------------------------
(* Wrappers of one thread each *)

Closes(t, w) == In(t, "freeing") /\ doing[t].on = w

\* A wrapper that its owner is not closing is of a live object.
Alive(w) ==
  wrapper[w].handle # Null =>
    \/ Closes(wrapper[w].owner, w)
    \/ Live(wrapper[w].handle) /\ Cell(wrapper[w].handle).type = wrapper[w].type

\* What a method has read is still so.
Steady(t) ==
  /\ In(t, "enter") \/ In(t, "inside") =>
       \A k \in DOMAIN doing[t].with : wrapper[doing[t].with[k].id].handle = doing[t].with[k]
  /\ In(t, "free") => wrapper[doing[t].on].handle = doing[t].with[1]
  /\ In(t, "freeing") /\ ~Idle(t) => Live(doing[t].with[1])
  /\ ~Idle(t) => call[t].due \in {"success", "freed"}

Owned ==
  /\ \A w \in 1 .. made : Alive(w) /\ wrapper[w].owner \in Threads
  /\ \A t \in Threads : Steady(t)
  /\ misuse \subseteq {"reused", "overwritten"}

\* A call looks at a live object of its own thread.
LEMMA LiveUses ==
  ASSUME Typed, Bound, Owned, ~shared, NEW u \in Threads, NEW s, Uses(u, s)
  PROVE  \E q \in given : q.at = s /\ s \in Slots /\ Live(q) /\ wrapper[q.id].owner = u /\ ~Idle(u)
  <1>1. ~Idle(u)  BY CallFacts
  <1>2. MethodOK(u) /\ Steady(u)  BY DEF Bound, Owned
  <1>3. CASE In(u, "inside")
    <2>1. PICK want, with : want = doing[u].want /\ with = doing[u].with  OBVIOUS
    <2>2. Fits(u) /\ ~In(u, "freeing")  BY <1>2, <1>3 DEF MethodOK, In
    <2>3. PICK a : a = call[u].args  OBVIOUS
    <2>4. a = [k \in DOMAIN want |-> [p |-> with[k], type |-> want[k]]]
      BY <1>1, <1>2, <2>1, <2>2, <2>3 DEF MethodOK
    <2>5. PICK k \in DOMAIN a : a[k].p.at = s  BY <2>3 DEF Uses
    <2>6. PICK q : q = with[k] /\ q = a[k].p  BY <2>4, <2>5
    <2>7. k \in DOMAIN want /\ k \in DOMAIN with /\ q \in given /\ wrapper[q.id].owner = u
      BY <2>1, <2>2, <2>4, <2>5, <2>6 DEF Fits
    <2>8. wrapper[q.id].handle = q  BY <1>2, <1>3, <2>1, <2>6, <2>7 DEF Steady
    <2>9. q # Null /\ q.id \in 1 .. made /\ q.at \in Slots
      BY <2>7, CApiAssumption DEF Bound, Null
    <2>10. Alive(q.id) /\ ~Closes(u, q.id)  BY <2>2, <2>9 DEF Owned, Closes
    <2>11. Live(q)  BY <2>7, <2>8, <2>9, <2>10 DEF Alive
    <2> QED  BY <1>1, <2>5, <2>6, <2>7, <2>9, <2>11
  <1>4. CASE ~In(u, "inside")
    <2>1. Frees1(u)  BY <1>1, <1>2, <1>4 DEF MethodOK
    <2>2. PICK q : q = doing[u].with[1]  OBVIOUS
    <2>3. /\ In(u, "freeing") /\ Hold(u) /\ q \in given /\ q.at \in Slots /\ s = q.at
      BY <2>1, <2>2, FreesWith
    <2>4. wrapper[q.id].owner = u  BY <2>2, <2>3 DEF Hold
    <2>5. Live(q)  BY <1>1, <1>2, <2>2, <2>3 DEF Steady
    <2> QED  BY <1>1, <2>3, <2>4, <2>5
  <1> QED  BY <1>3, <1>4

\* No other call looks at the object of a wrapper.
LEMMA Mine ==
  ASSUME Typed, Bound, Owned, ~shared, NEW t \in Threads, NEW p, Live(p), wrapper[p.id].owner = t,
         NEW u \in Threads, Uses(u, p.at)
  PROVE  u = t /\ ~Idle(t)
  <1>1. PICK q \in given : q.at = p.at /\ Live(q) /\ wrapper[q.id].owner = u /\ ~Idle(u)
    BY LiveUses
  <1>2. q.id = p.id  BY <1>1 DEF Live, Cell
  <1> QED  BY <1>1, <1>2

LEMMA AliveKeeps ==
  ASSUME NEW w, Alive(w), wrapper'[w] = wrapper[w],
         Closes(wrapper[w].owner, w) => Closes(wrapper[w].owner, w)',
         LET p == wrapper[w].handle IN
           p # Null /\ Live(p) /\ ~Closes(wrapper[w].owner, w) =>
             mem'[p.at].object /\ mem'[p.at].id = mem[p.at].id /\ mem'[p.at].type = mem[p.at].type
  PROVE  Alive(w)'
  <1>1. PICK r : r = wrapper[w] /\ r = wrapper'[w]  OBVIOUS
  <1>2. PICK p : p = r.handle  OBVIOUS
  <1>3. CASE p = Null  BY <1>1, <1>2, <1>3 DEF Alive
  <1>4. CASE p # Null /\ Closes(r.owner, w)
    <2>1. Closes(r.owner, w)'  BY <1>1, <1>4
    <2> QED  BY <1>1, <2>1 DEF Alive, Closes, In
  <1>5. CASE p # Null /\ ~Closes(r.owner, w)
    <2>1. Live(p) /\ mem[p.at].type = r.type  BY <1>1, <1>2, <1>5 DEF Alive, Cell
    <2>2. mem'[p.at].object /\ mem'[p.at].id = mem[p.at].id /\ mem'[p.at].type = mem[p.at].type
      BY <1>1, <1>2, <1>5, <2>1
    <2>3. mem'[p.at].object /\ mem'[p.at].id = p.id /\ mem'[p.at].type = r.type
      BY <2>1, <2>2 DEF Live, Cell
    <2> QED  BY <1>1, <1>2, <2>3 DEF Alive, Live, Cell
  <1> QED  BY <1>3, <1>4, <1>5

\* x is a wrapper whose pointer may be forgotten.
LEMMA SteadyKeeps ==
  ASSUME Bound, NEW u \in Threads, Steady(u), ~shared, doing'[u] = doing[u], call'[u] = call[u], NEW x,
         \A w \in 1 .. made : wrapper'[w].handle = wrapper[w].handle \/ (w = x /\ wrapper[w].owner # u),
         LET p == doing[u].with[1] IN
           In(u, "freeing") /\ ~Idle(u) => mem'[p.at].object /\ mem'[p.at].id = mem[p.at].id
  PROVE  Steady(u)'
  <1>1. PICK d : d = doing[u] /\ d = doing'[u]  OBVIOUS
  <1>2. PICK c : c = call[u] /\ c = call'[u]  OBVIOUS
  <1>3. MethodOK(u)  BY DEF Bound
  <1>4. \A at : In(u, at)' <=> In(u, at)  BY <1>1 DEF In
  <1>5. Idle(u)' <=> Idle(u)  BY DEF Idle
  <1>6. ASSUME In(u, "enter") \/ In(u, "inside"), NEW k \in DOMAIN d.with
        PROVE  wrapper'[d.with[k].id].handle = d.with[k]
    <2>1. PICK q : q = d.with[k]  OBVIOUS
    <2>2. wrapper[q.id].handle = q  BY <1>1, <1>6, <2>1 DEF Steady
    <2>3. q \in given /\ wrapper[q.id].owner = u
      BY <1>1, <1>3, <1>6, <2>1 DEF MethodOK, Fits
    <2>4. q.id \in 1 .. made  BY <2>3 DEF Bound
    <2> QED  BY <2>1, <2>2, <2>3, <2>4
  <1>7. ASSUME In(u, "free") PROVE wrapper'[d.on].handle = d.with[1]
    <2>1. wrapper[d.on].handle = d.with[1] /\ Hold(u)
      BY <1>1, <1>3, <1>7 DEF Steady, MethodOK, Releases, In
    <2>2. PICK q : q = d.with[1]  OBVIOUS
    <2>3. q \in given /\ q.id = d.on /\ wrapper[q.id].owner = u  BY <1>1, <2>1, <2>2 DEF Hold
    <2>4. d.on \in 1 .. made  BY <2>3 DEF Bound
    <2> QED  BY <2>1, <2>2, <2>3, <2>4
  <1>8. ASSUME In(u, "freeing"), ~Idle(u) PROVE Live(d.with[1])'
    <2>1. PICK q : q = d.with[1]  OBVIOUS
    <2>2. Live(q)  BY <1>1, <1>8, <2>1 DEF Steady
    <2>3. mem'[q.at].object /\ mem'[q.at].id = mem[q.at].id  BY <1>1, <1>8, <2>1
    <2> QED  BY <2>1, <2>2, <2>3 DEF Live, Cell
  <1>9. ~Idle(u) => c.due \in {"success", "freed"}  BY <1>2 DEF Steady
  <1> QED  BY <1>1, <1>2, <1>4, <1>5, <1>6, <1>7, <1>8, <1>9 DEF Steady

\* Where neither memory nor wrappers change, and no thread begins or ends to close.
LEMMA OwnedQuiet ==
  ASSUME Bound, Owned, ~shared, NEW t \in Threads, Steady(t)',
         UNCHANGED <<mem, made, wrapper>>, misuse' \subseteq {"reused", "overwritten"},
         \A u \in Threads \ {t} : doing'[u] = doing[u] /\ call'[u] = call[u],
         \A w : Closes(t, w) => Closes(t, w)'
  PROVE  Owned'
  <1>1. ASSUME NEW w \in 1 .. made PROVE Alive(w)' /\ wrapper'[w].owner \in Threads
    <2>1. PICK r : r = wrapper[w]  OBVIOUS
    <2>2. Alive(w) /\ wrapper'[w] = wrapper[w] /\ r.owner \in Threads  BY <2>1 DEF Owned
    <2>3. Closes(r.owner, w) => Closes(r.owner, w)'
      <3>1. CASE r.owner = t
        <4>1. Closes(t, w) => Closes(t, w)'  OBVIOUS
        <4> QED  BY <3>1, <4>1 DEF Closes, In
      <3>2. CASE r.owner # t
        <4>1. r.owner \in Threads \ {t}  BY <2>1, <3>2 DEF Owned
        <4> QED  BY <4>1 DEF Closes, In
      <3> QED  BY <3>1, <3>2
    <2>4. PICK p : p = r.handle  OBVIOUS
    <2>5. Live(p) => mem'[p.at].object /\ mem'[p.at].id = mem[p.at].id /\ mem'[p.at].type = mem[p.at].type
      BY DEF Live, Cell
    <2> QED  BY <2>1, <2>2, <2>3, <2>4, <2>5, AliveKeeps
  <1>2. ASSUME NEW u \in Threads \ {t} PROVE Steady(u)'
    <2>1. PICK x : x = 0  OBVIOUS
    <2>2. Steady(u) /\ doing'[u] = doing[u] /\ call'[u] = call[u]  BY DEF Owned
    <2>3. PICK p : p = doing[u].with[1]  OBVIOUS
    <2>4. In(u, "freeing") /\ ~Idle(u) => mem'[p.at].object /\ mem'[p.at].id = mem[p.at].id
      BY <2>2, <2>3 DEF Steady, Live, Cell
    <2> QED  BY <2>1, <2>2, <2>3, <2>4, SteadyKeeps
  <1> QED  BY <1>1, <1>2 DEF Owned

\* Where the objects that wrappers are of stay as they are.
LEMMA OwnedMake ==
  ASSUME Typed, Bound, Bound', Owned, ~shared, UNCHANGED shared, NEW t \in Threads, NEW type \in Types, NEW kept \in BOOLEAN,
         In(t, "program"), Make(t, type), Wrapping(t, type, kept),
         \A u \in Threads \ {t} : doing'[u] = doing[u],
         doing'[t].at \in {"program", "text"}
  PROVE  Owned'
  <1>1. PICK s \in Slots :
           /\ ~mem[s].object
           /\ mem' = [mem EXCEPT ![s] = New(type, made + 1)]
           /\ made' = made + 1 /\ made + 1 \in Wrappers
           /\ given' = given \cup {[at |-> s, id |-> made + 1]}
           /\ wrapper' = [wrapper EXCEPT ![made + 1] =
                [type |-> type, handle |-> [at |-> s, id |-> made + 1], owner |-> t, kept |-> kept]]
           /\ misuse' \subseteq misuse \cup {"reused"}
           /\ UNCHANGED <<call, process>>
           /\ Idle(t)
    BY Wrapped
  <1>2. PICK n \in Nat : n = made + 1 /\ n = made' /\ n \in 1 .. n  BY <1>1 DEF Bound
  <1>3. /\ \A w \in 1 .. made : wrapper'[w] = wrapper[w]
        /\ wrapper'[n] = [type |-> type, handle |-> [at |-> s, id |-> n], owner |-> t, kept |-> kept]
        /\ made \in Nat /\ made' \in Nat /\ made <= made'
    BY <1>1, <1>2, WrappedOK DEF Bound
  <1>4. /\ mem'[s].object /\ mem'[s].id = n /\ mem'[s].type = type
        /\ \A r \in Slots : r # s => mem'[r] = mem[r]
    BY <1>1, <1>2, MakeCells
  <1>5. Alive(n)' /\ wrapper'[n].owner \in Threads
    <2>1. PICK r, p : r = wrapper'[n] /\ p = [at |-> s, id |-> n]  OBVIOUS
    <2>2. r.handle = p /\ r.type = type /\ r.owner = t  BY <1>3, <2>1
    <2>3. p.at = s /\ p.id = n  BY <2>1
    <2> QED  BY <1>4, <2>1, <2>2, <2>3 DEF Alive, Live, Cell
  <1>6. ASSUME NEW w \in 1 .. made PROVE Alive(w)' /\ wrapper'[w].owner \in Threads
    <2>1. PICK r : r = wrapper[w]  OBVIOUS
    <2>2. Alive(w) /\ wrapper'[w] = wrapper[w] /\ r.owner \in Threads  BY <1>3, <2>1 DEF Owned
    <2>3. Closes(r.owner, w) => Closes(r.owner, w)'
      <3>1. ~Closes(t, w)  BY DEF Closes, In
      <3>2. CASE r.owner # t
        <4>1. r.owner \in Threads \ {t}  BY <2>2, <3>2
        <4> QED  BY <4>1 DEF Closes, In
      <3> QED  BY <3>1, <3>2
    <2>4. PICK p : p = r.handle  OBVIOUS
    <2>5. p # Null /\ Live(p) => mem'[p.at].object /\ mem'[p.at].id = mem[p.at].id /\ mem'[p.at].type = mem[p.at].type
      <3> SUFFICES ASSUME p # Null, Live(p) PROVE mem'[p.at] = mem[p.at] /\ mem[p.at].object
        OBVIOUS
      <3>1. w \in Wrappers  BY CApiAssumption DEF Wrappers, Bound
      <3>2. p \in given  BY <2>1, <2>4, <3>1 DEF Bound, WrapperOK
      <3>3. p.at \in Slots /\ p.at # s  BY <1>1, <3>2 DEF Bound, Live, Cell
      <3> QED  BY <1>4, <3>3 DEF Live, Cell
    <2> QED  BY <2>1, <2>2, <2>3, <2>4, <2>5, AliveKeeps
  <1>7. ASSUME NEW w \in 1 .. made' PROVE Alive(w)' /\ wrapper'[w].owner \in Threads
    <2>1. w = n \/ w \in 1 .. made  BY <1>2, <1>3
    <2> QED  BY <1>5, <1>6, <2>1
  <1>8. ASSUME NEW u \in Threads PROVE Steady(u)'
    <2>1. CASE u = t
      <3>1. Idle(t)'  BY <1>1 DEF Idle
      <3> QED  BY <2>1, <3>1 DEF Steady, In
    <2>2. CASE u # t
      <3>1. Steady(u) /\ call'[u] = call[u] /\ doing'[u] = doing[u]  BY <1>1, <2>2 DEF Owned
      <3>2. PICK p : p = doing[u].with[1]  OBVIOUS
      <3>3. In(u, "freeing") /\ ~Idle(u) => mem'[p.at].object /\ mem'[p.at].id = mem[p.at].id
        <4> SUFFICES ASSUME In(u, "freeing"), ~Idle(u) PROVE mem'[p.at] = mem[p.at] /\ mem[p.at].object
          OBVIOUS
        <4>1. Live(p)  BY <3>1, <3>2 DEF Steady
        <4>2. p.at \in Slots  BY <3>2 DEF Bound, MethodOK, Releases, Hold, In
        <4>3. mem[p.at].object /\ p.at # s  BY <1>1, <4>1 DEF Live, Cell
        <4> QED  BY <1>4, <4>2, <4>3
      <3>4. PICK x : x = 0  OBVIOUS
      <3>5. \A w \in 1 .. made : wrapper'[w].handle = wrapper[w].handle \/ (w = x /\ wrapper[w].owner # u)
        BY <1>3
      <3> QED  BY <3>1, <3>2, <3>3, <3>5, SteadyKeeps
    <2> QED  BY <2>1, <2>2
  <1>9. misuse' \subseteq {"reused", "overwritten"}  BY <1>1 DEF Owned
  <1> QED  BY <1>7, <1>8, <1>9 DEF Owned

LEMMA OwnedRead ==
  ASSUME Bound, Owned, ~shared, NEW t \in Threads, Read(t)
  PROVE  Owned'
  <1>0. PICK want \in Wanted : \E with \in Handles(t, want) :
          doing' = [doing EXCEPT ![t] = [at |-> "enter", on |-> 0, want |-> want, with |-> with]]
    BY DEF Read
  <1>1. PICK with \in Handles(t, want) :
          doing' = [doing EXCEPT ![t] = [at |-> "enter", on |-> 0, want |-> want, with |-> with]]
    BY <1>0
  <1>2. UNCHANGED <<mem, made, wrapper, misuse, call>> /\ In(t, "program")  BY DEF Read, vars
  <1>3. PICK d : d = [at |-> "enter", on |-> 0, want |-> want, with |-> with]  OBVIOUS
  <1>4. doing'[t] = d /\ \A u \in Threads \ {t} : doing'[u] = doing[u]  BY <1>1, <1>3 DEF Bound
  <1>5. d.at = "enter" /\ d.with = with  BY <1>3
  <1>6. \A k \in DOMAIN with : wrapper[with[k].id].handle = with[k]
    <2>1. with = [k \in DOMAIN want |-> with[k]]  BY HandlesFit
    <2>2. \A k \in DOMAIN want : wrapper[with[k].id].handle = with[k]  BY HandlesFit
    <2> QED  BY <2>1, <2>2
  <1>7. Idle(t)'  BY <1>2 DEF Bound, MethodOK, In, Idle
  <1>8. Steady(t)'  BY <1>2, <1>4, <1>5, <1>6, <1>7 DEF Steady, In
  <1>9. \A w : ~Closes(t, w)  BY <1>2 DEF Closes, In
  <1> QED  BY <1>2, <1>4, <1>8, <1>9, OwnedQuiet DEF Owned

LEMMA OwnedReturn ==
  ASSUME Bound, Owned, ~shared, NEW t \in Threads, Return(t)
  PROVE  Owned'
  <1>1. UNCHANGED <<mem, made, wrapper, misuse, call>> /\ In(t, "inside") /\ Idle(t)
    BY DEF Return, vars
  <1>2. \A u \in Threads \ {t} : doing'[u] = doing[u]  BY DEF Return, Go, Bound
  <1>3. doing'[t].at \in {"program", "close"}
    <2>1. CASE doing' = [doing EXCEPT ![t] = NoMethod]  BY <2>1 DEF Bound, NoMethod
    <2>2. CASE Go(t, "close")  BY <2>2, Gone DEF Bound
    <2> QED  BY <2>1, <2>2 DEF Return
  <1>4. Idle(t)'  BY <1>1 DEF Idle
  <1>5. Steady(t)'  BY <1>3, <1>4 DEF Steady, In
  <1>6. \A w : ~Closes(t, w)  BY <1>1 DEF Closes, In
  <1> QED  BY <1>1, <1>2, <1>5, <1>6, OwnedQuiet DEF Owned

LEMMA OwnedText ==
  ASSUME Bound, Bound', Owned, ~shared, NEW t \in Threads, Text(t)
  PROVE  Owned'
  <1>1. UNCHANGED <<mem, made, wrapper, misuse, call>> /\ In(t, "text")
    BY DEF Text, vars
  <1>2. MethodOK(t) /\ Idle(t)  BY <1>1 DEF Bound, MethodOK, In
  <1>3. Idle(t)'  BY <1>1, <1>2 DEF Idle
  <1>4. \A w : ~Closes(t, w)  BY <1>1 DEF Closes, In
  <1>5. PICK n : n = doing[t].on  OBVIOUS
  <1>6. n # 0 /\ n \in 1 .. made /\ wrapper[n].handle # Null
    BY <1>1, <1>2, <1>5 DEF MethodOK, In, Releases
  <1>7. CASE Go(t, "close")
    <2>1. doing'[t].at = "close"  BY <1>7, Gone DEF Bound
    <2>2. \A u \in Threads \ {t} : doing'[u] = doing[u]  BY <1>7 DEF Go, Bound
    <2>3. Steady(t)'  BY <1>3, <2>1 DEF Steady, In
    <2> QED  BY <1>1, <1>4, <2>2, <2>3, OwnedQuiet DEF Owned
  <1>8. CASE Search(t, n)
    <2>1. PICK more \in {<<>>, <<"module">>} : \E with \in Handles(t, more) :
            doing' = [doing EXCEPT ![t] =
              [at |-> "enter", on |-> n, want |-> <<"signature">> \o more, with |-> << wrapper[n].handle >> \o with]]
      BY <1>5, <1>8 DEF Search
    <2>2. PICK with \in Handles(t, more) :
            doing' = [doing EXCEPT ![t] =
              [at |-> "enter", on |-> n, want |-> <<"signature">> \o more, with |-> << wrapper[n].handle >> \o with]]
      BY <2>1
    <2>3. PICK h : h = wrapper[n].handle  OBVIOUS
    <2>4. h \in given /\ h.id = n
      BY <1>6, <2>3, CApiAssumption DEF Bound, WrapperOK, Wrappers
    <2>5. PICK all : all = << h >> \o with  OBVIOUS
    <2>6. with = [k \in DOMAIN more |-> with[k]]  BY HandlesFit
    <2>7. \/ more = <<>> /\ all = << h >>
          \/ more = <<"module">> /\ all = << h, with[1] >>
      BY <2>5, <2>6, SearchWith
    <2>8. \A k \in DOMAIN all : wrapper[all[k].id].handle = all[k]
      <3>1. CASE more = <<>> /\ all = << h >>
        <4>1. DOMAIN all = {1} /\ all[1] = h  BY <3>1
        <4> QED  BY <2>3, <2>4, <4>1
      <3>2. CASE more = <<"module">> /\ all = << h, with[1] >>
        <4>1. DOMAIN more = {1}  BY <3>2
        <4>2. wrapper[with[1].id].handle = with[1]  BY <4>1, HandlesFit
        <4>3. DOMAIN all = {1, 2} /\ all[1] = h /\ all[2] = with[1]  BY <3>2
        <4> QED  BY <2>3, <2>4, <4>2, <4>3
      <3> QED  BY <2>7, <3>1, <3>2
    <2>9. PICK d, want : /\ want = <<"signature">> \o more
                         /\ d = [at |-> "enter", on |-> n, want |-> want, with |-> all]
      OBVIOUS
    <2>10. doing'[t] = d /\ \A u \in Threads \ {t} : doing'[u] = doing[u]
      BY <2>2, <2>3, <2>5, <2>9 DEF Bound
    <2>11. d.at = "enter" /\ d.with = all  BY <2>9
    <2>12. Steady(t)'  BY <1>1, <1>3, <2>8, <2>10, <2>11 DEF Steady, In
    <2> QED  BY <1>1, <1>4, <2>10, <2>12, OwnedQuiet DEF Owned
  <1> QED  BY <1>5, <1>7, <1>8 DEF Text

LEMMA OwnedClose ==
  ASSUME Bound, Owned, ~shared, NEW t \in Threads, Close(t)
  PROVE  Owned'
  <1>1. UNCHANGED <<mem, made, wrapper, misuse, call>>  BY DEF Close, vars
  <1>2. PICK w \in Wrappers :
          /\ In(t, "program") \/ In(t, "close")
          /\ doing' = [doing EXCEPT ![t] =
               [at |-> "free", on |-> w, want |-> <<>>, with |-> << wrapper[w].handle >>]]
    BY DEF Close
  <1>3. PICK p : p = wrapper[w].handle  OBVIOUS
  <1>4. PICK d : d = [at |-> "free", on |-> w, want |-> <<>>, with |-> << p >>]  OBVIOUS
  <1>5. doing'[t] = d /\ \A u \in Threads \ {t} : doing'[u] = doing[u]
    BY <1>2, <1>3, <1>4 DEF Bound
  <1>6. d.at = "free" /\ d.on = w /\ d.with[1] = p  BY <1>4
  <1>7. Idle(t)'  BY <1>1, <1>2 DEF Bound, MethodOK, In, Idle
  <1>8. Steady(t)'  BY <1>1, <1>3, <1>5, <1>6, <1>7 DEF Steady, In
  <1>9. \A n : ~Closes(t, n)  BY <1>2 DEF Closes, In
  <1> QED  BY <1>1, <1>5, <1>8, <1>9, OwnedQuiet DEF Owned

\* A wrapper's call is given live objects of the right types, which nobody frees.
LEMMA OwnedEnter ==
  ASSUME Typed, Bound, Owned, ~shared, NEW t \in Threads, Enter(t)
  PROVE  Owned'
  <1>1. PICK want, with : want = doing[t].want /\ with = doing[t].with  OBVIOUS
  <1>2. PICK args : args = [k \in DOMAIN want |-> [p |-> with[k], type |-> want[k]]]  OBVIOUS
  <1>3. CallOf(t, want, with, TRUE) /\ In(t, "enter") /\ Go(t, "inside")  BY <1>1 DEF Enter
  <1>4. UNCHANGED <<mem, made, wrapper>>  BY <1>3 DEF Enter, CallOf
  <1>5. Fits(t) /\ Steady(t)  BY <1>3 DEF Bound, MethodOK, Owned
  <1>6. ASSUME NEW k \in DOMAIN want
        PROVE  /\ with[k] # Null /\ Live(with[k]) /\ Cell(with[k]).type = want[k]
               /\ wrapper[with[k].id].owner = t
    <2>1. PICK q : q = with[k]  OBVIOUS
    <2>2. /\ q \in given /\ wrapper[q.id].owner = t /\ wrapper[q.id].type = want[k] /\ k \in DOMAIN with
      BY <1>1, <1>5, <1>6, <2>1 DEF Fits
    <2>3. wrapper[q.id].handle = q  BY <1>1, <1>3, <1>5, <2>1, <2>2 DEF Steady
    <2>4. q # Null /\ q.id \in 1 .. made  BY <2>2, CApiAssumption DEF Bound, Null
    <2>5. Alive(q.id) /\ ~Closes(t, q.id)  BY <1>3, <2>4 DEF Owned, Closes, In
    <2> QED  BY <2>1, <2>2, <2>3, <2>4, <2>5 DEF Alive
  <1>7. DOMAIN with = DOMAIN want /\ DOMAIN args = DOMAIN want  BY <1>1, <1>2, <1>5 DEF Fits
  <1>8. \A k \in DOMAIN args : args[k].p = with[k] /\ args[k].type = want[k]  BY <1>2
  <1>9. Due(args, TRUE) = "success"  BY <1>6, <1>7, <1>8 DEF Due
  <1>10. ~AnyNull(with)  BY <1>6, <1>7 DEF AnyNull
  <1>11. PICK c : c = [pc |-> "check", k |-> 1, args |-> args, align |-> TRUE, due |-> Due(args, TRUE)]
    OBVIOUS
  <1>12. /\ call' = [call EXCEPT ![t] = c]
         /\ misuse' = misuse
              \cup {m \in {"stale"} : \E k \in DOMAIN with : ~Live(with[k])}
              \cup {m \in {"overlap"} : \E k \in DOMAIN with : \E u \in Threads : Frees(u, with[k].at)}
         /\ Idle(t)
    BY <1>2, <1>3, <1>10, <1>11 DEF CallOf
  <1>13. ASSUME NEW k \in DOMAIN with, NEW u \in Threads, Frees(u, with[k].at) PROVE FALSE
    <2>1. PICK q : q = with[k]  OBVIOUS
    <2>2. Live(q) /\ wrapper[q.id].owner = t  BY <1>6, <1>7, <2>1
    <2>3. Uses(u, q.at)  BY <1>13, <2>1 DEF Frees
    <2> QED  BY <1>12, <2>2, <2>3, Mine
  <1>14. misuse' = misuse  BY <1>6, <1>7, <1>12, <1>13
  <1>15. call'[t] = c /\ \A u \in Threads \ {t} : call'[u] = call[u]  BY <1>12, CallsFunction
  <1>16. c.due = "success"  BY <1>9, <1>11
  <1>17. PICK d : d = [at |-> "inside", on |-> doing[t].on, want |-> want, with |-> with]  OBVIOUS
  <1>18. doing'[t] = d /\ \A u \in Threads \ {t} : doing'[u] = doing[u]
    BY <1>1, <1>3, <1>17, Gone DEF Bound
  <1>19. d.at = "inside" /\ d.with = with  BY <1>17
  <1>20. Steady(t)'
    <2>1. \A k \in DOMAIN with : wrapper'[with[k].id].handle = with[k]
      BY <1>1, <1>3, <1>4, <1>5 DEF Steady
    <2> QED  BY <1>15, <1>16, <1>18, <1>19, <2>1 DEF Steady, In
  <1>21. \A w : ~Closes(t, w)  BY <1>3 DEF Closes, In
  <1> QED  BY <1>4, <1>14, <1>15, <1>18, <1>20, <1>21, OwnedQuiet DEF Owned

LEMMA OwnedEnterFree ==
  ASSUME Typed, Bound, Owned, ~shared, NEW t \in Threads, EnterFree(t)
  PROVE  Owned'
  <1>1. PICK p : p = doing[t].with[1]  OBVIOUS
  <1>2. FreeOf(t, p) /\ Go(t, "freeing") /\ In(t, "free")  BY <1>1 DEF EnterFree
  <1>3. /\ UNCHANGED <<mem, made, wrapper>> /\ Idle(t)
        /\ \A u \in Threads \ {t} : call'[u] = call[u]
        /\ misuse' = misuse
             \cup {m \in {"stale"} : ~Live(p)}
             \cup {m \in {"overlap"} : \E u \in Threads : Uses(u, p.at)}
    BY <1>2 DEF EnterFree, FreeOf, Bound
  <1>4. Hold(t) /\ Steady(t)  BY <1>2 DEF Bound, MethodOK, Releases, In, Owned
  <1>5. p \in given /\ p.id = doing[t].on /\ wrapper[p.id].owner = t  BY <1>1, <1>4 DEF Hold
  <1>6. wrapper[p.id].handle = p  BY <1>1, <1>2, <1>4, <1>5 DEF Steady
  <1>7. p # Null /\ p.id \in 1 .. made  BY <1>5, CApiAssumption DEF Bound, Null
  <1>8. Live(p)
    <2>1. Alive(p.id) /\ ~Closes(t, p.id)  BY <1>2, <1>7 DEF Owned, Closes, In
    <2> QED  BY <1>5, <1>6, <1>7, <2>1 DEF Alive
  <1>9. ASSUME NEW u \in Threads, Uses(u, p.at) PROVE FALSE
    BY <1>3, <1>5, <1>8, <1>9, Mine
  <1>10. misuse' = misuse  BY <1>3, <1>8, <1>9
  <1>11. call'[t].due = "freed"  BY <1>2, <1>8, FreeStarts
  <1>12. PICK d : d = [at |-> "freeing", on |-> doing[t].on, want |-> doing[t].want, with |-> doing[t].with]
    OBVIOUS
  <1>13. doing'[t] = d /\ \A u \in Threads \ {t} : doing'[u] = doing[u]
    BY <1>2, <1>12, Gone DEF Bound
  <1>14. d.at = "freeing" /\ d.with[1] = p  BY <1>1, <1>12
  <1>15. Live(p)'  BY <1>3, <1>8 DEF Live, Cell
  <1>16. Steady(t)'  BY <1>11, <1>13, <1>14, <1>15 DEF Steady, In
  <1>17. \A w : ~Closes(t, w)  BY <1>2 DEF Closes, In
  <1> QED  BY <1>3, <1>10, <1>13, <1>16, <1>17, OwnedQuiet DEF Owned

LEMMA OwnedFreed ==
  ASSUME Bound, Owned, ~shared, NEW t \in Threads, Freed(t)
  PROVE  Owned'
  <1>1. PICK n : n = doing[t].on  OBVIOUS
  <1>2. /\ UNCHANGED <<mem, made, call, misuse>> /\ In(t, "freeing") /\ Idle(t)
        /\ wrapper' = [wrapper EXCEPT ![n].handle = Null]
        /\ doing' = [doing EXCEPT ![t] = NoMethod]
    BY <1>1 DEF Freed, vars
  <1>3. Hold(t)  BY <1>2 DEF Bound, MethodOK, Releases, In
  <1>4. wrapper[n].owner = t /\ n \in 1 .. made  BY <1>1, <1>3 DEF Hold, Bound
  <1>5. n \in Wrappers /\ IsWrapper(wrapper[n])
    BY <1>4, CApiAssumption DEF Bound, Wrappers, WrapperOK
  <1>6. PICK r, q : r = wrapper[n] /\ q = [r EXCEPT !.handle = Null]  OBVIOUS
  <1>7. wrapper' = [wrapper EXCEPT ![n] = q]  BY <1>2, <1>6
  <1>8. q.handle = Null /\ q.owner = r.owner  BY <1>5, <1>6 DEF IsWrapper
  <1>9. wrapper'[n] = q /\ \A w \in Wrappers : w # n => wrapper'[w] = wrapper[w]
    BY <1>5, <1>7 DEF Bound
  <1>10. \A w \in 1 .. made : w \in Wrappers  BY CApiAssumption DEF Bound, Wrappers
  <1>11. doing'[t] = NoMethod /\ \A u \in Threads \ {t} : doing'[u] = doing[u]
    BY <1>2 DEF Bound
  <1>12. ASSUME NEW w \in 1 .. made PROVE Alive(w)' /\ wrapper'[w].owner \in Threads
    <2>1. CASE w = n  BY <1>4, <1>6, <1>8, <1>9, <2>1 DEF Alive
    <2>2. CASE w # n
      <3>1. PICK o : o = wrapper[w]  OBVIOUS
      <3>2. Alive(w) /\ wrapper'[w] = o /\ o.owner \in Threads
        BY <1>9, <1>10, <2>2, <3>1 DEF Owned
      <3>3. Closes(o.owner, w) => Closes(o.owner, w)'
        <4>1. ~Closes(t, w)  BY <1>1, <2>2 DEF Closes
        <4>2. CASE o.owner # t
          <5>1. o.owner \in Threads \ {t}  BY <3>2, <4>2
          <5> QED  BY <1>11, <5>1 DEF Closes, In
        <4> QED  BY <4>1, <4>2
      <3>4. PICK p : p = o.handle  OBVIOUS
      <3>5. Live(p) => mem'[p.at].object /\ mem'[p.at].id = mem[p.at].id /\ mem'[p.at].type = mem[p.at].type
        BY <1>2 DEF Live, Cell
      <3> QED  BY <3>1, <3>2, <3>3, <3>4, <3>5, AliveKeeps
    <2> QED  BY <2>1, <2>2
  <1>13. ASSUME NEW u \in Threads PROVE Steady(u)'
    <2>1. CASE u = t
      <3>1. Idle(t)'  BY <1>2 DEF Idle
      <3>2. doing'[t].at = "program"  BY <1>11 DEF NoMethod
      <3> QED  BY <2>1, <3>1, <3>2 DEF Steady, In
    <2>2. CASE u # t
      <3>1. Steady(u) /\ doing'[u] = doing[u] /\ call'[u] = call[u]  BY <1>2, <1>11, <2>2 DEF Owned
      <3>2. PICK p : p = doing[u].with[1]  OBVIOUS
      <3>3. In(u, "freeing") /\ ~Idle(u) => mem'[p.at].object /\ mem'[p.at].id = mem[p.at].id
        BY <1>2, <3>1, <3>2 DEF Steady, Live, Cell
      <3>4. \A w \in 1 .. made : wrapper'[w].handle = wrapper[w].handle \/ (w = n /\ wrapper[w].owner # u)
        BY <1>4, <1>9, <1>10, <2>2
      <3> QED  BY <3>1, <3>2, <3>3, <3>4, SteadyKeeps
    <2> QED  BY <2>1, <2>2
  <1> QED  BY <1>2, <1>12, <1>13 DEF Owned

\* Only the object of the wrapper that is closed changes.
LEMMA OwnedCallStep ==
  ASSUME Typed, \A s \in Addresses : mem[s].id <= made, Bound, Owned, ~shared, NEW t \in Threads,
         CheckType(t) \/ Use(t) \/ CheckMagic(t) \/ Exchange(t) \/ Destroy(t),
         UNCHANGED bindings
  PROVE  Owned'
  <1>1. /\ UNCHANGED <<made, wrapper, doing, misuse>> /\ ~Idle(t)
        /\ \A u \in Threads \ {t} : call'[u] = call[u]
        /\ Idle(t)' \/ call'[t].due = call[t].due
    BY CallStep DEF bindings
  <1>2. PICK q : q = doing[t].with[1]  OBVIOUS
  <1>3. Frees1(t) => /\ In(t, "freeing") /\ Hold(t) /\ q.id = doing[t].on /\ wrapper[q.id].owner = t /\ Live(q)
    <2>1. Frees1(t) => In(t, "freeing") /\ Hold(t) /\ q.id = doing[t].on  BY <1>2, FreesWith
    <2>2. Steady(t)  BY DEF Owned
    <2> QED  BY <1>1, <1>2, <2>1, <2>2 DEF Steady, Hold
  <1>4. ASSUME NEW r \in Slots, ~Frees1(t) \/ r # q.at
        PROVE  mem'[r].object = mem[r].object /\ mem'[r].id = mem[r].id /\ mem'[r].type = mem[r].type
    <2>1. CASE CheckType(t) \/ Use(t) \/ CheckMagic(t)
      BY <2>1 DEF CheckType, Use, CheckMagic
    <2>2. CASE Exchange(t)
      <3>1. Frees1(t)  BY <2>2 DEF Exchange, Frees1, Is
      <3> QED  BY <1>2, <1>4, <2>2, <3>1, ExchangeCells
    <2>3. CASE Destroy(t)
      <3>1. Frees1(t)  BY <2>3 DEF Destroy, Frees1, Is
      <3> QED  BY <1>2, <1>4, <2>3, <3>1, DestroyCells
    <2> QED  BY <2>1, <2>2, <2>3
  <1>5. ASSUME NEW w \in 1 .. made PROVE Alive(w)' /\ wrapper'[w].owner \in Threads
    <2>1. PICK o, p : o = wrapper[w] /\ p = o.handle  OBVIOUS
    <2>2. Alive(w) /\ wrapper'[w] = wrapper[w] /\ o.owner \in Threads  BY <1>1, <2>1 DEF Owned
    <2>3. Closes(o.owner, w) => Closes(o.owner, w)'  BY <1>1 DEF Closes, In
    <2>4. ASSUME p # Null, Live(p), ~Closes(o.owner, w)
          PROVE  mem'[p.at].object /\ mem'[p.at].id = mem[p.at].id /\ mem'[p.at].type = mem[p.at].type
      <3>1. w \in Wrappers  BY CApiAssumption DEF Bound, Wrappers
      <3>2. p \in given /\ p.id = w  BY <2>1, <2>4, <3>1 DEF Bound, WrapperOK
      <3>3. p.at \in Slots /\ mem[p.at].object  BY <2>4, <3>2 DEF Bound, Live, Cell
      <3>4. ~Frees1(t) \/ p.at # q.at
        <4> SUFFICES ASSUME Frees1(t), p.at = q.at PROVE FALSE
          OBVIOUS
        <4>1. p.id = q.id  BY <1>3, <2>4 DEF Live, Cell
        <4>2. Closes(t, w) /\ o.owner = t  BY <1>3, <2>1, <3>2, <4>1 DEF Closes
        <4> QED  BY <2>4, <4>2
      <3> QED  BY <1>4, <3>3, <3>4
    <2> QED  BY <2>1, <2>2, <2>3, <2>4, AliveKeeps
  <1>6. ASSUME NEW u \in Threads PROVE Steady(u)'
    <2>1. Steady(u) /\ doing'[u] = doing[u]  BY <1>1 DEF Owned
    <2>2. CASE u = t
      <3>1. CASE Idle(t)'
        <4>1. (In(t, "enter")' <=> In(t, "enter")) /\ (In(t, "inside")' <=> In(t, "inside")) /\ (In(t, "free")' <=> In(t, "free"))
          BY <1>1 DEF In
        <4> QED  BY <1>1, <2>1, <2>2, <3>1, <4>1 DEF Steady
      <3>2. CASE ~Idle(t)'
        <4>1. In(t, "freeing") => Frees1(t)
          BY <1>1 DEF Bound, MethodOK, In
        <4>2. In(t, "freeing") => Live(q)'
          <5> SUFFICES ASSUME In(t, "freeing") PROVE Live(q)'
            OBVIOUS
          <5>1. Live(q) /\ Frees1(t)  BY <1>3, <4>1
          <5>2. q.at \in Slots  BY <1>2, <5>1, FreesWith
          <5>3. mem'[q.at].object = mem[q.at].object /\ mem'[q.at].id = mem[q.at].id
            <6>1. CASE CheckMagic(t)  BY <6>1 DEF CheckMagic
            <6>2. CASE Exchange(t)  BY <5>2, <6>2, ExchangeCells
            <6>3. CASE Destroy(t)
              <7>1. call' = [call EXCEPT ![t] = NoCall]  BY <6>3 DEF Destroy, Ends
              <7>2. Idle(t)'  BY <7>1, CallsFunction DEF Idle, NoCall
              <7> QED  BY <3>2, <7>2
            <6>4. CASE CheckType(t) \/ Use(t)  BY <6>4 DEF CheckType, Use
            <6> QED  BY <6>1, <6>2, <6>3, <6>4
          <5> QED  BY <5>1, <5>3 DEF Live, Cell
        <4>3. call'[t].due = call[t].due  BY <1>1, <3>2
        <4>4. \A at : In(t, at)' <=> In(t, at)  BY <1>1 DEF In
        <4>5. call[t].due \in {"success", "freed"}  BY <1>1, <2>1, <2>2 DEF Steady
        <4> QED  BY <1>1, <1>2, <2>1, <2>2, <4>2, <4>3, <4>4, <4>5 DEF Steady
      <3> QED  BY <3>1, <3>2
    <2>3. CASE u # t
      <3>1. call'[u] = call[u]  BY <1>1, <2>3
      <3>2. PICK p : p = doing[u].with[1]  OBVIOUS
      <3>3. In(u, "freeing") /\ ~Idle(u) => mem'[p.at].object /\ mem'[p.at].id = mem[p.at].id
        <4> SUFFICES ASSUME In(u, "freeing"), ~Idle(u)
                     PROVE  mem'[p.at].object /\ mem'[p.at].id = mem[p.at].id
          OBVIOUS
        <4>1. Live(p)  BY <2>1, <3>2 DEF Steady
        <4>2. Hold(u)  BY DEF Bound, MethodOK, Releases, In
        <4>3. p \in given /\ wrapper[p.id].owner = u /\ p.at \in Slots  BY <3>2, <4>2 DEF Hold, Bound
        <4>4. ~Frees1(t) \/ p.at # q.at
          <5> SUFFICES ASSUME Frees1(t), p.at = q.at PROVE FALSE
            OBVIOUS
          <5>1. p.id = q.id  BY <1>3, <4>1 DEF Live, Cell
          <5> QED  BY <1>3, <2>3, <4>3, <5>1
        <4> QED  BY <1>4, <4>1, <4>3, <4>4 DEF Live, Cell
      <3>4. PICK x : x = 0  OBVIOUS
      <3>5. \A w \in 1 .. made : wrapper'[w].handle = wrapper[w].handle \/ (w = x /\ wrapper[w].owner # u)
        BY <1>1
      <3> QED  BY <2>1, <3>1, <3>2, <3>3, <3>5, SteadyKeeps
    <2> QED  BY <2>2, <2>3
  <1>7. misuse' \subseteq {"reused", "overwritten"}  BY <1>1 DEF Owned
  <1>8. made' = made  BY <1>1
  <1> QED  BY <1>5, <1>6, <1>7, <1>8 DEF Owned

LEMMA OwnedOverwrite ==
  ASSUME Typed, Bound, Owned, ~shared, NEW s \in Slots, Overwrite(s), UNCHANGED bindings
  PROVE  Owned'
  <1>1. UNCHANGED <<made, wrapper, doing, call>>  BY DEF Overwrite, bindings
  <1>2. ~mem[s].object /\ \A r \in Slots : r # s => mem'[r] = mem[r]  BY OverwriteCells
  <1>3. ASSUME NEW u \in Threads, Uses(u, s) PROVE FALSE
    <2>1. PICK q \in given : q.at = s /\ Live(q)  BY <1>3, LiveUses
    <2> QED  BY <1>2, <2>1 DEF Live, Cell
  <1>4. misuse' = misuse \cup {"overwritten"}  BY <1>3 DEF Overwrite
  <1>5. ASSUME NEW p \in given, Live(p) PROVE mem'[p.at] = mem[p.at] /\ mem[p.at].object
    <2>1. p.at \in Slots /\ mem[p.at].object  BY <1>5 DEF Bound, Live, Cell
    <2> QED  BY <1>2, <2>1
  <1>6. ASSUME NEW w \in 1 .. made PROVE Alive(w)' /\ wrapper'[w].owner \in Threads
    <2>1. PICK o, p : o = wrapper[w] /\ p = o.handle  OBVIOUS
    <2>2. Alive(w) /\ wrapper'[w] = wrapper[w] /\ o.owner \in Threads  BY <1>1, <2>1 DEF Owned
    <2>3. Closes(o.owner, w) => Closes(o.owner, w)'  BY <1>1 DEF Closes, In
    <2>4. w \in Wrappers  BY CApiAssumption DEF Bound, Wrappers
    <2>5. p # Null => p \in given  BY <2>1, <2>4 DEF Bound, WrapperOK
    <2>6. p # Null /\ Live(p) =>
            mem'[p.at].object /\ mem'[p.at].id = mem[p.at].id /\ mem'[p.at].type = mem[p.at].type
      BY <1>5, <2>5
    <2> QED  BY <2>1, <2>2, <2>3, <2>6, AliveKeeps
  <1>7. ASSUME NEW u \in Threads PROVE Steady(u)'
    <2>1. Steady(u) /\ doing'[u] = doing[u] /\ call'[u] = call[u]  BY <1>1 DEF Owned
    <2>2. PICK p : p = doing[u].with[1]  OBVIOUS
    <2>3. In(u, "freeing") /\ ~Idle(u) => mem'[p.at].object /\ mem'[p.at].id = mem[p.at].id
      <3> SUFFICES ASSUME In(u, "freeing"), ~Idle(u)
                   PROVE  mem'[p.at].object /\ mem'[p.at].id = mem[p.at].id
        OBVIOUS
      <3>1. Live(p)  BY <2>1, <2>2 DEF Steady
      <3>2. Hold(u)  BY DEF Bound, MethodOK, Releases, In
      <3>3. p \in given  BY <2>2, <3>2 DEF Hold
      <3> QED  BY <1>5, <3>1, <3>3
    <2>4. PICK x : x = 0  OBVIOUS
    <2>5. \A w \in 1 .. made : wrapper'[w].handle = wrapper[w].handle \/ (w = x /\ wrapper[w].owner # u)
      BY <1>1
    <2> QED  BY <2>1, <2>2, <2>3, <2>5, SteadyKeeps
  <1>8. misuse' \subseteq {"reused", "overwritten"}  BY <1>4 DEF Owned
  <1>9. made' = made  BY <1>1
  <1> QED  BY <1>6, <1>7, <1>8, <1>9 DEF Owned

LEMMA OwnedNext ==
  ASSUME Typed, Single, Bound, Bound', Owned, ~shared, UNCHANGED shared, WrappedNext
  PROVE  Owned'
  <1>1. ASSUME NEW t \in Threads, NEW type \in Types, Wrap(t, type) PROVE Owned'
    <2>1. UNCHANGED doing /\ In(t, "program") /\ Make(t, type) /\ Wrapping(t, type, TRUE)
      BY <1>1 DEF Wrap
    <2>2. doing'[t].at \in {"program", "text"}  BY <2>1 DEF In
    <2> QED  BY <2>1, <2>2, OwnedMake
  <1>2. ASSUME NEW t \in Threads, FindText(t) PROVE Owned'
    <2>1. In(t, "program") /\ Make(t, "signature") /\ Wrapping(t, "signature", FALSE)
      BY <1>2 DEF FindText
    <2>2. PICK n : n = made + 1  OBVIOUS
    <2>3. PICK e : e = [NoMethod EXCEPT !.at = "text", !.on = n]  OBVIOUS
    <2>4. doing' = [doing EXCEPT ![t] = e]  BY <1>2, <2>2, <2>3 DEF FindText
    <2>5. e.at = "text"  BY <2>3 DEF NoMethod
    <2>6. doing'[t] = e /\ \A u \in Threads \ {t} : doing'[u] = doing[u]  BY <2>4 DEF Bound
    <2>7. doing'[t].at \in {"program", "text"}  BY <2>5, <2>6
    <2>8. "signature" \in Types  BY DEF Types
    <2> QED  BY <2>1, <2>6, <2>7, <2>8, OwnedMake
  <1>3. ASSUME NEW t \in Threads, Read(t) \/ Return(t) \/ Text(t) \/ Close(t) PROVE Owned'
    BY <1>3, OwnedRead, OwnedReturn, OwnedText, OwnedClose
  <1>4. ASSUME NEW t \in Threads, Enter(t) \/ EnterFree(t) \/ Freed(t) PROVE Owned'
    BY <1>4, OwnedEnter, OwnedEnterFree, OwnedFreed
  <1>5. ASSUME NEW t \in Threads,
               (CheckType(t) \/ Use(t) \/ CheckMagic(t) \/ Exchange(t) \/ Destroy(t)) /\ UNCHANGED bindings
        PROVE  Owned'
    <2>1. \A s \in Addresses : mem[s].id <= made  BY DEF Single
    <2> QED  BY <1>5, <2>1, OwnedCallStep
  <1>6. ASSUME NEW s \in Slots, Overwrite(s) /\ UNCHANGED bindings PROVE Owned'
    BY <1>6, OwnedOverwrite
  <1> QED  BY <1>1, <1>2, <1>3, <1>4, <1>5, <1>6 DEF WrappedNext

LEMMA OwnedInit == ASSUME BindingsInit PROVE Owned
  <1>1. made = 0 /\ misuse = {} /\ call = [t \in Threads |-> NoCall]  BY DEF BindingsInit, Init
  <1>2. \A t \in Threads : Idle(t)  BY <1>1 DEF Idle, NoCall
  <1>3. \A t \in Threads : doing[t].at = "program"  BY DEF BindingsInit, NoMethod
  <1>4. \A t \in Threads : Steady(t)  BY <1>2, <1>3 DEF Steady, In
  <1> QED  BY <1>1, <1>4 DEF Owned

OInv == client = "wrapped" /\ ~shared => Owned

LEMMA OInvariant == BindingsSpec => []OInv
  <1>1. BindingsInit => OInv  BY OwnedInit DEF OInv
  <1>2. IInv /\ WInv /\ WInv' /\ OInv /\ [BindingsNext]_<<vars, bindings>> => OInv'
    <2> SUFFICES ASSUME IInv, WInv, WInv', OInv, [BindingsNext]_<<vars, bindings>>, client' = "wrapped", ~shared'
                 PROVE  Owned'
      BY DEF OInv
    <2>1. CASE client = "wrapped" /\ WrappedNext
      <3>1. UNCHANGED shared
        BY <2>1 DEF WrappedNext, Wrap, Read, Enter, Return, FindText, Text, Close, EnterFree, Freed, bindings
      <3> QED  BY <2>1, <3>1, OwnedNext DEF OInv, WInv, IInv
    <2>2. CASE client = "c" /\ UNCHANGED bindings  BY <2>2 DEF bindings
    <2>3. CASE UNCHANGED <<vars, bindings>>
      <3>1. UNCHANGED <<mem, misuse, shared, wrapper, doing, made, call, client>>  BY <2>3 DEF vars, bindings
      <3>2. Owned  BY <3>1 DEF OInv
      <3>3. \A w \in 1 .. made : Alive(w)' <=> Alive(w)  BY <3>1 DEF Alive, Closes, In, Live, Cell
      <3>4. \A t \in Threads : Steady(t)' <=> Steady(t)  BY <3>1 DEF Steady, In, Idle, Live, Cell
      <3> QED  BY <3>1, <3>2, <3>3, <3>4 DEF Owned
    <2> QED  BY <2>1, <2>2, <2>3 DEF BindingsNext
  <1> QED  BY <1>1, <1>2, WInvariant, WrappersCall, Invariance, PTL DEF BindingsSpec

\* Wrappers that each belong to one thread keep the rules of the C interface, however
\* many there are and in whatever order they are used and closed.
THEOREM WellBehaved == BindingsSpec => []WrappersBehave
  <1>1. OInv => WrappersBehave  BY DEF OInv, Owned, Steady, WrappersBehave
  <1> QED  BY <1>1, OInvariant, PTL
=============================================================================
