------------------------------ MODULE Bindings ------------------------------
(***************************************************************************)
(* The Java and Python bindings over the C interface: an object of theirs  *)
(* wraps the pointer the C interface handed out, and is closed by its      *)
(* user.  close() looks whether there is a pointer, frees it, and forgets  *)
(* it; every other method reads the pointer, refuses to go on without one  *)
(* and calls the C interface with it.  Nothing is locked, so that a second *)
(* thread may come between any two of these.                               *)
(*                                                                         *)
(* The search for a text makes a signature, uses it once and closes it     *)
(* whatever happens in between.                                            *)
(*                                                                         *)
(* A behaviour is that of a C program, or of one that only uses wrappers,  *)
(* each from the thread that made it or from all threads.  The wrapper of  *)
(* object n is wrapper n.                                                  *)
(***************************************************************************)
EXTENDS CApi

VARIABLES
  client,    \* "c" or "wrapped"
  shared,    \* whether threads use wrappers that others made
  wrapper,   \* the wrappers, by the number of their object
  doing      \* the method each thread is in

bindings == <<client, shared, wrapper, doing>>

Wrappers == 1 .. MaxObjects

\* kept: whether the program has the wrapper, or only the search for a text does.
NoWrapper == [type |-> "none", handle |-> Null, owner |-> "nobody", kept |-> FALSE]

\* on: the wrapper that is closed, or that the search made for its text.  with: the
\* pointers that were read from the wrappers a call is about.
NoMethod == [at |-> "program", on |-> 0, want |-> <<>>, with |-> <<>>]

BindingsInit ==
  /\ Init
  /\ client \in {"c", "wrapped"}
  /\ shared \in BOOLEAN
  /\ client = "c" => ~shared
  /\ wrapper = [w \in Wrappers |-> NoWrapper]
  /\ doing = [t \in Threads |-> NoMethod]

In(t, at) == doing[t].at = at
Go(t, at) == doing' = [doing EXCEPT ![t].at = at]

Usable(t, w) == wrapper[w].kept /\ (shared \/ wrapper[w].owner = t)

Wrapping(t, type, kept) ==
  \E p \in given' \ given :
    wrapper' = [wrapper EXCEPT ![p.id] = [type |-> type, handle |-> p, owner |-> t, kept |-> kept]]

\* The methods that make a wrapper, where the C interface has made an object;
\* else they throw or have nothing to return.
Wrap(t, type) ==
  /\ In(t, "program")
  /\ Make(t, type)
  /\ Wrapping(t, type, TRUE)
  /\ UNCHANGED <<client, shared, doing>>

-----------------------------------------------------------------------------
(* Methods that call the C interface with what they wrap *)

\* The pointers read from wrappers of the classes wanted; without one the method throws.
Handles(t, want) ==
  LET Fit == {w \in [DOMAIN want -> Wrappers] : \A k \in DOMAIN want :
                Usable(t, w[k]) /\ wrapper[w[k]].type = want[k] /\ wrapper[w[k]].handle # Null} IN
  { [k \in DOMAIN want |-> wrapper[w[k]].handle] : w \in Fit }

Read(t) ==
  /\ In(t, "program")
  /\ \E want \in Wanted : \E with \in Handles(t, want) :
       doing' = [doing EXCEPT ![t] = [at |-> "enter", on |-> 0, want |-> want, with |-> with]]
  /\ UNCHANGED <<vars, client, shared, wrapper>>

\* The alignment is one the enumeration has.
Enter(t) ==
  /\ In(t, "enter")
  /\ CallOf(t, doing[t].want, doing[t].with, TRUE)
  /\ Go(t, "inside")
  /\ UNCHANGED <<client, shared, wrapper>>

\* Whatever the call's status: it is returned or thrown, and the block that made a
\* signature for a text closes it.
Return(t) ==
  /\ In(t, "inside") /\ Idle(t)
  /\ IF doing[t].on = 0
     THEN doing' = [doing EXCEPT ![t] = NoMethod]
     ELSE Go(t, "close")
  /\ UNCHANGED <<vars, client, shared, wrapper>>

-----------------------------------------------------------------------------
(* The search for a text *)

FindText(t) ==
  /\ In(t, "program")
  /\ Make(t, "signature")
  /\ Wrapping(t, "signature", FALSE)
  /\ doing' = [doing EXCEPT ![t] = [NoMethod EXCEPT !.at = "text", !.on = made + 1]]
  /\ UNCHANGED <<client, shared>>

\* The signature and, in one function of Python, a module; on is what is closed then.
Search(t, on) ==
  \E more \in {<<>>, <<"module">>} : \E with \in Handles(t, more) :
    doing' = [doing EXCEPT ![t] =
      [at |-> "enter", on |-> on, want |-> <<"signature">> \o more,
       with |-> << wrapper[doing[t].on].handle >> \o with]]

\* Slip: the block is left without closing.
TextLeft(t) ==
  /\ In(t, "text")
  /\ \/ Search(t, 0)
     \/ doing' = [doing EXCEPT ![t] = NoMethod]
  /\ UNCHANGED <<vars, client, shared, wrapper>>

\* The search goes on, or throws: the buffer is not direct, or the module is closed.
Text(t) ==
  /\ In(t, "text")
  /\ Search(t, doing[t].on) \/ Go(t, "close")
  /\ UNCHANGED <<vars, client, shared, wrapper>>

-----------------------------------------------------------------------------
(* close() *)

\* With no pointer left there is nothing to do.
Close(t) ==
  /\ \E w \in Wrappers :
       /\ \/ In(t, "program") /\ Usable(t, w) /\ wrapper[w].handle # Null
          \/ In(t, "close") /\ w = doing[t].on
       /\ doing' = [doing EXCEPT ![t] =
            [at |-> "free", on |-> w, want |-> <<>>, with |-> << wrapper[w].handle >>]]
  /\ UNCHANGED <<vars, client, shared, wrapper>>

EnterFree(t) ==
  /\ In(t, "free")
  /\ FreeOf(t, doing[t].with[1])
  /\ Go(t, "freeing")
  /\ UNCHANGED <<client, shared, wrapper>>

\* Slip: the pointer is not forgotten.
FreedStill(t) ==
  /\ In(t, "freeing") /\ Idle(t)
  /\ doing' = [doing EXCEPT ![t] = NoMethod]
  /\ UNCHANGED <<vars, client, shared, wrapper>>

Freed(t) ==
  /\ In(t, "freeing") /\ Idle(t)
  /\ wrapper' = [wrapper EXCEPT ![doing[t].on].handle = Null]
  /\ doing' = [doing EXCEPT ![t] = NoMethod]
  /\ UNCHANGED <<vars, client, shared>>

-----------------------------------------------------------------------------
WrappedNext ==
  /\ process = "runs"
  /\ \/ \E t \in Threads :
          \/ \E type \in Types : Wrap(t, type)
          \/ Read(t) \/ Enter(t) \/ Return(t)
          \/ FindText(t) \/ Text(t)
          \/ Close(t) \/ EnterFree(t) \/ Freed(t)
          \/ (CheckType(t) \/ Use(t) \/ CheckMagic(t) \/ Exchange(t) \/ Destroy(t)) /\ UNCHANGED bindings
     \/ \E s \in Slots : Overwrite(s) /\ UNCHANGED bindings

BindingsNext ==
  \/ client = "c" /\ Next /\ UNCHANGED bindings
  \/ client = "wrapped" /\ WrappedNext

BindingsSpec == BindingsInit /\ [][BindingsNext]_<<vars, bindings>>

-----------------------------------------------------------------------------
(* Properties *)

\* Wrappers that are each used by one thread at a time keep the rules of the C
\* interface for their user, in whatever order their methods are called: none passes
\* an object that is gone, and each call succeeds or frees.
WrappersBehave ==
  client = "wrapped" /\ ~shared =>
    /\ misuse \subseteq {"reused", "overwritten"}
    /\ \A t \in Threads : ~Idle(t) => call[t].due \in {"success", "freed"}

\* No object is lost: each is held by a wrapper that its user can still close, or that
\* the search that made it will.
NothingLost ==
  client = "wrapped" =>
    \A s \in Slots : mem[s].object =>
      LET w == wrapper[mem[s].id] IN
      /\ w.handle = [at |-> s, id |-> mem[s].id]
      /\ w.kept \/ doing[w.owner].on = mem[s].id
=============================================================================
