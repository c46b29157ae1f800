----------------------------- MODULE ObjectRefs -----------------------------
(***************************************************************************)
(* Reference counts as nanobind's C++ side keeps them: the constructors,   *)
(* destructors and assignments of object and its subclasses, of an         *)
(* iterator's current value, of a pyfunc_wrapper and of an ndarray, the    *)
(* raw handles between release and steal, and the accessors of list[i].    *)
(*                                                                         *)
(* When a count falls to 0 the object's finalizer runs: Python code, which *)
(* may call back into C++.  The stack has the objects being finalized, and *)
(* what the interrupted operation has left to do.  Every other operation   *)
(* is one step: nothing foreign runs before its last Py_DECREF.            *)
(***************************************************************************)
EXTENDS Integers, Sequences, FiniteSets

CONSTANTS Objects,    \* C++ variables of class object, and subclasses
          Arrays,     \* C++ variables of class ndarray
          Raws,       \* handles that owe a reference, as release returns them
          Items,      \* elements of a Python list
          Caches,     \* an accessor's cached object, for each element
          Outer,      \* references of Python code
          Plain, Tensors,    \* Python objects, and what ndarray_inc_ref counts
          Null,
          MaxDepth    \* bound: finalizers within finalizers

Vars    == Objects \cup Arrays
Holders == Vars \cup Raws \cup Items \cup Caches \cup Outer
Objs    == Plain \cup Tensors

\* What h may point to.
MayHold(h) == CASE h \in Arrays -> Tensors
                [] h \in Outer  -> Objs
                [] OTHER        -> Plain

VARIABLES ptr,     \* the object each holder points to
          refs,    \* reference counts
          stack    \* finalizers that run, the innermost first

refVars == <<ptr, refs, stack>>

Init ==
  /\ ptr = [h \in Holders |-> Null]
  /\ refs = [o \in Objs |-> 0]
  /\ stack = << >>

-----------------------------------------------------------------------------
\* The variables whose operation waits for a finalizer; the code that runs
\* meanwhile has to leave them alone.
Busy == UNION {stack[i].uses : i \in DOMAIN stack}
Idle(h) == h \notin Busy

Dies(plus, minus) == minus # Null /\ minus # plus /\ refs[minus] = 1

\* Py_INCREF of one object and then Py_DECREF of another; either may be Null.
Counts(plus, minus) ==
  refs' = [o \in Objs |-> refs[o] + (IF o = plus THEN 1 ELSE 0)
                                  - (IF o = minus THEN 1 ELSE 0)]

\* The finalizer of o interrupts an operation that has still to let var have
\* what from has, if there is a from, and to empty from if it moves.
Frame(o, var, from, moves) ==
  [obj |-> o, var |-> var, from |-> from, moves |-> moves,
   uses |-> {var, from} \ {Null}]

\* Py_DECREF is the last thing that happens.
CountsLast(plus, minus) ==
  /\ Counts(plus, minus)
  /\ IF Dies(plus, minus)
     THEN /\ Len(stack) < MaxDepth
          /\ stack' = <<Frame(minus, Null, Null, FALSE)>> \o stack
     ELSE UNCHANGED stack

\* The finalizer is through: the object is freed and the operation goes on.
Rest(var, from, moves) ==
  [h \in Holders |-> IF h = from /\ moves THEN Null
                     ELSE IF h = var THEN (IF from = Null THEN Null ELSE ptr[from])
                     ELSE ptr[h]]

Finalized ==
  /\ stack # << >>
  /\ stack' = Tail(stack)
  /\ ptr' = Rest(Head(stack).var, Head(stack).from, Head(stack).moves)
  /\ UNCHANGED refs

\* Py_DECREF first, then the pointer: the finalizer runs in between.
CountsFirst(plus, var, from, moves) ==
  /\ Counts(plus, ptr[var])
  /\ IF Dies(plus, ptr[var])
     THEN /\ Len(stack) < MaxDepth
          /\ stack' = <<Frame(ptr[var], var, from, moves)>> \o stack
          /\ UNCHANGED ptr
     ELSE ptr' = Rest(var, from, moves) /\ UNCHANGED stack

-----------------------------------------------------------------------------
(* object, and with the interpreter lock pyfunc_wrapper *)

Alike(v, w) == MayHold(v) = MayHold(w)

\* A copy, and borrow(h) of a handle to what w keeps alive.
Copy(v, w) ==
  /\ Idle(v) /\ Idle(w) /\ v # w /\ ptr[v] = Null /\ ptr[w] \in MayHold(v)
  /\ ptr' = [ptr EXCEPT ![v] = ptr[w]]
  /\ Counts(ptr[w], Null)
  /\ UNCHANGED stack

\* The move constructor, release into a raw handle, steal from one.
Move(v, w) ==
  /\ Idle(v) /\ Idle(w) /\ v # w /\ ptr[v] = Null /\ ptr[w] \in MayHold(v)
  /\ ptr' = [ptr EXCEPT ![v] = ptr[w], ![w] = Null]
  /\ UNCHANGED <<refs, stack>>

\* The destructor; a raw handle's dec_ref; Python code that lets go.
Destroy(v) ==
  /\ Idle(v) /\ ptr[v] # Null
  /\ ptr' = [ptr EXCEPT ![v] = Null]
  /\ CountsLast(Null, ptr[v])

\* reset counts down before it forgets the pointer.
Reset(v) ==
  /\ Idle(v) /\ ptr[v] # Null
  /\ CountsFirst(Null, v, Null, FALSE)

CopyAssign_DecFirst(v, w) ==
  /\ Idle(v) /\ Idle(w) /\ Alike(v, w)
  /\ ptr' = [ptr EXCEPT ![v] = ptr[w]]
  /\ Counts(ptr[w], ptr[v])
  /\ IF ptr[v] # Null /\ refs[ptr[v]] = 1
     THEN Len(stack) < MaxDepth /\ stack' = <<Frame(ptr[v], v, w, FALSE)>> \o stack
     ELSE UNCHANGED stack

CopyAssign(v, w) ==
  /\ Idle(v) /\ Idle(w) /\ Alike(v, w)
  /\ ptr' = [ptr EXCEPT ![v] = ptr[w]]
  /\ CountsLast(ptr[w], ptr[v])

\* Moving a variable to itself empties it.
MoveAssign(v, w) ==
  /\ Idle(v) /\ Idle(w) /\ Alike(v, w)
  /\ ptr' = [ptr EXCEPT ![v] = ptr[w], ![w] = Null]
  /\ CountsLast(Null, ptr[v])

\* ndarray: the old array's deleter runs before the new pointer is in place.
CopyArray(v, w) ==
  /\ Idle(v) /\ Idle(w)
  /\ CountsFirst(ptr[w], v, w, FALSE)

MoveArray(v, w) ==
  /\ Idle(v) /\ Idle(w)
  /\ CountsFirst(Null, v, w, TRUE)

\* num_item_list::set, after the accessor has converted the value.
SetItem(i, w) ==
  /\ Idle(w) /\ ptr[i] # Null /\ ptr[w] \in Plain
  /\ ptr' = [ptr EXCEPT ![i] = ptr[w]]
  /\ CountsLast(ptr[w], ptr[i])

\* An API call returns a new object.
New(h, o) ==
  /\ Idle(h) /\ ptr[h] = Null /\ o \in MayHold(h)
  /\ refs[o] = 0 /\ \A i \in DOMAIN stack : stack[i].obj # o
  /\ ptr' = [ptr EXCEPT ![h] = o]
  /\ Counts(o, Null)
  /\ UNCHANGED stack

-----------------------------------------------------------------------------
\* Accessors read an element once and keep it; the others copy from anywhere.
Copies   == \E v, w \in Holders : (v \in Caches => w \in Items) /\ Copy(v, w)
Moves    == \E w \in Vars \cup Raws, v \in Holders \ Caches : Move(v, w)
Destroys == \E v \in Holders : Destroy(v)
Resets   == \E v \in Objects : Reset(v)
\* An iterator's ++ moves the next value, or nothing, from a temporary.
Assigns  == \E v \in Objects : \E w \in Objects : CopyAssign(v, w)
Advances == \E v \in Objects : \E w \in Objects \cup Raws : MoveAssign(v, w)
ArrayAssigns == \E v, w \in Arrays : CopyArray(v, w) \/ MoveArray(v, w)
SetItems == \E i \in Items, w \in Objects \cup Raws : SetItem(i, w)
News     == \E h \in Raws \cup Outer \cup Arrays, o \in Objs : New(h, o)

Next ==
  \/ Copies \/ Moves \/ Destroys \/ Resets \/ Assigns \/ Advances
  \/ ArrayAssigns \/ SetItems \/ News \/ Finalized

Spec == Init /\ [][Next]_refVars
-----------------------------------------------------------------------------
Resetting == {stack[i].var : i \in DOMAIN stack}

\* Who points to o and will give its reference back, and the variables that
\* wait for a finalizer in an assignment that has already counted o up.
Held(o)     == {h \in Holders \ Resetting : ptr[h] = o}
InFlight(o) ==
  {f.var : f \in {stack[i] : i \in {j \in DOMAIN stack :
                    /\ stack[j].from # Null /\ ~stack[j].moves
                    /\ ptr[stack[j].from] = o}}}

\* nb_types.h:210-241, nb_accessor.h:126-136, ndarray.h:265-293,
\* stl/function.h:21-41: through copies, moves, self-assignments, stolen and
\* borrowed handles, and finalizers that call back in the middle of one, a
\* count is exactly the number of references somebody will give back, and an
\* object that is being finalized has none: nothing leaks, nothing is freed
\* that a variable, a list or an accessor points to.
RefsExact ==
  /\ \A o \in Objs : refs[o] = Cardinality(Held(o) \cup InFlight(o))
  /\ \A i \in DOMAIN stack : refs[stack[i].obj] = 0
=============================================================================
