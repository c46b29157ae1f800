------------------------------- MODULE Calls -------------------------------
(***************************************************************************)
(* Calls across the border.  From C++ to Python (nb_call.h): positional    *)
(* arguments, keywords, *args and **kwargs go into one array of references *)
(* and a tuple of names, which obj_vectorcall (external) passes on and     *)
(* releases.  From Python to C++ (nb_func.h): each overload has its casters*)
(* look at all arguments first and only then casts them, which may throw,  *)
(* as the function may, next_overload.                                     *)
(***************************************************************************)
EXTENDS Integers, Sequences, SequencesExt, FiniteSets, Functions

CONSTANTS Names,      \* of keyword arguments
          MaxGiven,   \* bound: arguments as the C++ call writes them
          MaxSpread   \* bound: elements of *args and of **kwargs

\* As written in C++: f(x), f("name"_a = x), f(*xs), f(**d).
Written == {[kind |-> "value"], [kind |-> "none"]}
           \cup {[kind |-> "named", names |-> <<k>>] : k \in Names}
           \cup {[kind |-> "args", len |-> n] : n \in 0 .. MaxSpread}
           \cup {[kind |-> "kwargs", names |-> ks] : ks \in {q \in SeqOf(Names, MaxSpread) : IsInjective(q)}}

\* Parameters: a handle takes any object; a T& reads one and a std::unique_ptr<T>
\* takes one of its type away from Python; a char takes any text, but the cast
\* throws unless it is one character.
Kinds   == {"handle", "reads", "takes", "char"}
PyKinds == {"instance", "text", "character"}

VARIABLES given,      \* outgoing: the arguments as written
          method,     \* base is an attribute: its object is the first argument
          next,       \* the argument call_init is at
          args,       \* the array; slot 0 is before the first argument
          kwnames,    \* names of the keyword arguments
          nargs, nkwargs,    \* counters of call_init
          refs,       \* references that the call has to give back
          received,   \* what the callee gets
          fixed,      \* ghost: *args and **kwargs are as long as they were at first
          passed,     \* incoming: the objects, the overloads' parameters, and which
                      \* of these are of an object's type
          overload,   \* the overload that is tried
          casting,    \* its arguments that are still to be cast
          called,     \* the overload whose function was called
          skipped,    \* overloads that next_overload was thrown from
          taken       \* arguments that have been taken, with the overload that did

callVars == <<given, method, next, args, kwnames, nargs, nkwargs, refs, received,
              fixed, passed, overload, casting, called, skipped, taken>>
outVars == <<given, method, next, args, kwnames, nargs, nkwargs, refs, received, fixed>>
inVars  == <<passed, overload, casting, called, skipped, taken>>

Unset     == <<"unset">>
Null      == <<"null">>
Idle      == <<"idle">>
Raised    == <<"raised">>
Undefined == <<"undefined">>    \* writes beyond the array, or reads what was not written

Init ==
  /\ given = << >> /\ method = FALSE /\ next = 0 /\ args = << >> /\ kwnames = << >>
  /\ nargs = 0 /\ nkwargs = 0 /\ refs = 0 /\ received = Idle /\ fixed = TRUE
  /\ passed = << >> /\ overload = 0 /\ casting = {} /\ called = 0 /\ skipped = {} /\ taken = {}

-----------------------------------------------------------------------------
(* Outgoing *)

\* call_analyze
Positional(a) == CASE a.kind \in {"value", "none"} -> 1
                   [] a.kind = "args" -> a.len
                   [] OTHER -> 0
Keywords(a)   == IF a.kind \in {"named", "kwargs"} THEN Len(a.names) ELSE 0

SlotsNamed(as) == SumFunction([n \in DOMAIN as |-> Keywords(as[n])])
Offset_NotArgs(as) == Cardinality({n \in DOMAIN as : as[n].kind \in {"value", "none"}})
Offset(as) == SumFunction([n \in DOMAIN as |-> Positional(as[n])])

\* Entries of an array that count as references.
Owned(slots) == {s \in DOMAIN slots : slots[s] \notin {Null, Unset}}

Analyze ==
  /\ next = 0 /\ passed = << >>
  /\ given' \in SeqOf(Written, MaxGiven) /\ method' \in BOOLEAN
  /\ next' = 1
  /\ args' = [s \in 1 .. Offset(given') + SlotsNamed(given') + 1 |-> Unset]
  /\ kwnames' = [s \in 1 .. SlotsNamed(given') |-> Unset]
  /\ UNCHANGED <<nargs, nkwargs, refs, received, fixed, inVars>>

\* kwargs_offset, which call_analyze has found
KwargsOffset == Len(args) - 1 - Len(kwnames)

\* args + 1 is what call_init gets: its index i is slot i + 2 of the sequence.
Filled(from, values) ==
  [s \in DOMAIN args |-> IF s - 1 - from \in DOMAIN values THEN values[s - 1 - from] ELSE args[s]]

InitPositional(values) ==
  /\ args' = Filled(nargs, values)
  /\ nargs' = nargs + Len(values)
  /\ refs' = refs + Cardinality(Owned(values))
  /\ UNCHANGED <<kwnames, nkwargs>>

\* A keyword's value comes after all positional ones, its name at the same place
\* of kwnames; PyDict_Next lends key and entry, which are counted up.
InitKeywords(names, values) ==
  /\ args' = Filled(KwargsOffset + nkwargs, values)
  /\ kwnames' = [s \in DOMAIN kwnames |-> IF s - nkwargs \in DOMAIN names
                                          THEN <<"name", names[s - nkwargs]>> ELSE kwnames[s]]
  /\ nkwargs' = nkwargs + Len(names)
  /\ refs' = refs + 2 * Len(names)
  /\ UNCHANGED nargs

\* Whether there is room for so many more.
RoomFor(count)      == nargs + count < Len(args)
RoomForNames(count) == nkwargs + count <= Len(kwnames)

\* The value of element e of the argument at place n.
Value(n, e) == <<"value", n, e>>
ValuesOf(n, count) == [e \in 1 .. count |-> Value(n, e)]

\* Lists and dicts may have changed since call_analyze: casters, len() and the
\* elements of others run Python code.
Found(a) ==
  CASE a.kind = "args"   -> {x \in Written : x.kind = "args"}
    [] a.kind = "kwargs" -> {x \in Written : x.kind = "kwargs"}
    [] OTHER             -> {a}

CallInit ==
  /\ next \in DOMAIN given /\ received = Idle
  /\ \E a \in Found(given[next]) :
       /\ CASE a.kind = "none" -> InitPositional(<<Null>>)    \* its caster failed
            [] a.kind \in {"value", "args"} -> InitPositional(ValuesOf(next, Positional(a)))
            [] OTHER -> InitKeywords(a.names, ValuesOf(next, Keywords(a)))
       /\ received' = IF RoomFor(Positional(a)) /\ RoomForNames(Keywords(a)) THEN Idle ELSE Undefined
       /\ given' = [given EXCEPT ![next] = a]
       /\ fixed' = (fixed /\ Positional(a) = Positional(given[next]) /\ Keywords(a) = Keywords(given[next]))
  /\ next' = next + 1
  /\ UNCHANGED <<method, inVars>>

\* len() of *args raises, or an element after some: the array is left with all
\* that is in it.
SpreadRaises ==
  /\ next \in DOMAIN given /\ received = Idle /\ given[next].kind = "args"
  /\ \E a \in Found(given[next]) :
       /\ InitPositional(ValuesOf(next, a.len))
       /\ received' = IF RoomFor(a.len) THEN Raised ELSE Undefined
       /\ fixed' = (fixed /\ a.len <= given[next].len)
  /\ UNCHANGED <<given, method, next, inVars>>

\* NB_DO_VECTORCALL: self goes into slot 0.  A null among the arguments is an
\* error; otherwise the callee gets the values, the last of them by name.  All
\* references are given back, the arguments' and the names'.
VectorCall ==
  LET self  == IF method THEN <<<<"self">>>> ELSE << >>
      all   == self \o Tail(args)
      count == Len(self) + KwargsOffset
  IN /\ next = Len(given) + 1 /\ received = Idle
     /\ received' =
          CASE Unset \in ToSet(all) \cup ToSet(kwnames) -> Undefined
            [] Null \in ToSet(all) -> <<"error">>
            [] OTHER -> <<"called", SubSeq(all, 1, count),
                          [k \in DOMAIN kwnames |-> <<kwnames[k], all[count + k]>>]>>
     /\ refs' = refs - Cardinality(Owned(args)) - Cardinality(Owned(kwnames))
     /\ UNCHANGED <<given, method, next, args, kwnames, nargs, nkwargs, fixed, inVars>>

-----------------------------------------------------------------------------
(* Incoming: overloads 1 and 2 of a function, of as many arguments.         *)

Param(o, n) == passed.params[o][n]
Arguments   == DOMAIN passed.objects

\* What a caster takes: an object that was taken away is there only for handles.
Accepts(o, n) ==
  CASE Param(o, n) = "handle" -> TRUE
    [] Param(o, n) = "char"   -> passed.objects[n] # "instance"
    [] OTHER -> <<o, n>> \in passed.typed /\ ~\E t \in taken : t.arg = n

\* Parameters that are of an object's type, those of a unique_ptr only of
\* instances'.
Typable(params, objects) ==
  {on \in (1 .. 2) \X DOMAIN objects :
     \/ params[on[1]][on[2]] = "reads"
     \/ params[on[1]][on[2]] = "takes" /\ objects[on[2]] = "instance"}

Receive ==
  /\ next = 0 /\ passed = << >>
  /\ \E arity \in 1 .. 2 :
       \E objects \in [1 .. arity -> PyKinds], params \in [1 .. 2 -> [1 .. arity -> Kinds]] :
         \E typed \in SUBSET Typable(params, objects) :
           passed' = [objects |-> objects, params |-> params, typed |-> typed]
  /\ overload' = 1
  /\ UNCHANGED <<outVars, casting, called, skipped, taken>>

Trying == passed # << >> /\ overload \in 1 .. 2

Takes(o, ns) == {[arg |-> n, by |-> o] : n \in {m \in ns : Param(o, m) = "takes"}}

FromPython_TakesAtOnce(o) ==
  LET loaded == {n \in Arguments : \A m \in 1 .. n : Accepts(o, m)} IN
  IF loaded = Arguments THEN [matches |-> TRUE, taken |-> taken]
  ELSE [matches |-> FALSE, taken |-> taken \cup Takes(o, loaded)]

\* The casters look at one argument after the other until one refuses.
FromPython(o) == [matches |-> \A n \in Arguments : Accepts(o, n), taken |-> taken]

\* NB_NEXT_OVERLOAD
NextOverload ==
  /\ Trying /\ casting = {} /\ called = 0 /\ ~FromPython(overload).matches
  /\ taken' = FromPython(overload).taken
  /\ overload' = overload + 1
  /\ UNCHANGED <<outVars, passed, casting, called, skipped>>

Match ==
  /\ Trying /\ casting = {} /\ called = 0 /\ FromPython(overload).matches
  /\ taken' = FromPython(overload).taken
  /\ casting' = Arguments
  /\ UNCHANGED <<outVars, passed, overload, called, skipped>>

\* next_overload is thrown, and the library tries the next one.
Throw ==
  /\ overload' = overload + 1 /\ casting' = {} /\ called' = 0
  /\ skipped' = skipped \cup {overload}
  /\ UNCHANGED <<outVars, passed, taken>>

\* The casts, in an order that C++ leaves open.
CastArgument(n) ==
  /\ n \in casting
  /\ ~(Param(overload, n) = "char" /\ passed.objects[n] = "text")
  /\ taken' = taken \cup Takes(overload, {n})
  /\ casting' = casting \ {n}
  /\ called' = IF casting' = {} THEN overload ELSE 0
  /\ UNCHANGED <<outVars, passed, overload, skipped>>

\* Arguments that were cast before are destroyed.
CastThrows(n) ==
  /\ n \in casting
  /\ Param(overload, n) = "char" /\ passed.objects[n] = "text"
  /\ Throw

\* The function returns, or skips to the next overload.
Return ==
  /\ Trying /\ called # 0
  /\ overload' = 0
  /\ UNCHANGED <<outVars, passed, casting, called, skipped, taken>>

Skip == Trying /\ called # 0 /\ Throw

Next == \/ Analyze \/ CallInit \/ SpreadRaises \/ VectorCall
        \/ Receive \/ NextOverload \/ Match \/ Return \/ Skip
        \/ \E n \in casting : CastArgument(n) \/ CastThrows(n)
-----------------------------------------------------------------------------
MeantFirst == (IF method THEN <<<<"self">>>> ELSE << >>)
              \o FlattenSeq([n \in DOMAIN given |->
                   IF given[n].kind = "none" THEN <<Null>> ELSE ValuesOf(n, Positional(given[n]))])
MeantNamed == FlattenSeq([n \in DOMAIN given |->
                   [e \in 1 .. Keywords(given[n]) |-> <<<<"name", given[n].names[e]>>, Value(n, e)>>]])

\* nb_call.h:30-133: in whatever order values, names, *args and **kwargs are
\* mixed, the callee gets the positional ones in their order and each name with
\* its own value, no slot of the array is left over or written twice, and every
\* reference taken for the call is given back, also when a value's caster failed;
\* as long as *args and **kwargs keep their length from call_analyze on, and
\* *args raises nothing.
ArgumentsArrive ==
  received # Idle /\ fixed =>
    /\ received # Undefined
    /\ received # Raised =>
         /\ refs = 0
         /\ IF \E n \in DOMAIN given : given[n].kind = "none" THEN received = <<"error">>
            ELSE received = <<"called", MeantFirst, MeantNamed>>

\* nb_func.h:118-131, nb_cast.h:203-207, nb_error.h:47: an argument is taken from
\* Python by one overload only, and by none that refused an argument: it is the
\* one whose function is called, with all that it takes, or one that threw
\* next_overload when it had taken the argument already.
TakenOnlyByMatch ==
  /\ \A t \in taken : t.by \in skipped \cup {overload, called}
  /\ \A t, u \in taken : t.arg = u.arg => t = u
  /\ called # 0 => Takes(called, Arguments) \subseteq taken
=============================================================================
