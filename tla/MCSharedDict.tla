---------------------------- MODULE MCSharedDict ----------------------------
(***************************************************************************)
(* Small instances of SharedDict.  k1 and k2 share a chain; k3 has another *)
(* slot, which with Pool = 2 has the other lock.                           *)
(***************************************************************************)
EXTENDS SharedDict

CONSTANTS p1, p2, p3, k1, k2, k3, NoKey, NoVal

TwoLocks  == [k \in Keys |-> IF k = k3 THEN 1 ELSE 0]

\* A number fits in one block, the text of these instances needs two.
Blocks == [type \in {"int", "float", "text"} |-> IF type = "text" THEN 2 ELSE 1]

Whole(n)  == [type |-> "int", n |-> n]
Double(n) == [type |-> "float", n |-> n]
Text      == [type |-> "text", n |-> 0]

On(kind, keys) == {[kind |-> kind, key |-> k, val |-> NoVal] : k \in keys}
Put(kind, keys, vals) == {[kind |-> kind, key |-> k, val |-> v] : k \in keys, v \in vals}
Plain(kinds) == {[kind |-> c, key |-> NoKey, val |-> NoVal] : c \in kinds}

\* Increment, Decrement and AtomicAdd with a delta of 1.
Increment == Whole(1)
Decrement == Whole(Modulus - 1)

LinearCalls ==
  Put("Set", {k1}, {Whole(3), Text}) \cup Put("Set", {k2}, {Whole(0)})
  \cup Put("Add", {k1}, {Increment, Double(1)}) \cup Put("Add", {k3}, {Decrement})
  \cup On("Get", {k1, k3}) \cup On("Delete", {k1, k3})
  \cup Plain({"Keys", "Wait"})

DeleterCalls ==
  Put("Set", {k1, k3}, {Whole(3)}) \cup Put("Add", {k1}, {Increment})
  \cup On("Delete", {k1, k3})

ClearCalls ==
  Put("Set", {k1}, {Whole(3)}) \cup On("Get", {k1}) \cup Plain({"Clear"})

ProgressCalls ==
  Put("Set", {k1}, {Text}) \cup Put("Add", {k3}, {Increment})
  \cup On("Get", {k3}) \cup On("Has", {k1}) \cup On("Delete", {k1})
  \cup Plain({"Keys", "Clear", "Size", "Status", "Alloc", "Free", "Wait"})
=============================================================================
