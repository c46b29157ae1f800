------------------------------- MODULE KVMap -------------------------------
(***************************************************************************)
(* What the shared dictionary promises its processes: every call on a key, *)
(* Keys and Clear takes effect at one instant between its invocation and   *)
(* its return.  A write may fail for want of memory; the key it was to     *)
(* write is then absent.                                                   *)
(***************************************************************************)
EXTENDS Integers

CONSTANTS Procs, Keys,
          Calls,     \* the calls on the map: records of a kind, a key, a value
          Modulus,   \* the counters wrap around
          Absent, NoOp, NoRet, OOM

VARIABLES map,   \* the value of each key
          op,    \* the call each process is in
          ret    \* its result, NoRet until the call has taken effect

vars == <<map, op, ret>>

Init ==
  /\ map = [k \in Keys |-> Absent]
  /\ op = [p \in Procs |-> NoOp]
  /\ ret = [p \in Procs |-> NoRet]

Invoke(p) ==
  /\ op[p] = NoOp
  /\ \E c \in Calls : op' = [op EXCEPT ![p] = c]
  /\ UNCHANGED <<map, ret>>

\* Adding d to v: a value of another type counts as 0.
Plus(v, d) ==
  [type |-> d.type,
   n |-> (d.n + (IF v # Absent /\ v.type = d.type THEN v.n ELSE 0)) % Modulus]

Becomes(k, v) == map' = [map EXCEPT ![k] = v]

Write(p, v) ==
  \/ Becomes(op[p].key, v) /\ ret' = [ret EXCEPT ![p] = v]
  \/ Becomes(op[p].key, Absent) /\ ret' = [ret EXCEPT ![p] = OOM]

Present == {k \in Keys : map[k] # Absent}

\* The instant at which the call of p takes effect.
Apply(p) ==
  LET c == op[p] IN
  /\ c # NoOp
  /\ ret[p] = NoRet
  /\ \/ c.kind = "Set" /\ Write(p, c.val)
     \/ c.kind = "Add" /\ Write(p, Plus(map[c.key], c.val))
     \/ /\ c.kind = "Get"
        /\ ret' = [ret EXCEPT ![p] = map[c.key]] /\ UNCHANGED map
     \/ /\ c.kind = "Has"
        /\ ret' = [ret EXCEPT ![p] = c.key \in Present] /\ UNCHANGED map
     \/ /\ c.kind = "Delete"
        /\ ret' = [ret EXCEPT ![p] = c.key \in Present] /\ Becomes(c.key, Absent)
     \/ /\ c.kind = "Keys"
        /\ ret' = [ret EXCEPT ![p] = Present] /\ UNCHANGED map
     \/ /\ c.kind = "Clear"
        /\ ret' = [ret EXCEPT ![p] = {}] /\ map' = [k \in Keys |-> Absent]
  /\ UNCHANGED op

Return(p) ==
  /\ ret[p] # NoRet
  /\ op' = [op EXCEPT ![p] = NoOp]
  /\ ret' = [ret EXCEPT ![p] = NoRet]
  /\ UNCHANGED map

Next == \E p \in Procs : Invoke(p) \/ Apply(p) \/ Return(p)

Spec == Init /\ [][Next]_vars
=============================================================================
