--------------------- MODULE AbstractRequestObjectStore ---------------------
(***************************************************************************)
(* What the request object store promises its callers (the OIDC4VP       *)
(* request-object service): a map from fresh ids to request objects with  *)
(* Create, Find and Delete.  Each call takes effect at one instant        *)
(* between its invocation and its return (Linearize), or fails.           *)
(*                                                                         *)
(* Indeterminate selects the contract for failures.  FALSE: a call that   *)
(* returns an error had no effect.  TRUE: a call that returns an error    *)
(* may already have taken effect, or may still take effect later          *)
(* (LateEffect), as a request to a remote database does when the caller   *)
(* gives up waiting.                                                      *)
(***************************************************************************)
EXTENDS Naturals

CONSTANTS
    Clients,        \* goroutines calling the store
    Contents,       \* request object contents
    Ids,            \* document ids the store can hand out
    BadId,          \* an id string that is not a valid ObjectID
    None,           \* no document / no value
    MaxOps,         \* calls per client
    Indeterminate   \* whether a failed call may have an effect

VARIABLES
    docs,       \* id -> content or None
    used,       \* ids handed out to a Create
    phase,      \* per client: "idle", "called" or "linearized"
    aop,        \* per client: the current (or last) call
    res,        \* per client: the result fixed when the call took effect
    ret,        \* per client: what the last call returned
    count,      \* per client: calls made
    pending     \* calls that failed but may still take effect

vars == <<docs, used, phase, aop, res, ret, count, pending>>

Ops == [kind : {"create"}, key : Ids \cup {None}, content : Contents] \cup
       [kind : {"find", "delete"}, key : Ids \cup {BadId}, content : {None}]

NoOp == [kind |-> "none", key |-> None, content |-> None]

Results == {"none", "ok", "error", None} \cup Contents

Returns == [kind : {"none", "error", "not_found", "ok"}, val : {None}] \cup
           [kind : {"created"}, val : Ids] \cup [kind : {"found"}, val : Contents]

Ret(k, v) == [kind |-> k, val |-> v]

(* The effect of a call on the map, and the result it yields. *)
Effect(d, o) ==
    CASE o.kind = "create" -> [d EXCEPT ![o.key] = o.content]
      [] o.kind = "delete" -> [d EXCEPT ![o.key] = None]
      [] OTHER             -> d

Result(d, o) == IF o.kind = "find" THEN d[o.key] ELSE "ok"

(* The value a call returns for the result it took effect with. *)
ReturnOf(o, r) ==
    CASE r = "error"          -> Ret("error", None)
      [] o.kind = "create"    -> Ret("created", o.key)
      [] o.kind = "delete"    -> Ret("ok", None)
      [] r = None             -> Ret("not_found", None)
      [] OTHER                -> Ret("found", r)

TypeOK ==
    /\ docs \in [Ids -> Contents \cup {None}]
    /\ used \subseteq Ids
    /\ phase \in [Clients -> {"idle", "called", "linearized"}]
    /\ aop \in [Clients -> Ops \cup {NoOp}]
    /\ res \in [Clients -> Results]
    /\ ret \in [Clients -> Returns]
    /\ count \in [Clients -> 0..MaxOps]
    /\ pending \subseteq [c : Clients, n : 1..MaxOps, op : Ops]

Init ==
    /\ docs = [i \in Ids |-> None]
    /\ used = {}
    /\ phase = [c \in Clients |-> "idle"]
    /\ aop = [c \in Clients |-> NoOp]
    /\ res = [c \in Clients |-> "none"]
    /\ ret = [c \in Clients |-> Ret("none", None)]
    /\ count = [c \in Clients |-> 0]
    /\ pending = {}

(* A call starts; a Create is given an id never handed out before. *)
Call(c, o) ==
    /\ phase[c] = "idle"
    /\ count[c] < MaxOps
    /\ o.kind = "create" => o.key \in Ids \ used
    /\ used' = IF o.kind = "create" THEN used \cup {o.key} ELSE used
    /\ phase' = [phase EXCEPT ![c] = "called"]
    /\ aop' = [aop EXCEPT ![c] = o]
    /\ res' = [res EXCEPT ![c] = "none"]
    /\ count' = [count EXCEPT ![c] = @ + 1]
    /\ UNCHANGED <<docs, ret, pending>>

(* A call that fails at once, with no effect. *)
Reject(c, o) ==
    /\ phase[c] = "idle"
    /\ count[c] < MaxOps
    /\ aop' = [aop EXCEPT ![c] = o]
    /\ res' = [res EXCEPT ![c] = "none"]
    /\ ret' = [ret EXCEPT ![c] = Ret("error", None)]
    /\ count' = [count EXCEPT ![c] = @ + 1]
    /\ UNCHANGED <<docs, used, phase, pending>>

(* The call takes effect atomically, or fails without effect. *)
Linearize(c) ==
    /\ phase[c] = "called"
    /\ \/ /\ docs' = Effect(docs, aop[c])
          /\ res' = [res EXCEPT ![c] = Result(docs, aop[c])]
       \/ /\ res' = [res EXCEPT ![c] = "error"]
          /\ UNCHANGED docs
    /\ phase' = [phase EXCEPT ![c] = "linearized"]
    /\ UNCHANGED <<used, aop, ret, count, pending>>

(* The call returns what it took effect with.  A Find may still fail
   afterwards (it has no effect); under Indeterminate any call may. *)
Return(c) ==
    /\ phase[c] = "linearized"
    /\ \/ ret' = [ret EXCEPT ![c] = ReturnOf(aop[c], res[c])]
       \/ /\ Indeterminate \/ aop[c].kind = "find"
          /\ ret' = [ret EXCEPT ![c] = Ret("error", None)]
    /\ phase' = [phase EXCEPT ![c] = "idle"]
    /\ UNCHANGED <<docs, used, aop, res, count, pending>>

(* The caller stops waiting before the call took effect. *)
GiveUp(c) ==
    /\ phase[c] = "called"
    /\ ret' = [ret EXCEPT ![c] = Ret("error", None)]
    /\ phase' = [phase EXCEPT ![c] = "idle"]
    /\ pending' = IF Indeterminate
                  THEN pending \cup {[c |-> c, n |-> count[c], op |-> aop[c]]}
                  ELSE pending
    /\ UNCHANGED <<docs, used, aop, res, count>>

(* A call its caller gave up on takes effect, or is dropped. *)
LateEffect(p) ==
    /\ p \in pending
    /\ \/ docs' = Effect(docs, p.op)
       \/ UNCHANGED docs
    /\ pending' = pending \ {p}
    /\ UNCHANGED <<used, phase, aop, res, ret, count>>

Next ==
    \/ \E c \in Clients, o \in Ops : Call(c, o) \/ Reject(c, o)
    \/ \E c \in Clients : Linearize(c) \/ Return(c) \/ GiveUp(c)
    \/ \E p \in pending : LateEffect(p)

Spec == Init /\ [][Next]_vars
=============================================================================
