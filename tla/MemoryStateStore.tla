-------------------------- MODULE MemoryStateStore --------------------------
(***************************************************************************)
(* memoryStateStore, the in-memory StateStore of the end-to-end test: a   *)
(* Go map guarded by a sync.RWMutex.  GetAuthorizeState takes the read    *)
(* lock; SaveAuthorizeState also takes the read lock, not the write lock, *)
(* before it assigns into the map.  Each process is one HTTP handler      *)
(* calling the store once: Authorize saves, Redirect gets.               *)
(***************************************************************************)
EXTENDS Naturals

CONSTANTS
    Procs,      \* concurrent handler goroutines
    Keys,       \* op_states
    Values,     \* AuthorizeState pointers
    NotFound    \* GetAuthorizeState's "key not found" error

VARIABLES
    kv,         \* the map s.kv
    readers,    \* goroutines holding s.mu's read lock
    pc,         \* where each goroutine is in its call
    op,         \* the call each goroutine makes
    result,     \* what each GetAuthorizeState returned
    fatal       \* the runtime aborted the process on a concurrent map access

vars == <<kv, readers, pc, op, result, fatal>>

Calls == [kind : {"get"}, key : Keys] \cup
         [kind : {"save"}, key : Keys, val : Values]

TypeOK ==
    /\ kv \in [Keys -> Values \cup {NotFound}]
    /\ readers \subseteq Procs
    /\ pc \in [Procs -> {"idle", "lock", "critical", "unlock", "done"}]
    /\ op \in [Procs -> Calls \cup {NotFound}]
    /\ result \in [Procs -> Values \cup {NotFound}]
    /\ fatal \in BOOLEAN

Init ==
    /\ kv = [k \in Keys |-> NotFound]
    /\ readers = {}
    /\ pc = [p \in Procs |-> "idle"]
    /\ op = [p \in Procs |-> NotFound]
    /\ result = [p \in Procs |-> NotFound]
    /\ fatal = FALSE

(* A handler calls GetAuthorizeState(k) or SaveAuthorizeState(k, v). *)
Call(p) ==
    /\ pc[p] = "idle"
    /\ \E c \in Calls : op' = [op EXCEPT ![p] = c]
    /\ pc' = [pc EXCEPT ![p] = "lock"]
    /\ UNCHANGED <<kv, readers, result, fatal>>

(* s.mu.RLock(), taken by both methods.  No method takes s.mu.Lock(), so
   the read lock is never refused. *)
RLock(p) ==
    /\ pc[p] = "lock"
    /\ readers' = readers \cup {p}
    /\ pc' = [pc EXCEPT ![p] = "critical"]
    /\ UNCHANGED <<kv, op, result, fatal>>

(* p's map access overlaps another goroutine's access to s.kv and one of
   them is a write: a data race.  The runtime's map may notice it and throw
   "concurrent map writes" or "concurrent map read and map write", which
   ends the process, or the access may complete as if alone. *)
Racing(p) ==
    \E q \in Procs \ {p} :
        pc[q] = "critical" /\ "save" \in {op[p].kind, op[q].kind}

MapThrows(p) ==
    /\ Racing(p)
    /\ fatal' = TRUE
    /\ UNCHANGED <<kv, readers, pc, op, result>>

(* GetAuthorizeState: v, ok := s.kv[opState]; a missing key is an error. *)
GetRead(p) ==
    /\ pc[p] = "critical"
    /\ op[p].kind = "get"
    /\ \/ /\ result' = [result EXCEPT ![p] = kv[op[p].key]]
          /\ pc' = [pc EXCEPT ![p] = "unlock"]
          /\ UNCHANGED <<kv, readers, op, fatal>>
       \/ MapThrows(p)

(* SaveAuthorizeState: s.kv[opState] = state, under the read lock. *)
SaveWrite(p) ==
    /\ pc[p] = "critical"
    /\ op[p].kind = "save"
    /\ \/ /\ kv' = [kv EXCEPT ![op[p].key] = op[p].val]
          /\ pc' = [pc EXCEPT ![p] = "unlock"]
          /\ UNCHANGED <<readers, op, result, fatal>>
       \/ MapThrows(p)

(* The deferred s.mu.RUnlock(). *)
RUnlock(p) ==
    /\ pc[p] = "unlock"
    /\ readers' = readers \ {p}
    /\ pc' = [pc EXCEPT ![p] = "done"]
    /\ UNCHANGED <<kv, op, result, fatal>>

(* A thrown fatal error ends every goroutine. *)
Next == ~fatal /\ \E p \in Procs :
            \/ Call(p) \/ RLock(p) \/ GetRead(p) \/ SaveWrite(p) \/ RUnlock(p)

Spec == Init /\ [][Next]_vars

(* A Go map may not be written while another goroutine reads or writes it
   (the runtime aborts with "concurrent map writes" or corrupts the map):
   while one goroutine is in SaveAuthorizeState's map assignment, no other
   goroutine is inside either method's critical section. *)
MapAccessExclusive ==
    \A p, q \in Procs :
        (p # q /\ pc[p] = "critical" /\ op[p].kind = "save") => pc[q] # "critical"
=============================================================================
