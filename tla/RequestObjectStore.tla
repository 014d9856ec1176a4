------------------------- MODULE RequestObjectStore -------------------------
(***************************************************************************)
(* requestobjectstore.Store: Create, Find and Delete on the MongoDB       *)
(* collection request_object_store_tx.  Each call runs in the caller's    *)
(* goroutine under ContextWithTimeout; the driver sends one request to    *)
(* the server, which applies it when it gets to it.  A caller whose       *)
(* deadline passes returns an error, but its request stays with the      *)
(* server and may still be applied: net holds the requests the server has *)
(* not yet applied, including those nobody waits for any more.            *)
(***************************************************************************)
EXTENDS Naturals

CONSTANTS
    Clients,            \* goroutines calling the store
    Contents,           \* request object contents
    MaxIds,             \* ObjectIDs the driver generates in a run
    BadId,              \* an id string ObjectIDFromHex rejects
    None,               \* no document / no value
    MaxOps,             \* calls per client
    ContextTimeouts     \* whether a call's deadline can pass

VARIABLES
    db,         \* the collection: ObjectID -> content or None
    nextId,     \* the next ObjectID the driver generates
    cl,         \* per client: pc, op, reply, ret, n (calls made)
    net         \* requests sent and not yet applied by the server

vars == <<db, nextId, cl, net>>

ObjectIds == 1..MaxIds

Ops == [kind : {"create"}, key : ObjectIds \cup {None}, content : Contents] \cup
       [kind : {"find", "delete"}, key : ObjectIds \cup {BadId}, content : {None}]

NoOp == [kind |-> "none", key |-> None, content |-> None]

Ret(k, v) == [kind |-> k, val |-> v]

Request == [c : Clients, n : 1..MaxOps, op : Ops]

(* A request is live while its caller still waits for it. *)
Live(r) == cl[r.c].pc = "waiting" /\ cl[r.c].n = r.n

Orphans == {r \in net : ~Live(r)}

TypeOK ==
    /\ db \in [ObjectIds -> Contents \cup {None}]
    /\ nextId \in 1..(MaxIds + 1)
    /\ cl \in [Clients -> [pc : {"idle", "waiting", "replied"},
                           op : Ops \cup {NoOp},
                           reply : {"none", "ok", "error", None} \cup Contents,
                           ret : [kind : {"none", "error", "not_found", "ok",
                                          "created", "found"},
                                  val : ObjectIds \cup Contents \cup {None}],
                           n : 0..MaxOps]]
    /\ net \subseteq Request

Init ==
    /\ db = [i \in ObjectIds |-> None]
    /\ nextId = 1
    /\ cl = [c \in Clients |-> [pc |-> "idle", op |-> NoOp, reply |-> "none",
                                ret |-> Ret("none", None), n |-> 0]]
    /\ net = {}

(* The driver sends the operation and the caller blocks on the reply. *)
Send(c, o) ==
    /\ cl' = [cl EXCEPT ![c].pc = "waiting", ![c].op = o, ![c].reply = "none",
                        ![c].n = @ + 1]
    /\ net' = net \cup {[c |-> c, n |-> cl[c].n + 1, op |-> o]}

(* The call returns an error before anything is sent. *)
FailEarly(c, o) ==
    /\ cl' = [cl EXCEPT ![c].op = o, ![c].reply = "none",
                        ![c].ret = Ret("error", None), ![c].n = @ + 1]
    /\ UNCHANGED net

(* Create: StructureToMap of the event may fail; otherwise InsertOne of a
   document whose zero _id is omitted, so the driver generates one. *)
Create(c, x) ==
    /\ cl[c].pc = "idle"
    /\ cl[c].n < MaxOps
    /\ \/ /\ FailEarly(c, [kind |-> "create", key |-> None, content |-> x])
          /\ UNCHANGED nextId
       \/ /\ nextId <= MaxIds
          /\ Send(c, [kind |-> "create", key |-> nextId, content |-> x])
          /\ nextId' = nextId + 1
    /\ UNCHANGED db

(* Find and Delete parse the id with ObjectIDFromHex first. *)
Find(c, k) ==
    /\ cl[c].pc = "idle"
    /\ cl[c].n < MaxOps
    /\ IF k = BadId THEN FailEarly(c, [kind |-> "find", key |-> k, content |-> None])
                    ELSE Send(c, [kind |-> "find", key |-> k, content |-> None])
    /\ UNCHANGED <<db, nextId>>

Delete(c, k) ==
    /\ cl[c].pc = "idle"
    /\ cl[c].n < MaxOps
    /\ IF k = BadId THEN FailEarly(c, [kind |-> "delete", key |-> k, content |-> None])
                    ELSE Send(c, [kind |-> "delete", key |-> k, content |-> None])
    /\ UNCHANGED <<db, nextId>>

(* The server's handling of InsertOne, FindOne({_id: key}) and
   DeleteOne({_id: key}): the new collection and the reply. *)
Apply(d, o) ==
    CASE o.kind = "create" -> [d EXCEPT ![o.key] = o.content]
      [] o.kind = "delete" -> [d EXCEPT ![o.key] = None]
      [] OTHER             -> d

Reply(d, o) == IF o.kind = "find" THEN d[o.key] ELSE "ok"

(* Mutant: FindOne with an empty filter answers with any document. *)
ServerApplyAnyDocument(r) ==
    /\ r \in net
    /\ \E d \in {Apply(db, r.op)}, a \in {Reply(db, r.op)} \cup
            (IF r.op.kind = "find" THEN {db[i] : i \in ObjectIds} ELSE {}) :
        /\ db' = d
        /\ cl' = IF Live(r) THEN [cl EXCEPT ![r.c].pc = "replied", ![r.c].reply = a]
                            ELSE cl
    /\ net' = net \ {r}
    /\ UNCHANGED nextId

(* The server applies a request, or answers it with an error and leaves
   the collection alone.  The reply reaches the caller only if it still
   waits; a request whose caller gave up is applied all the same. *)
ServerApply(r) ==
    /\ r \in net
    /\ \E <<d, a>> \in {<<Apply(db, r.op), Reply(db, r.op)>>, <<db, "error">>} :
        /\ db' = d
        /\ cl' = IF Live(r) THEN [cl EXCEPT ![r.c].pc = "replied", ![r.c].reply = a]
                            ELSE cl
    /\ net' = net \ {r}
    /\ UNCHANGED nextId

(* The caller turns the reply into its return value: the inserted id's
   hex, ErrDataNotFound for ErrNoDocuments, "tx find failed", and the
   event's MapToStructure, which may fail on a found document. *)
Receive(c) ==
    LET o == cl[c].op
        a == cl[c].reply
        rv == CASE a = "error"       -> Ret("error", None)
                [] o.kind = "create" -> Ret("created", o.key)
                [] o.kind = "delete" -> Ret("ok", None)
                [] a = None          -> Ret("not_found", None)
                [] OTHER             -> Ret("found", a)
    IN /\ cl[c].pc = "replied"
       /\ \/ cl' = [cl EXCEPT ![c].pc = "idle", ![c].ret = rv]
          \/ /\ o.kind = "find" /\ a \in Contents
             /\ cl' = [cl EXCEPT ![c].pc = "idle", ![c].ret = Ret("error", None)]
       /\ UNCHANGED <<db, nextId, net>>

(* Mutant: Find runs without a deadline (context.Background()). *)
ClientTimeoutExceptFind(c) ==
    /\ ContextTimeouts
    /\ cl[c].op.kind # "find"
    /\ cl[c].pc \in {"waiting", "replied"}
    /\ cl' = [cl EXCEPT ![c].pc = "idle", ![c].ret = Ret("error", None)]
    /\ UNCHANGED <<db, nextId, net>>

(* ctxWithTimeout expires before the reply is read: the call returns the
   deadline error.  An unapplied request stays in net. *)
ClientTimeout(c) ==
    /\ ContextTimeouts
    /\ cl[c].pc \in {"waiting", "replied"}
    /\ cl' = [cl EXCEPT ![c].pc = "idle", ![c].ret = Ret("error", None)]
    /\ UNCHANGED <<db, nextId, net>>

Next ==
    \/ \E c \in Clients :
        \/ \E x \in Contents : Create(c, x)
        \/ \E k \in ObjectIds \cup {BadId} : Find(c, k) \/ Delete(c, k)
        \/ Receive(c) \/ ClientTimeout(c)
    \/ \E r \in net : ServerApply(r)

(* The deadline bounds every call; the server gets no fairness. *)
Fairness == \A c \in Clients : WF_vars(ClientTimeout(c)) /\ WF_vars(Receive(c))

Spec == Init /\ [][Next]_vars /\ Fairness

-----------------------------------------------------------------------------
Phase(pc) == CASE pc = "idle" -> "idle" [] pc = "waiting" -> "called"
                  [] OTHER -> "linearized"

(* The store seen through its contract: a request takes effect when the
   server applies it; a request whose caller gave up is pending. *)
Indet == INSTANCE AbstractRequestObjectStore WITH
    Ids <- ObjectIds,
    Indeterminate <- TRUE,
    docs <- db,
    used <- {i \in ObjectIds : i < nextId},
    phase <- [c \in Clients |-> Phase(cl[c].pc)],
    aop <- [c \in Clients |-> cl[c].op],
    res <- [c \in Clients |-> cl[c].reply],
    ret <- [c \in Clients |-> cl[c].ret],
    count <- [c \in Clients |-> cl[c].n],
    pending <- {[c |-> r.c, n |-> r.n, op |-> r.op] : r \in Orphans}

(* The same view, under the contract that an error means no effect. *)
Atomic == INSTANCE AbstractRequestObjectStore WITH
    Ids <- ObjectIds,
    Indeterminate <- FALSE,
    docs <- db,
    used <- {i \in ObjectIds : i < nextId},
    phase <- [c \in Clients |-> Phase(cl[c].pc)],
    aop <- [c \in Clients |-> cl[c].op],
    res <- [c \in Clients |-> cl[c].reply],
    ret <- [c \in Clients |-> cl[c].ret],
    count <- [c \in Clients |-> cl[c].n],
    pending <- {[c |-> r.c, n |-> r.n, op |-> r.op] : r \in Orphans}

(* Create, Find and Delete implement a map of fresh ids under the contract
   that a call returning an error may have taken effect, now or later:
   a Find returns the document stored under its id when it is applied, a
   Create returns the id it inserted, and nothing changes the collection
   except a call that was made. *)
IndeterminateContract == Indet!Spec

(* Callers may take an error from Create or Delete to mean that nothing
   was stored or deleted: the atomic contract. *)
AtomicContract == Atomic!Spec

(* Every call returns, whether or not the server ever answers: the
   ContextWithTimeout each method takes bounds it. *)
CallsReturn == \A c \in Clients : cl[c].pc # "idle" ~> cl[c].pc = "idle"
=============================================================================
