----------------------------- MODULE EventStore -----------------------------
(***************************************************************************)
(* The event store: several Store objects, each with a SQLite connection   *)
(* and a mutex of its own, on one database.  A call takes the mutex of its *)
(* store, begins an immediate transaction, works statement by statement on *)
(* the image of the table that the transaction sees, and commits it, or    *)
(* throws and has it rolled back on the way out.                           *)
(*                                                                         *)
(* A table is a function from row_position to the event of the row.  The   *)
(* rows behind an insertion or an erasure cannot be renumbered in place,   *)
(* the position being the primary key: they are staged at negative         *)
(* positions first.  A position is a 64 bit integer, and MaxPosition the   *)
(* largest one.                                                            *)
(*                                                                         *)
(* SQLite is modelled from the way it is used: BEGIN IMMEDIATE is granted  *)
(* to one connection at a time, readers see the committed table, a commit  *)
(* is atomic, and every statement may fail.                                *)
(***************************************************************************)
EXTENDS Integers

CONSTANTS Callers,       (* the threads that call the store                 *)
          Stores,        (* the open Store objects                          *)
          StoreOf,       (* StoreOf[c]: the one that c calls                *)
          Events,        (* the events that can be stored                   *)
          SessionOf,     (* SessionOf[e]: the Session_ID of e               *)
          AllSessions,   (* the argument of a query for every session       *)
          Requests,      (* Requests[c]: the calls that c makes             *)
          Initial,       (* the table the database holds at first           *)
          MaxPosition,   (* the largest int64                               *)
          NoCaller, NoStore, NoRequest

Operations == {"append", "insert_after", "erase", "query"}

Positions == (-MaxPosition - 1)..MaxPosition

(* The tables whose positions start at zero and have no gap.               *)
Lists == UNION {[0..(n - 1) -> Events] : n \in 0..(MaxPosition + 1)}

ASSUME StoreAssumption ==
    /\ MaxPosition \in Nat
    /\ StoreOf \in [Callers -> Stores]
    /\ Initial \in Lists
    /\ NoCaller \notin Callers
    /\ NoStore \notin Stores
    /\ \A c \in Callers : NoRequest \notin Requests[c]
    /\ \A c \in Callers : \A r \in Requests[c] :
          /\ r = [op |-> r.op, position |-> r.position, event |-> r.event,
                  session |-> r.session]
          /\ r.op \in Operations
          /\ r.position \in Positions
          /\ r.event \in Events

VARIABLES
    rows,      (* the committed table                                       *)
    image,     (* the table in the open transaction, rows if there is none  *)
    writer,    (* the store whose transaction is open                       *)
    mutex,     (* mutex[s]: the caller that holds the mutex of s            *)
    pc,        (* pc[c]: where the caller is                                *)
    request,   (* request[c]: the call it makes                             *)
    reply,     (* reply[c]: the value that it will return if it commits     *)
    answer     (* answer[c]: the outcome, once it is decided                *)

vars == <<rows, image, writer, mutex, pc, request, reply, answer>>

Log == INSTANCE EventLog WITH log <- rows

NoAnswer == Log!NoAnswer
Throws   == Log!Answer("throws")

Init == /\ rows = Initial
        /\ image = Initial
        /\ writer = NoStore
        /\ mutex = [s \in Stores |-> NoCaller]
        /\ pc = [c \in Callers |-> "idle"]
        /\ request = [c \in Callers |-> NoRequest]
        /\ reply = [c \in Callers |-> NoAnswer]
        /\ answer = [c \in Callers |-> NoAnswer]

-----------------------------------------------------------------------------
(* Statements.                                                             *)

LastPosition(table) ==
    IF DOMAIN table = {} THEN -1
    ELSE CHOOSE p \in DOMAIN table : \A q \in DOMAIN table : q <= p

(* UPDATE events SET row_position = -row_position - k, for the rows moved. *)
Renumbered(table, moved, k) ==
    [p \in (DOMAIN table \ moved) \cup {-q - k : q \in moved} |->
        IF -p - k \in moved THEN table[-p - k] ELSE table[p]]

(* It may be carried out one row after the other only if no row moves to a *)
(* position that is taken, and -row_position must be an int64.             *)
Clash(table, moved, k) == \E q \in moved : -q - k \in DOMAIN table
TooLarge(moved)        == \E q \in moved : -q > MaxPosition

Behind(table, position) == {p \in DOMAIN table : p > position}
Staged(table)           == {p \in DOMAIN table : p < 0}

Without(table, position) == [p \in DOMAIN table \ {position} |-> table[p]]

With(table, position, event) ==
    [p \in DOMAIN table \cup {position} |-> IF p = position THEN event ELSE table[p]]

(* Where a call goes on.                                                   *)
Goto(c, label) == pc' = [pc EXCEPT ![c] = label]

(* A statement throws; what the transaction did is to be rolled back.      *)
Unwind(c, a) ==
    /\ answer' = [answer EXCEPT ![c] = a]
    /\ Goto(c, "unwinding")
    /\ UNCHANGED <<rows, image, writer, mutex, request, reply>>

-----------------------------------------------------------------------------
(* The calls.                                                              *)

Call(c) ==
    /\ pc[c] = "idle"
    /\ \E r \in Requests[c] : request' = [request EXCEPT ![c] = r]
    /\ Goto(c, "locking")
    /\ UNCHANGED <<rows, image, writer, mutex, reply, answer>>

Lock(c) ==
    /\ pc[c] = "locking"
    /\ mutex[StoreOf[c]] = NoCaller
    /\ mutex' = [mutex EXCEPT ![StoreOf[c]] = c]
    /\ Goto(c, IF request[c].op = "query" THEN "querying" ELSE "beginning")
    /\ UNCHANGED <<rows, image, writer, request, reply, answer>>

(* insert_after of the largest position is refused before it begins.       *)
Overflows(r) == r.op = "insert_after" /\ r.position = MaxPosition

FirstStatement(r) == IF r.op = "append" THEN "reading"
                     ELSE IF r.op = "insert_after" THEN "looking" ELSE "deleting"

(* BEGIN IMMEDIATE.                                                        *)
Begin(c) ==
    /\ pc[c] = "beginning"
    /\ ~Overflows(request[c])
    /\ writer = NoStore
    /\ writer' = StoreOf[c]
    /\ Goto(c, FirstStatement(request[c]))
    /\ UNCHANGED <<rows, image, mutex, request, reply, answer>>

(* The position is too large, the database stays busy for five seconds, or *)
(* the storage fails.  There is no transaction to roll back.               *)
NotBegun(c) ==
    /\ pc[c] \in {"beginning", "querying"}
    /\ answer' = [answer EXCEPT ![c] = Throws]
    /\ Goto(c, "leaving")
    /\ UNCHANGED <<rows, image, writer, mutex, request, reply>>

ReadLast(c) ==
    /\ pc[c] = "reading"
    /\ IF LastPosition(image) = MaxPosition
       THEN Unwind(c, Throws)
       ELSE /\ reply' = [reply EXCEPT ![c] = Log!Position(LastPosition(image) + 1)]
            /\ Goto(c, "inserting")
            /\ UNCHANGED <<rows, image, writer, mutex, request, answer>>

Look(c) ==
    /\ pc[c] = "looking"
    /\ IF request[c].position \in DOMAIN image
       THEN /\ reply' = [reply EXCEPT ![c] = Log!Position(request[c].position + 1)]
            /\ Goto(c, "staging")
            /\ UNCHANGED <<rows, image, writer, mutex, request, answer>>
       ELSE Unwind(c, Log!Answer("out_of_range"))

Delete(c) ==
    /\ pc[c] = "deleting"
    /\ IF request[c].position \in DOMAIN image
       THEN /\ image' = Without(image, request[c].position)
            /\ reply' = [reply EXCEPT ![c] = Log!Answer("removed")]
            /\ Goto(c, "staging")
       ELSE /\ reply' = [reply EXCEPT ![c] = Log!Answer("missing")]
            /\ Goto(c, "committing")
            /\ UNCHANGED image
    /\ UNCHANGED <<rows, writer, mutex, request, answer>>

(* Mutant: the row at the position is staged too.                          *)
StageFrom(c) ==
    LET moved == Behind(image, request[c].position - 1) IN
    /\ pc[c] = "staging"
    /\ IF Clash(image, moved, 1)
       THEN Unwind(c, Log!Answer("constraint"))
       ELSE /\ image' = Renumbered(image, moved, 1)
            /\ Goto(c, "restoring")
            /\ UNCHANGED <<rows, writer, mutex, request, reply, answer>>

Stage(c) ==
    LET moved == Behind(image, request[c].position) IN
    /\ pc[c] = "staging"
    /\ IF Clash(image, moved, 1)
       THEN Unwind(c, Log!Answer("constraint"))
       ELSE /\ image' = Renumbered(image, moved, 1)
            /\ Goto(c, "restoring")
            /\ UNCHANGED <<rows, writer, mutex, request, reply, answer>>

(* Mutant: the erasure brings its rows back where they were.               *)
ShiftForgotten(r) == IF r.op = "insert_after" THEN 0 ELSE 1

(* The rows come back one further, for an insertion, or one nearer.        *)
Shift(r) == IF r.op = "insert_after" THEN 0 ELSE 2

Restore(c) ==
    LET moved == Staged(image)
        k     == Shift(request[c])
    IN
    /\ pc[c] = "restoring"
    /\ IF TooLarge(moved) THEN Unwind(c, Throws)
       ELSE IF Clash(image, moved, k) THEN Unwind(c, Log!Answer("constraint"))
       ELSE /\ image' = Renumbered(image, moved, k)
            /\ Goto(c, IF request[c].op = "insert_after" THEN "inserting" ELSE "committing")
            /\ UNCHANGED <<rows, writer, mutex, request, reply, answer>>

Insert(c) ==
    /\ pc[c] = "inserting"
    /\ IF reply[c].position \in DOMAIN image
       THEN Unwind(c, Log!Answer("constraint"))
       ELSE /\ image' = With(image, reply[c].position, request[c].event)
            /\ Goto(c, "committing")
            /\ UNCHANGED <<rows, writer, mutex, request, reply, answer>>

Commit(c) ==
    /\ pc[c] = "committing"
    /\ rows' = image
    /\ writer' = NoStore
    /\ answer' = [answer EXCEPT ![c] = reply[c]]
    /\ Goto(c, "leaving")
    /\ UNCHANGED <<image, mutex, request, reply>>

InTransaction == {"reading", "looking", "deleting", "staging", "restoring",
                  "inserting", "committing"}

(* A statement or the commit fails.                                        *)
StatementFails(c) == pc[c] \in InTransaction /\ Unwind(c, Throws)

(* Mutant: the transaction is left open.                                   *)
RollbackForgotten(c) ==
    /\ pc[c] = "unwinding"
    /\ Goto(c, "leaving")
    /\ UNCHANGED <<rows, image, writer, mutex, request, reply, answer>>

(* The destructor of Transaction.                                          *)
Rollback(c) ==
    /\ pc[c] = "unwinding"
    /\ image' = rows
    /\ writer' = NoStore
    /\ Goto(c, "leaving")
    /\ UNCHANGED <<rows, mutex, request, reply, answer>>

Query(c) ==
    /\ pc[c] = "querying"
    /\ answer' = [answer EXCEPT ![c] = Log!Rows(Log!OfSession(rows, request[c].session))]
    /\ Goto(c, "leaving")
    /\ UNCHANGED <<rows, image, writer, mutex, request, reply>>

(* The call gives the mutex back and returns or throws.                    *)
Leave(c) ==
    /\ pc[c] = "leaving"
    /\ mutex' = [mutex EXCEPT ![StoreOf[c]] = NoCaller]
    /\ request' = [request EXCEPT ![c] = NoRequest]
    /\ reply' = [reply EXCEPT ![c] = NoAnswer]
    /\ answer' = [answer EXCEPT ![c] = NoAnswer]
    /\ Goto(c, "idle")
    /\ UNCHANGED <<rows, image, writer>>

(* The process of a store dies and starts anew; SQLite rolls back what it  *)
(* had not committed.                                                      *)
Crash(s) ==
    /\ image' = IF writer = s THEN rows ELSE image
    /\ writer' = IF writer = s THEN NoStore ELSE writer
    /\ mutex' = [mutex EXCEPT ![s] = NoCaller]
    /\ pc' = [c \in Callers |-> IF StoreOf[c] = s THEN "idle" ELSE pc[c]]
    /\ request' = [c \in Callers |-> IF StoreOf[c] = s THEN NoRequest ELSE request[c]]
    /\ reply' = [c \in Callers |-> IF StoreOf[c] = s THEN NoAnswer ELSE reply[c]]
    /\ answer' = [c \in Callers |-> IF StoreOf[c] = s THEN NoAnswer ELSE answer[c]]
    /\ UNCHANGED rows

Step(c) ==
    \/ Lock(c) \/ Begin(c) \/ NotBegun(c)
    \/ ReadLast(c) \/ Look(c) \/ Delete(c) \/ Stage(c) \/ Restore(c) \/ Insert(c)
    \/ Commit(c) \/ StatementFails(c) \/ Rollback(c) \/ Query(c) \/ Leave(c)

Next == \/ \E c \in Callers : Call(c) \/ Step(c)
        \/ \E s \in Stores : Crash(s)

Spec == Init /\ [][Next]_vars

(* A thread that can run is scheduled.  Nobody has to call, and a wait for *)
(* the mutex need not be fair.                                             *)
FairSpec == Spec /\ \A c \in Callers : WF_vars(Step(c))

-----------------------------------------------------------------------------
(* Properties.                                                             *)

Labels == InTransaction \cup {"idle", "locking", "beginning", "querying", "unwinding",
                              "leaving"}

IsTable(table) ==
    /\ table = [p \in DOMAIN table |-> table[p]]
    /\ DOMAIN table \subseteq Positions
    /\ \A p \in DOMAIN table : table[p] \in Events

(* Every variable has its type; a caller in a call holds its mutex, and    *)
(* one in a transaction is the only writer.                                *)
TypeOK ==
    /\ IsTable(rows)
    /\ IsTable(image)
    /\ writer \in Stores \cup {NoStore}
    /\ mutex \in [Stores -> Callers \cup {NoCaller}]
    /\ pc \in [Callers -> Labels]
    /\ request = [c \in Callers |-> request[c]]
    /\ reply = [c \in Callers |-> reply[c]]
    /\ answer = [c \in Callers |-> answer[c]]
    /\ \A c \in Callers :
          /\ request[c] \in Requests[c] \cup {NoRequest}
          /\ request[c] = NoRequest <=> pc[c] = "idle"
          /\ mutex[StoreOf[c]] = c <=> pc[c] \notin {"idle", "locking"}
          /\ answer[c] = NoAnswer <=> pc[c] \notin {"unwinding", "leaving"}
          /\ pc[c] \in InTransaction \cup {"unwinding"} => writer = StoreOf[c]

(* The positions of the committed rows start at zero and have no gap,      *)
(* whatever several stores do and wherever a call fails or its process     *)
(* dies (package/events/README.md:7, API.md: positions are dense).         *)
Dense == rows \in Lists

(* The stores, with their statements, locks and staged rows, implement the *)
(* list: a call takes effect at its commit, or not at all, and its answer  *)
(* is true of that instant; no statement ever meets a taken position.      *)
LogSpec == Log!Spec

(* No call keeps the mutex of its store, and none the write lock of the    *)
(* database, whichever statement fails.                                    *)
LocksReleased ==
    /\ \A c \in Callers : mutex[StoreOf[c]] = c ~> mutex[StoreOf[c]] # c
    /\ \A s \in Stores : writer = s ~> writer # s

=============================================================================
