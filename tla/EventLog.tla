------------------------------ MODULE EventLog ------------------------------
(***************************************************************************)
(* What the event store promises its callers: a list of events numbered    *)
(* from zero without a gap.  A call takes effect at one instant between    *)
(* its start and its return and answers what the list was at that instant, *)
(* or it throws and has changed nothing, or its process dies and nobody    *)
(* learns whether it took effect.                                          *)
(*                                                                         *)
(* EventStore implements this module.                                      *)
(***************************************************************************)
EXTENDS Integers

CONSTANTS Callers, Requests, Initial, NoRequest, SessionOf, AllSessions

VARIABLES log,       (* the list: a function from 0 .. n - 1 to events      *)
          request,   (* request[c]: the call of c under way                 *)
          answer     (* answer[c]: what it will return, once it is decided  *)

vars == <<log, request, answer>>

(* The first position behind the list.                                     *)
Size(l) == CHOOSE n \in {0} \cup {p + 1 : p \in DOMAIN l} : n \notin DOMAIN l

Appended(l, event) == [p \in 0..Size(l) |-> IF p = Size(l) THEN event ELSE l[p]]

Inserted(l, q, event) ==
    [p \in 0..Size(l) |-> IF p <= q THEN l[p] ELSE IF p = q + 1 THEN event ELSE l[p - 1]]

Erased(l, q) == [p \in 0..(Size(l) - 2) |-> IF p < q THEN l[p] ELSE l[p + 1]]

OfSession(l, session) ==
    [p \in {q \in DOMAIN l : session \in {AllSessions, SessionOf[l[q]]}} |-> l[p]]

NoRows       == [p \in {} |-> p]
Position(p)  == [is |-> "position", position |-> p, rows |-> NoRows]
Answer(what) == [is |-> what, position |-> 0, rows |-> NoRows]
Rows(l)      == [is |-> "rows", position |-> 0, rows |-> l]
NoAnswer     == Answer("none")

Init == /\ log = Initial
        /\ request = [c \in Callers |-> NoRequest]
        /\ answer = [c \in Callers |-> NoAnswer]

-----------------------------------------------------------------------------

Ask(c) ==
    /\ request[c] = NoRequest
    /\ \E r \in Requests[c] : request' = [request EXCEPT ![c] = r]
    /\ UNCHANGED <<log, answer>>

Decide(c, a) ==
    /\ request[c] # NoRequest
    /\ answer[c] = NoAnswer
    /\ answer' = [answer EXCEPT ![c] = a]
    /\ UNCHANGED request

Append(c) ==
    /\ request[c].op = "append"
    /\ log' = Appended(log, request[c].event)
    /\ Decide(c, Position(Size(log)))

InsertAfter(c) ==
    /\ request[c].op = "insert_after"
    /\ request[c].position \in DOMAIN log
    /\ log' = Inserted(log, request[c].position, request[c].event)
    /\ Decide(c, Position(request[c].position + 1))

InsertNowhere(c) ==
    /\ request[c].op = "insert_after"
    /\ request[c].position \notin DOMAIN log
    /\ Decide(c, Answer("out_of_range"))
    /\ UNCHANGED log

Erase(c) ==
    /\ request[c].op = "erase"
    /\ request[c].position \in DOMAIN log
    /\ log' = Erased(log, request[c].position)
    /\ Decide(c, Answer("removed"))

EraseNothing(c) ==
    /\ request[c].op = "erase"
    /\ request[c].position \notin DOMAIN log
    /\ Decide(c, Answer("missing"))
    /\ UNCHANGED log

Query(c) ==
    /\ request[c].op = "query"
    /\ Decide(c, Rows(OfSession(log, request[c].session)))
    /\ UNCHANGED log

(* The storage fails, is busy, or is full.                                 *)
Throw(c) ==
    /\ Decide(c, Answer("throws"))
    /\ UNCHANGED log

Return(c) ==
    /\ answer[c] # NoAnswer
    /\ request' = [request EXCEPT ![c] = NoRequest]
    /\ answer' = [answer EXCEPT ![c] = NoAnswer]
    /\ UNCHANGED log

(* The callers of one process die and start anew.                          *)
Die(dead) ==
    /\ request' = [c \in Callers |-> IF c \in dead THEN NoRequest ELSE request[c]]
    /\ answer' = [c \in Callers |-> IF c \in dead THEN NoAnswer ELSE answer[c]]
    /\ UNCHANGED log

Perform(c) ==
    \/ Append(c) \/ InsertAfter(c) \/ InsertNowhere(c)
    \/ Erase(c) \/ EraseNothing(c) \/ Query(c)

Next == \/ \E c \in Callers : Ask(c) \/ (request[c] # NoRequest /\ Perform(c))
                              \/ Throw(c) \/ Return(c)
        \/ \E dead \in SUBSET Callers : Die(dead)

Spec == Init /\ [][Next]_vars

=============================================================================
