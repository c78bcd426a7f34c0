---------------------------- MODULE MCEventStore ----------------------------
(* Two threads share one store, a third has a store of its own.            *)
EXTENDS EventStore, TLC

CONSTANTS c1, c2, c3, s1, s2, a, b, mine, yours

MCStoreOf   == c1 :> s1 @@ c2 :> s1 @@ c3 :> s2
MCSessionOf == a :> mine @@ b :> yours
MCInitial   == 0 :> a @@ 1 :> b

MCRequest(op, position, event, session) ==
    [op |-> op, position |-> position, event |-> event, session |-> session]

(* Positions in the table, in front of it, and the largest.                *)
Append1     == MCRequest("append", 0, b, AllSessions)
QueryMine   == MCRequest("query", 0, a, mine)
InsertAt(p) == MCRequest("insert_after", p, a, AllSessions)
EraseAt(p)  == MCRequest("erase", p, a, AllSessions)

MCRequests ==
    c1 :> {Append1, QueryMine, InsertAt(0), InsertAt(MaxPosition), EraseAt(-1), EraseAt(0)}
    @@ c2 :> {QueryMine, EraseAt(0)}
    @@ c3 :> {Append1, InsertAt(0), EraseAt(0)}
=============================================================================
