---------------------------- MODULE CapabilityMap ----------------------------
(* What the sandbox registry promises its callers: one durable set of        *)
(* capabilities, on which every call takes effect at one moment or, when it  *)
(* reports an error or its process dies, not at all.  The processes, the     *)
(* lock and the two files that implement it are in SandboxRegistry.          *)
CONSTANTS Callers, None,
          Requests,  \* what may be asked for: [op, wants]
          Rows       \* the [path, access] pairs there are

VARIABLES rows,     \* the registered pairs
          request,  \* caller -> what it asked for, or None
          answer    \* caller -> what it is going to be told, or None

mapVars == <<rows, request, answer>>

Init == /\ rows \in SUBSET Rows
        /\ request = [c \in Callers |-> None]
        /\ answer = [c \in Callers |-> None]

Ask(c, r) ==
    /\ request[c] = None
    /\ request' = [request EXCEPT ![c] = r]
    /\ UNCHANGED <<rows, answer>>

Decide(c, granted, failed) ==
    answer' = [answer EXCEPT ![c] = [granted |-> granted, failed |-> failed]]

(* Refresh registers what the host allows and grants just that.              *)
Refresh(c) ==
    \E granted \in SUBSET request[c].wants :
       /\ request[c].op = "refresh"
       /\ rows' = rows \cup granted
       /\ Decide(c, granted, FALSE)

(* Reuse grants only what is registered at that moment, and changes nothing. *)
Reuse(c) ==
    \E granted \in SUBSET (request[c].wants \cap rows) :
       /\ request[c].op = "reuse"
       /\ Decide(c, granted, FALSE)
       /\ UNCHANGED rows

(* Release takes out every access to the paths, release_all everything.      *)
Release(c) ==
    /\ \/ /\ request[c].op = "release"
          /\ rows' = {row \in rows : \A w \in request[c].wants : w.path # row.path}
       \/ request[c].op = "release_all" /\ rows' = {}
    /\ Decide(c, {}, FALSE)

(* A call that reports a failure changed nothing, whatever it also grants.   *)
Fail(c) == \E granted \in SUBSET request[c].wants :
    Decide(c, granted, TRUE) /\ UNCHANGED rows

Act(c) == /\ request[c] # None
          /\ answer[c] = None
          /\ Refresh(c) \/ Reuse(c) \/ Release(c) \/ Fail(c)
          /\ UNCHANGED request

(* The reply, or the death of the processes of some callers.                 *)
Leave(gone) ==
    /\ request' = [c \in Callers |-> IF c \in gone THEN None ELSE request[c]]
    /\ answer' = [c \in Callers |-> IF c \in gone THEN None ELSE answer[c]]
    /\ UNCHANGED rows

Next == \/ \E c \in Callers : Act(c) \/ \E r \in Requests : Ask(c, r)
        \/ \E gone \in SUBSET Callers : Leave(gone)

Spec == Init /\ [][Next]_mapVars
=============================================================================
