----------------------------- MODULE PortChannel -----------------------------
(***************************************************************************)
(* What one registration of the event port promises its users, whatever    *)
(* threads, mutexes and condition variables are behind it: a one-place     *)
(* channel.  An emitter puts an event into the empty slot of an open       *)
(* registration, a reader takes the event, Close keeps an event that was   *)
(* not read yet (the reader may still drain it) and the destruction of the *)
(* Registration object drops it.  Nothing is ever put after a close.       *)
(*                                                                         *)
(* EventPort implements this module; RunTurn uses it as its port.          *)
(***************************************************************************)

CONSTANTS Registrations,  (* the registrations of the process               *)
          Events,         (* the events that can be emitted                 *)
          NoEvent         (* the empty slot                                 *)

VARIABLES slot,           (* slot[r]: the event waiting in registration r   *)
          closed          (* closed[r]: r accepts no further event          *)

vars == <<slot, closed>>

Init == /\ slot = [r \in Registrations |-> NoEvent]
        /\ closed = [r \in Registrations |-> FALSE]

-----------------------------------------------------------------------------

Put(r, event) ==
    /\ ~closed[r]
    /\ slot[r] = NoEvent
    /\ slot' = [slot EXCEPT ![r] = event]
    /\ UNCHANGED closed

Take(r) ==
    /\ slot[r] # NoEvent
    /\ slot' = [slot EXCEPT ![r] = NoEvent]
    /\ UNCHANGED closed

Close(r) ==
    /\ closed' = [closed EXCEPT ![r] = TRUE]
    /\ UNCHANGED slot

Discard(r) ==
    /\ closed' = [closed EXCEPT ![r] = TRUE]
    /\ slot' = [slot EXCEPT ![r] = NoEvent]

Next == \E r \in Registrations :
           \/ \E event \in Events : Put(r, event)
           \/ Take(r)
           \/ Close(r)
           \/ Discard(r)

Spec == Init /\ [][Next]_vars

=============================================================================
