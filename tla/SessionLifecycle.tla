--------------------------- MODULE SessionLifecycle ---------------------------
(***************************************************************************)
(* What the states of a Session promise: a request gets a response, a      *)
(* response finishes the session or asks for some tool calls, and only     *)
(* when the last of them was handled is the next request made.  A session  *)
(* may be closed, or fail and close, at any time and is then never used.   *)
(***************************************************************************)
EXTENDS Naturals

VARIABLES phase,  (* the state the client sees                             *)
          left    (* in the tool phase, how many calls are not handled yet *)

Init == phase = "request" /\ left = 0

Ask == /\ phase = "request"
       /\ phase' = "response"
       /\ UNCHANGED left

Finish == /\ phase = "response"
          /\ phase' = "finished"
          /\ UNCHANGED left

AskForTools == /\ phase = "response"
               /\ phase' = "tool"
               /\ left' \in Nat \ {0}

HandleCall == /\ phase = "tool"
              /\ left' = left - 1
              /\ phase' = IF left' = 0 THEN "request" ELSE "tool"

Close == /\ phase' = "closed"
         /\ left' = 0

Next == phase # "closed" /\ (Ask \/ Finish \/ AskForTools \/ HandleCall \/ Close)

Spec == Init /\ [][Next]_<<phase, left>>
=============================================================================
