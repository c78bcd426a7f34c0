------------------------------ MODULE EventPort ------------------------------
(***************************************************************************)
(* The in-process event port: Register, Read, Emit, Close and the          *)
(* destruction of a Registration, called by any number of threads.         *)
(*                                                                         *)
(* Each registration has a mutex, two condition variables and room for one *)
(* event.  One action below is what a thread does between two points where *)
(* another thread can get in: a critical section, or one notification made *)
(* after the mutex was released.  A thread that waits on a condition       *)
(* variable is at "put_wait" or "take_wait"; notify_one moves one waiting  *)
(* thread, notify_all every one, back to the test of the wait's predicate. *)
(***************************************************************************)
EXTENDS Naturals, Sequences

CONSTANTS Threads,        (* the threads of the process                     *)
          Emitters,       (* those that call Emit                           *)
          Owners,         (* those that call Register, Close, or destroy    *)
          Reads,          (* Reads[t]: the registrations t calls Read on    *)
          Registrations,  (* the Registration objects ever created          *)
          Filter,         (* Filter[r]: the package and references of r     *)
          Messages,       (* what may be emitted: a package and references  *)
          AnyPackage,     (* the empty package name of a filter             *)
          NoEvent,        (* the null EventPtr                              *)
          NoRegistration, (* no registration                                *)
          MaxEvents       (* bound: how many events are emitted             *)

Event == [sequence : 0 .. MaxEvents, message : Messages]

ASSUME PortAssumption ==
    /\ Emitters \subseteq Threads
    /\ Owners \subseteq Threads
    /\ Reads \in [Threads -> SUBSET Registrations]
    /\ NoRegistration \notin Registrations
    /\ NoEvent \notin Event
    /\ MaxEvents \in Nat

VARIABLES
    registry,  (* Registry::registrations_: the registrations listed        *)
    before,    (* before[r]: the registrations made before r                *)
    handle,    (* handle[r]: whether the caller's Registration exists       *)
    closed,    (* RegistrationState::closed                                 *)
    pending,   (* RegistrationState::pending                                *)
    sequence,  (* the counter behind next_sequence                          *)
    pc,        (* pc[t]: where thread t is                                  *)
    at,        (* at[t]: the registration t works on                        *)
    event,     (* event[t]: the event t emits                               *)
    todo,      (* todo[t]: the registrations t has not offered its event to *)
    holds,     (* holds[t]: the states t keeps alive by a shared_ptr        *)
    accepted,  (* history: the events stored in each registration           *)
    taken,     (* history: the events Read returned from each registration  *)
    due        (* history: who must get event[t], fixed when Emit is called *)

stateVars  == <<registry, before, handle, closed, pending, sequence>>
threadVars == <<pc, at, event, todo, holds>>
history    == <<accepted, taken, due>>
vars       == <<stateVars, threadVars, history>>

Locations == {"idle", "publish", "visit", "offer", "put_wait", "put_notify",
              "take", "take_wait", "take_notify",
              "close_readable", "close_writable"}

Emitting == {"publish", "visit", "offer", "put_wait", "put_notify"}

Init == /\ registry = {}
        /\ before = [r \in Registrations |-> {}]
        /\ handle = [r \in Registrations |-> "none"]
        /\ closed = [r \in Registrations |-> FALSE]
        /\ pending = [r \in Registrations |-> NoEvent]
        /\ sequence = 0
        /\ pc = [t \in Threads |-> "idle"]
        /\ at = [t \in Threads |-> NoRegistration]
        /\ event = [t \in Threads |-> NoEvent]
        /\ todo = [t \in Threads |-> {}]
        /\ holds = [t \in Threads |-> {}]
        /\ accepted = [r \in Registrations |-> <<>>]
        /\ taken = [r \in Registrations |-> <<>>]
        /\ due = [t \in Threads |-> {}]

-----------------------------------------------------------------------------
(* Which events a registration wants, and which states are still alive.    *)

matches(r, message) ==
    /\ Filter[r].package \in {AnyPackage, message.package}
    /\ Filter[r].references \subseteq message.references

(* weak_ptr::lock succeeds while the Registration or a call keeps r alive. *)
Alive(r) == handle[r] = "held" \/ \E t \in Threads : r \in holds[t]

(* Mutant: the list is walked in any order.                                *)
FirstAny(S, r) == r \in S

(* The list is walked in the order of registration.                        *)
First(S, r) == r \in S /\ before[r] \cap S = {}

(* The threads that wait on the two condition variables of r.              *)
PutWaiters(r)  == {t \in Threads : pc[t] = "put_wait" /\ at[t] = r}
TakeWaiters(r) == {t \in Threads : pc[t] = "take_wait" /\ at[t] = r}

(* notify_one, after which t goes to next: one of the waiters, if there is *)
(* any, goes back to the test of its predicate at wake.                    *)
NotifyOne(t, next, waiters, wake) ==
    \/ \E w \in waiters : pc' = [pc EXCEPT ![t] = next, ![w] = wake]
    \/ waiters = {} /\ pc' = [pc EXCEPT ![t] = next]

(* Mutant: a close that calls notify_one.                                  *)
NotifyAllOnlyOne(t, next, waiters, wake) == NotifyOne(t, next, waiters, wake)

NotifyAll(t, next, waiters, wake) ==
    pc' = [w \in Threads |-> IF w = t THEN next
                             ELSE IF w \in waiters THEN wake ELSE pc[w]]

-----------------------------------------------------------------------------
(* Register.                                                               *)

Register(t, r) ==
    /\ t \in Owners
    /\ pc[t] = "idle"
    /\ handle[r] = "none"
    /\ handle' = [handle EXCEPT ![r] = "held"]
    /\ before' = [before EXCEPT ![r] = {q \in Registrations : handle[q] # "none"}]
    /\ registry' = registry \cup {r}
    /\ UNCHANGED <<closed, pending, sequence, threadVars, history>>

-----------------------------------------------------------------------------
(* Emit: number the event, copy the list of registrations, then offer the  *)
(* event to each matching one in turn and wait while its slot is full.     *)

StartEmit(t, message) ==
    /\ t \in Emitters
    /\ pc[t] = "idle"
    /\ sequence < MaxEvents
    /\ pc' = [pc EXCEPT ![t] = "publish"]
    /\ event' = [event EXCEPT ![t] = [sequence |-> sequence, message |-> message]]
    /\ sequence' = sequence + 1
    /\ due' = [due EXCEPT ![t] =
                 {r \in Registrations : handle[r] = "held" /\ matches(r, message)}]
    /\ UNCHANGED <<registry, before, handle, closed, pending, at, todo, holds,
                   accepted, taken>>

(* Mutant: a registration whose slot is full is left out.                  *)
SnapshotSkipsFull(t) ==
    LET live == {r \in registry : Alive(r)}
    IN /\ pc[t] = "publish"
       /\ registry' = live
       /\ pc' = [pc EXCEPT ![t] = "visit"]
       /\ holds' = [holds EXCEPT ![t] = live]
       /\ todo' = [todo EXCEPT ![t] =
             {r \in live : matches(r, event[t].message) /\ pending[r] = NoEvent}]
       /\ UNCHANGED <<before, handle, closed, pending, sequence, at, event, history>>

Snapshot(t) ==
    LET live == {r \in registry : Alive(r)}
    IN /\ pc[t] = "publish"
       /\ registry' = live
       /\ pc' = [pc EXCEPT ![t] = "visit"]
       /\ holds' = [holds EXCEPT ![t] = live]
       /\ todo' = [todo EXCEPT ![t] =
                     {r \in live : matches(r, event[t].message)}]
       /\ UNCHANGED <<before, handle, closed, pending, sequence, at, event, history>>

Visit(t) ==
    /\ pc[t] = "visit"
    /\ \E r \in todo[t] :
          /\ First(todo[t], r)
          /\ at' = [at EXCEPT ![t] = r]
          /\ todo' = [todo EXCEPT ![t] = @ \ {r}]
    /\ pc' = [pc EXCEPT ![t] = "offer"]
    /\ UNCHANGED <<stateVars, event, holds, history>>

(* Mutant: an emitter that does not look at closed once the slot is free.  *)
OfferIgnoresClose(t) ==
    LET r == at[t]
    IN /\ pc[t] = "offer"
       /\ IF pending[r] = NoEvent
          THEN /\ pending' = [pending EXCEPT ![r] = event[t]]
               /\ accepted' = [accepted EXCEPT ![r] = Append(@, event[t])]
               /\ pc' = [pc EXCEPT ![t] = "put_notify"]
          ELSE /\ pc' = [pc EXCEPT ![t] = IF closed[r] THEN "visit" ELSE "put_wait"]
               /\ UNCHANGED <<pending, accepted>>
       /\ UNCHANGED <<registry, before, handle, closed, sequence, at, event, todo,
                      holds, taken, due>>

Offer(t) ==
    LET r == at[t]
    IN /\ pc[t] = "offer"
       /\ \/ /\ closed[r]
             /\ pc' = [pc EXCEPT ![t] = "visit"]
             /\ UNCHANGED <<pending, accepted>>
          \/ /\ ~closed[r]
             /\ pending[r] # NoEvent
             /\ pc' = [pc EXCEPT ![t] = "put_wait"]
             /\ UNCHANGED <<pending, accepted>>
          \/ /\ ~closed[r]
             /\ pending[r] = NoEvent
             /\ pending' = [pending EXCEPT ![r] = event[t]]
             /\ accepted' = [accepted EXCEPT ![r] = Append(@, event[t])]
             /\ pc' = [pc EXCEPT ![t] = "put_notify"]
       /\ UNCHANGED <<registry, before, handle, closed, sequence, at, event, todo,
                      holds, taken, due>>

NotifyReader(t) ==
    /\ pc[t] = "put_notify"
    /\ NotifyOne(t, "visit", TakeWaiters(at[t]), "take")
    /\ UNCHANGED <<stateVars, at, event, todo, holds, history>>

EmitReturns(t) ==
    /\ pc[t] = "visit"
    /\ todo[t] = {}
    /\ pc' = [pc EXCEPT ![t] = "idle"]
    /\ at' = [at EXCEPT ![t] = NoRegistration]
    /\ event' = [event EXCEPT ![t] = NoEvent]
    /\ holds' = [holds EXCEPT ![t] = {}]
    /\ due' = [due EXCEPT ![t] = {}]
    /\ UNCHANGED <<stateVars, todo, accepted, taken>>

-----------------------------------------------------------------------------
(* Read: wait until the registration is closed or has an event; an event   *)
(* is returned even after a close, without one the closed registration     *)
(* makes Read throw.                                                       *)

StartRead(t, r) ==
    /\ pc[t] = "idle"
    /\ handle[r] = "held"
    /\ r \in Reads[t]
    /\ pc' = [pc EXCEPT ![t] = "take"]
    /\ at' = [at EXCEPT ![t] = r]
    /\ holds' = [holds EXCEPT ![t] = {r}]
    /\ UNCHANGED <<stateVars, event, todo, history>>

Return(t) ==
    /\ pc' = [pc EXCEPT ![t] = "idle"]
    /\ at' = [at EXCEPT ![t] = NoRegistration]
    /\ holds' = [holds EXCEPT ![t] = {}]

TakeEvent(t) ==
    LET r == at[t]
    IN /\ pc[t] = "take"
       /\ pending[r] # NoEvent
       /\ pending' = [pending EXCEPT ![r] = NoEvent]
       /\ taken' = [taken EXCEPT ![r] = Append(@, pending[r])]
       /\ pc' = [pc EXCEPT ![t] = "take_notify"]
       /\ UNCHANGED <<registry, before, handle, closed, sequence, at, event, todo,
                      holds, accepted, due>>

TakeWaits(t) ==
    /\ pc[t] = "take"
    /\ pending[at[t]] = NoEvent
    /\ ~closed[at[t]]
    /\ pc' = [pc EXCEPT ![t] = "take_wait"]
    /\ UNCHANGED <<stateVars, at, event, todo, holds, history>>

ReadThrows(t) ==
    /\ pc[t] = "take"
    /\ pending[at[t]] = NoEvent
    /\ closed[at[t]]
    /\ Return(t)
    /\ UNCHANGED <<stateVars, event, todo, history>>

(* Mutant: Read does not notify writable.                                  *)
NotifyWriterForgotten(t) ==
    /\ pc[t] = "take_notify"
    /\ pc' = [pc EXCEPT ![t] = "idle"]
    /\ at' = [at EXCEPT ![t] = NoRegistration]
    /\ holds' = [holds EXCEPT ![t] = {}]
    /\ UNCHANGED <<stateVars, event, todo, history>>

NotifyWriter(t) ==
    /\ pc[t] = "take_notify"
    /\ NotifyOne(t, "idle", PutWaiters(at[t]), "offer")
    /\ at' = [at EXCEPT ![t] = NoRegistration]
    /\ holds' = [holds EXCEPT ![t] = {}]
    /\ UNCHANGED <<stateVars, event, todo, history>>

-----------------------------------------------------------------------------
(* Close keeps the pending event, the destructor discards it.              *)

CloseState(t, r) ==
    /\ t \in Owners
    /\ pc[t] = "idle"
    /\ handle[r] = "held"
    /\ closed' = [closed EXCEPT ![r] = TRUE]
    /\ pc' = [pc EXCEPT ![t] = "close_readable"]
    /\ at' = [at EXCEPT ![t] = r]
    /\ holds' = [holds EXCEPT ![t] = {r}]
    /\ UNCHANGED <<registry, before, sequence, event, todo, history>>

(* Mutant: Close discards the pending event like the destructor.           *)
CloseDiscards(t, r) ==
    /\ CloseState(t, r)
    /\ pending' = [pending EXCEPT ![r] = NoEvent]
    /\ UNCHANGED handle

Close(t, r) ==
    /\ CloseState(t, r)
    /\ UNCHANGED <<handle, pending>>

Destroy(t, r) ==
    /\ CloseState(t, r)
    /\ handle' = [handle EXCEPT ![r] = "gone"]
    /\ pending' = [pending EXCEPT ![r] = NoEvent]

WakeReaders(t) ==
    /\ pc[t] = "close_readable"
    /\ NotifyAll(t, "close_writable", TakeWaiters(at[t]), "take")
    /\ UNCHANGED <<stateVars, at, event, todo, holds, history>>

WakeWriters(t) ==
    /\ pc[t] = "close_writable"
    /\ NotifyAll(t, "idle", PutWaiters(at[t]), "offer")
    /\ at' = [at EXCEPT ![t] = NoRegistration]
    /\ holds' = [holds EXCEPT ![t] = {}]
    /\ UNCHANGED <<stateVars, event, todo, history>>

(* A wait may also end with no notification; it tests its predicate again. *)
SpuriousWakeup(t) ==
    /\ \/ pc[t] = "put_wait" /\ pc' = [pc EXCEPT ![t] = "offer"]
       \/ pc[t] = "take_wait" /\ pc' = [pc EXCEPT ![t] = "take"]
    /\ UNCHANGED <<stateVars, at, event, todo, holds, history>>

-----------------------------------------------------------------------------

(* What a thread inside a call does next when it is not blocked.           *)
Step(t) ==
    \/ Snapshot(t)     \/ Visit(t)       \/ Offer(t)      \/ NotifyReader(t)
    \/ EmitReturns(t)  \/ TakeEvent(t)   \/ TakeWaits(t)  \/ ReadThrows(t)
    \/ NotifyWriter(t) \/ WakeReaders(t) \/ WakeWriters(t)

Next == \E t \in Threads :
           \/ Step(t)
           \/ SpuriousWakeup(t)
           \/ \E message \in Messages : StartEmit(t, message)
           \/ \E r \in Registrations :
                 Register(t, r) \/ StartRead(t, r) \/ Close(t, r) \/ Destroy(t, r)

Spec == Init /\ [][Next]_vars

(* A runnable thread is eventually scheduled; nobody has to call anything, *)
(* and no wait may count on a spurious wakeup.                             *)
SchedulerFairness == \A t \in Threads : WF_vars(Step(t))

FairSpec == Spec /\ SchedulerFairness

(* The consumer that keeps reading the registrations it serves.            *)
ReaderFairness ==
    \A t \in Threads : \A r \in Registrations : WF_vars(StartRead(t, r))

ServedSpec == FairSpec /\ ReaderFairness

-----------------------------------------------------------------------------
(* Properties.                                                             *)

(* Every variable of the port and of the calling threads has its type, and *)
(* a thread in a blocking call works on a registration.                    *)
TypeOK ==
    /\ registry \subseteq Registrations
    /\ before \in [Registrations -> SUBSET Registrations]
    /\ handle \in [Registrations -> {"none", "held", "gone"}]
    /\ closed \in [Registrations -> BOOLEAN]
    /\ pending \in [Registrations -> Event \cup {NoEvent}]
    /\ sequence \in 0 .. MaxEvents
    /\ pc \in [Threads -> Locations]
    /\ at \in [Threads -> Registrations \cup {NoRegistration}]
    /\ event \in [Threads -> Event \cup {NoEvent}]
    /\ todo \in [Threads -> SUBSET Registrations]
    /\ holds \in [Threads -> SUBSET Registrations]
    /\ accepted \in [Registrations -> Seq(Event)]
    /\ taken \in [Registrations -> Seq(Event)]
    /\ due \in [Threads -> SUBSET Registrations]
    /\ \A t \in Threads :
          /\ pc[t] \notin {"idle", "publish", "visit"} => at[t] \in Registrations
          /\ pc[t] \in Emitting => event[t] \in Event

(* Some thread at one of the locations works on the registration of w.     *)
Beside(w, locations) == \E t \in Threads : pc[t] \in locations /\ at[t] = at[w]

ReaderWoken(w) ==
    pc[w] = "take_wait" =>
       /\ closed[at[w]] => Beside(w, {"close_readable"})
       /\ ~closed[at[w]] /\ pending[at[w]] # NoEvent =>
             Beside(w, {"put_notify", "take"})

WriterWoken(w) ==
    pc[w] = "put_wait" =>
       /\ closed[at[w]] => Beside(w, {"close_readable", "close_writable"})
       /\ ~closed[at[w]] /\ pending[at[w]] = NoEvent =>
             Beside(w, {"take_notify", "offer"})

(* No thread sleeps through the change it waits for, although every        *)
(* notification is made after the mutex was released and most wake only    *)
(* one thread: while a thread waits on a closed registration, the closing  *)
(* call has its notify_all still to make; while an emitter waits and the   *)
(* slot is empty, or a reader waits and it is full, a notify_one is still  *)
(* to come or another awake thread is about to use the slot.               *)
NoLostWakeup == \A w \in Threads : ReaderWoken(w) /\ WriterWoken(w)

(* Back-pressure loses and repeats nothing: what readers got, followed by  *)
(* the pending event, is what emitters stored, in that order, whoever      *)
(* closes the registration in between; only the destructor drops at most   *)
(* the one event that nobody read.                                         *)
NothingLost ==
    \A r \in Registrations :
       \/ accepted[r] = IF pending[r] = NoEvent THEN taken[r]
                        ELSE Append(taken[r], pending[r])
       \/ /\ handle[r] = "gone"
          /\ \E e \in Event : accepted[r] = Append(taken[r], e)

(* When Emit returns, every matching registration that existed when it was *)
(* called has got the event exactly once, or has been closed.              *)
EmitDelivers ==
    [][\A t \in Threads : pc[t] \in Emitting /\ pc'[t] = "idle" =>
          \A r \in due[t] :
             \/ closed[r]
             \/ \E i \in DOMAIN accepted[r] :
                   /\ accepted[r][i] = event[t]
                   /\ \A j \in DOMAIN accepted[r] \ {i} : accepted[r][j] # event[t]
      ]_vars

(* An emitter serves registrations in the order they were made, so while   *)
(* it is blocked on one that nobody reads it has given the event to none   *)
(* of the younger ones: one slow consumer holds back all consumers behind. *)
HeadOfLine ==
    \A t \in Threads : \A r \in todo[t] \cup {at[t]} :
       pc[t] \in {"offer", "put_wait"} =>
          \A q \in Registrations : r \in before[q] =>
             \A i \in DOMAIN accepted[q] : accepted[q][i] # event[t]

(* The threads, mutexes and condition variables implement a one-place      *)
(* channel per registration.                                               *)
Channel == INSTANCE PortChannel WITH slot <- pending, Events <- Event

ChannelSpec == Channel!Spec

(* Close, or the destructor, ends every wait on the registration: a        *)
(* blocked emitter goes on and a blocked reader returns.                   *)
CloseEndsWaits ==
    \A t \in Threads : \A r \in Registrations :
       closed[r] /\ t \in PutWaiters(r) \cup TakeWaiters(r)
          ~> t \notin PutWaiters(r) \cup TakeWaiters(r)

(* Where a reader keeps serving every registration, each Emit returns.     *)
EmitTerminates ==
    \A t \in Threads : pc[t] \in Emitting ~> pc[t] = "idle"

=============================================================================
