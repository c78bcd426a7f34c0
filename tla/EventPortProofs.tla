--------------------------- MODULE EventPortProofs ---------------------------
(***************************************************************************)
(* Safety of the event port for any number of threads, registrations and   *)
(* events: type correctness, the absence of lost wakeups, the conservation *)
(* of events, that the port implements one-place channels, that an event   *)
(* reaches every registration once, and the order in which it does.        *)
(***************************************************************************)
EXTENDS EventPort, SequenceTheorems, TLAPS

(* What an action may do to pc by notifying: t goes to next, and of the    *)
(* other threads only waiters move, to wake.                               *)
LEMMA NotifyOneType ==
    ASSUME NEW t \in Threads, NEW next \in Locations, NEW wake \in Locations,
           NEW waiters \in SUBSET Threads, pc \in [Threads -> Locations],
           NotifyOne(t, next, waiters, wake)
    PROVE  /\ pc' \in [Threads -> Locations]
           /\ \A w \in Threads \ {t} : pc'[w] = pc[w] \/ (w \in waiters /\ pc'[w] = wake)
           /\ t \notin waiters => pc'[t] = next
  BY DEF NotifyOne

LEMMA NotifyAllType ==
    ASSUME NEW t \in Threads, NEW next \in Locations, NEW wake \in Locations,
           NEW waiters \in SUBSET Threads, pc \in [Threads -> Locations],
           NotifyAll(t, next, waiters, wake)
    PROVE  /\ pc' \in [Threads -> Locations]
           /\ \A w \in Threads \ {t} : pc'[w] = pc[w] \/ (w \in waiters /\ pc'[w] = wake)
           /\ \A w \in waiters \ {t} : pc'[w] = wake
           /\ pc'[t] = next
  BY DEF NotifyAll

(* A step keeps the types of all variables.                                *)
LEMMA TypeStep == TypeOK /\ [Next]_vars => TypeOK'
  <1> SUFFICES ASSUME TypeOK, [Next]_vars PROVE TypeOK'
    OBVIOUS
  <1> USE PortAssumption DEF TypeOK, stateVars, threadVars, history
  <1>1. ASSUME NEW t \in Threads, Snapshot(t) PROVE TypeOK'
    BY <1>1 DEF Snapshot, Locations, Emitting
  <1>2. ASSUME NEW t \in Threads, Visit(t) PROVE TypeOK'
    BY <1>2 DEF Visit, First, Locations, Emitting
  <1>3. ASSUME NEW t \in Threads, Offer(t) PROVE TypeOK'
    <2>1. at[t] \in Registrations /\ event[t] \in Event
      BY <1>3 DEF Offer, Emitting
    <2>2. CASE /\ pending' = [pending EXCEPT ![at[t]] = event[t]]
               /\ accepted' = [accepted EXCEPT ![at[t]] = Append(@, event[t])]
               /\ pc' = [pc EXCEPT ![t] = "put_notify"]
      <3>1. pending' \in [Registrations -> Event \cup {NoEvent}]
        BY <2>1, <2>2
      <3>2. accepted' \in [Registrations -> Seq(Event)]
        BY <2>1, <2>2
      <3>3. QED
        BY <1>3, <2>1, <2>2, <3>1, <3>2 DEF Offer, Locations, Emitting
    <2>3. CASE UNCHANGED <<pending, accepted>>
      <3>1. \E l \in {"visit", "put_wait", "put_notify"} : pc' = [pc EXCEPT ![t] = l]
        BY <1>3 DEF Offer
      <3>2. UNCHANGED <<registry, before, handle, closed, sequence, at, event, todo,
                        holds, taken, due>>
        BY <1>3 DEF Offer
      <3>3. QED
        BY <2>1, <2>3, <3>1, <3>2 DEF Locations, Emitting
    <2>4. QED
      BY <1>3, <2>2, <2>3 DEF Offer
  <1>4. ASSUME NEW t \in Threads, NotifyReader(t) PROVE TypeOK'
    <2>1. TakeWaiters(at[t]) \in SUBSET Threads /\ t \notin TakeWaiters(at[t])
      BY <1>4 DEF NotifyReader, TakeWaiters
    <2>2. /\ pc' \in [Threads -> Locations]
          /\ \A w \in Threads \ {t} :
                pc'[w] = pc[w] \/ (w \in TakeWaiters(at[t]) /\ pc'[w] = "take")
          /\ pc'[t] = "visit"
      <3>1. NotifyOne(t, "visit", TakeWaiters(at[t]), "take")
        BY <1>4 DEF NotifyReader
      <3>2. "visit" \in Locations /\ "take" \in Locations /\ pc \in [Threads -> Locations]
        BY DEF Locations
      <3>3. QED
        BY <2>1, <3>1, <3>2, NotifyOneType
    <2>3. QED
      BY <1>4, <2>2 DEF NotifyReader, TakeWaiters, Emitting
  <1>5. ASSUME NEW t \in Threads, EmitReturns(t) PROVE TypeOK'
    BY <1>5 DEF EmitReturns, Locations, Emitting
  <1>6. ASSUME NEW t \in Threads, TakeEvent(t) PROVE TypeOK'
    <2>1. at[t] \in Registrations
      BY <1>6 DEF TakeEvent
    <2>2. pending[at[t]] \in Event
      BY <1>6, <2>1 DEF TakeEvent
    <2>3. QED
      BY <1>6, <2>1, <2>2 DEF TakeEvent, Locations, Emitting
  <1>7. ASSUME NEW t \in Threads, TakeWaits(t) PROVE TypeOK'
    BY <1>7 DEF TakeWaits, Locations, Emitting
  <1>8. ASSUME NEW t \in Threads, ReadThrows(t) PROVE TypeOK'
    BY <1>8 DEF ReadThrows, Return, Locations, Emitting
  <1>9. ASSUME NEW t \in Threads, NotifyWriter(t) PROVE TypeOK'
    <2>1. PutWaiters(at[t]) \in SUBSET Threads /\ t \notin PutWaiters(at[t])
      BY <1>9 DEF NotifyWriter, PutWaiters
    <2>2. /\ pc' \in [Threads -> Locations]
          /\ \A w \in Threads \ {t} :
                pc'[w] = pc[w] \/ (w \in PutWaiters(at[t]) /\ pc'[w] = "offer")
          /\ pc'[t] = "idle"
      <3>1. NotifyOne(t, "idle", PutWaiters(at[t]), "offer")
        BY <1>9 DEF NotifyWriter
      <3>2. "idle" \in Locations /\ "offer" \in Locations /\ pc \in [Threads -> Locations]
        BY DEF Locations
      <3>3. QED
        BY <2>1, <3>1, <3>2, NotifyOneType
    <2>3. QED
      BY <1>9, <2>2 DEF NotifyWriter, PutWaiters, Emitting
  <1>10. ASSUME NEW t \in Threads, WakeReaders(t) PROVE TypeOK'
    BY <1>10 DEF WakeReaders, NotifyAll, TakeWaiters, Locations, Emitting
  <1>11. ASSUME NEW t \in Threads, WakeWriters(t) PROVE TypeOK'
    BY <1>11 DEF WakeWriters, NotifyAll, PutWaiters, Locations, Emitting
  <1>12. ASSUME NEW t \in Threads, SpuriousWakeup(t) PROVE TypeOK'
    BY <1>12 DEF SpuriousWakeup, Locations, Emitting
  <1>13. ASSUME NEW t \in Threads, NEW message \in Messages, StartEmit(t, message)
         PROVE TypeOK'
    <2>1. sequence + 1 \in 0 .. MaxEvents
      BY <1>13 DEF StartEmit
    <2>2. [sequence |-> sequence, message |-> message] \in Event
      BY DEF Event
    <2>3. QED
      BY <1>13, <2>1, <2>2 DEF StartEmit, Locations, Emitting
  <1>14. ASSUME NEW t \in Threads, NEW r \in Registrations, Register(t, r)
         PROVE TypeOK'
    BY <1>14 DEF Register
  <1>15. ASSUME NEW t \in Threads, NEW r \in Registrations, StartRead(t, r)
         PROVE TypeOK'
    BY <1>15 DEF StartRead, Locations, Emitting
  <1>16. ASSUME NEW t \in Threads, NEW r \in Registrations, Close(t, r)
         PROVE TypeOK'
    BY <1>16 DEF Close, CloseState, Locations, Emitting
  <1>17. ASSUME NEW t \in Threads, NEW r \in Registrations, Destroy(t, r)
         PROVE TypeOK'
    BY <1>17 DEF Destroy, CloseState, Locations, Emitting
  <1>18. CASE UNCHANGED vars
    BY <1>18 DEF vars
  <1>19. QED
    BY <1>1, <1>2, <1>3, <1>4, <1>5, <1>6, <1>7, <1>8, <1>9, <1>10, <1>11, <1>12,
       <1>13, <1>14, <1>15, <1>16, <1>17, <1>18 DEF Next, Step

LEMMA TypeInit == Init => TypeOK
  BY PortAssumption DEF Init, TypeOK, Locations, Emitting

(* Every variable of the port and of the threads in it keeps its type.     *)
THEOREM TypeCorrect == Spec => []TypeOK
  BY TypeInit, TypeStep, PTL DEF Spec

-----------------------------------------------------------------------------
(* No lost wakeup.                                                         *)

(* Where a thread must be when another one may rely on it to be woken.     *)
Helping == {"close_readable", "close_writable", "take_notify", "offer",
            "put_notify", "take"}

(* While no slot changes, w stays served if w did not just begin to wait   *)
(* and the threads that help stay where they are.                          *)
LEMMA HelpersStay ==
    ASSUME NoLostWakeup, UNCHANGED <<closed, pending>>, NEW w \in Threads,
           pc'[w] \in {"put_wait", "take_wait"} => pc'[w] = pc[w] /\ at'[w] = at[w],
           \A v \in Threads : pc[v] \in Helping /\ at[v] = at[w] =>
                                 pc'[v] = pc[v] /\ at'[v] = at[v]
    PROVE  ReaderWoken(w)' /\ WriterWoken(w)'
  BY DEF NoLostWakeup, ReaderWoken, WriterWoken, Beside, Helping

LEMMA WakeupStep == TypeOK /\ NoLostWakeup /\ [Next]_vars => NoLostWakeup'
  <1> SUFFICES ASSUME TypeOK, NoLostWakeup, [Next]_vars, NEW w \in Threads
               PROVE  ReaderWoken(w)' /\ WriterWoken(w)'
    BY DEF NoLostWakeup
  <1>a. /\ pc \in [Threads -> Locations]
        /\ at \in [Threads -> Registrations \cup {NoRegistration}]
        /\ closed \in [Registrations -> BOOLEAN]
        /\ pending \in [Registrations -> Event \cup {NoEvent}]
        /\ \A t \in Threads : pc[t] \notin {"idle", "publish", "visit"} =>
                                 at[t] \in Registrations
        /\ \A t \in Threads : pc[t] \in Emitting => event[t] \in Event
    BY DEF TypeOK
  <1>b. ReaderWoken(w) /\ WriterWoken(w)
    BY DEF NoLostWakeup
  <1>1. ASSUME NEW t \in Threads, Snapshot(t)
        PROVE  ReaderWoken(w)' /\ WriterWoken(w)'
    <2>1. /\ pc[t] = "publish" /\ pc' = [pc EXCEPT ![t] = "visit"]
          /\ UNCHANGED at
          /\ UNCHANGED <<closed, pending>>
      BY <1>1 DEF Snapshot, stateVars, threadVars, history
    <2>2. QED
      BY <1>a, <2>1, HelpersStay DEF Helping
  <1>2. ASSUME NEW t \in Threads, Visit(t)
        PROVE  ReaderWoken(w)' /\ WriterWoken(w)'
    <2>1. PICK r \in todo[t] : at' = [at EXCEPT ![t] = r]
      BY <1>2 DEF Visit
    <2>2. /\ pc[t] = "visit" /\ pc' = [pc EXCEPT ![t] = "offer"]
          /\ UNCHANGED <<closed, pending>>
      BY <1>2 DEF Visit, stateVars
    <2>3. QED
      BY <1>a, <2>1, <2>2, HelpersStay DEF Helping
  <1>3. ASSUME NEW t \in Threads, EmitReturns(t)
        PROVE  ReaderWoken(w)' /\ WriterWoken(w)'
    <2>1. /\ pc[t] = "visit" /\ pc' = [pc EXCEPT ![t] = "idle"]
          /\ at' = [at EXCEPT ![t] = NoRegistration]
          /\ UNCHANGED <<closed, pending>>
      BY <1>3 DEF EmitReturns, stateVars, threadVars, history
    <2>2. QED
      BY <1>a, <2>1, HelpersStay DEF Helping
  <1>4. ASSUME NEW t \in Threads, NEW message \in Messages, StartEmit(t, message)
        PROVE  ReaderWoken(w)' /\ WriterWoken(w)'
    <2>1. /\ pc[t] = "idle" /\ pc' = [pc EXCEPT ![t] = "publish"]
          /\ UNCHANGED at
          /\ UNCHANGED <<closed, pending>>
      BY <1>4 DEF StartEmit, stateVars, threadVars, history
    <2>2. QED
      BY <1>a, <2>1, HelpersStay DEF Helping
  <1>5. ASSUME NEW t \in Threads, NEW r \in Registrations, StartRead(t, r)
        PROVE  ReaderWoken(w)' /\ WriterWoken(w)'
    <2>1. /\ pc[t] = "idle" /\ pc' = [pc EXCEPT ![t] = "take"]
          /\ at' = [at EXCEPT ![t] = r]
          /\ UNCHANGED <<closed, pending>>
      BY <1>5 DEF StartRead, stateVars, threadVars, history
    <2>2. QED
      BY <1>a, <2>1, HelpersStay DEF Helping
  <1>6. ASSUME NEW t \in Threads, NEW r \in Registrations, Register(t, r)
        PROVE  ReaderWoken(w)' /\ WriterWoken(w)'
    <2>1. UNCHANGED <<pc, at, closed, pending>>
      BY <1>6 DEF Register, threadVars
    <2>2. QED
      BY <2>1, HelpersStay
  <1>7. ASSUME NEW t \in Threads, Offer(t)
        PROVE  ReaderWoken(w)' /\ WriterWoken(w)'
    <2>1. /\ pc[t] = "offer" /\ at[t] \in Registrations /\ event[t] \in Event
          /\ UNCHANGED <<at, closed>>
      BY <1>a, <1>7 DEF Offer, Emitting
    <2>2. CASE closed[at[t]]
      <3>1. pc' = [pc EXCEPT ![t] = "visit"] /\ UNCHANGED pending
        BY <1>7, <2>2 DEF Offer
      <3>2. ReaderWoken(w)'
        BY <1>a, <1>b, <2>1, <2>2, <3>1 DEF ReaderWoken, Beside
      <3>3. WriterWoken(w)'
        BY <1>a, <1>b, <2>1, <2>2, <3>1 DEF WriterWoken, Beside
      <3>4. QED
        BY <3>2, <3>3
    <2>3. CASE ~closed[at[t]] /\ pending[at[t]] # NoEvent
      <3>1. pc' = [pc EXCEPT ![t] = "put_wait"] /\ UNCHANGED pending
        BY <1>7, <2>3 DEF Offer
      <3>2. ReaderWoken(w)'
        BY <1>a, <1>b, <2>1, <2>3, <3>1 DEF ReaderWoken, Beside
      <3>3. WriterWoken(w)'
        BY <1>a, <1>b, <2>1, <2>3, <3>1 DEF WriterWoken, Beside
      <3>4. QED
        BY <3>2, <3>3
    <2>4. CASE ~closed[at[t]] /\ pending[at[t]] = NoEvent
      <3>1. /\ pc' = [pc EXCEPT ![t] = "put_notify"]
            /\ pending' = [pending EXCEPT ![at[t]] = event[t]]
            /\ event[t] # NoEvent
        BY <1>7, <2>1, <2>4, PortAssumption DEF Offer
      <3>2. ReaderWoken(w)'
        BY <1>a, <1>b, <2>1, <2>4, <3>1 DEF ReaderWoken, Beside
      <3>3. WriterWoken(w)'
        BY <1>a, <1>b, <2>1, <2>4, <3>1 DEF WriterWoken, Beside
      <3>4. QED
        BY <3>2, <3>3
    <2>5. QED
      BY <2>2, <2>3, <2>4
  <1>8. ASSUME NEW t \in Threads, TakeEvent(t)
        PROVE  ReaderWoken(w)' /\ WriterWoken(w)'
    <2>1. /\ pc[t] = "take" /\ at[t] \in Registrations
          /\ pc' = [pc EXCEPT ![t] = "take_notify"]
          /\ pending' = [pending EXCEPT ![at[t]] = NoEvent]
          /\ UNCHANGED <<at, closed>>
      BY <1>a, <1>8 DEF TakeEvent, stateVars, threadVars, history
    <2>2. ReaderWoken(w)'
      BY <1>a, <1>b, <2>1 DEF ReaderWoken, Beside
    <2>3. WriterWoken(w)'
      BY <1>a, <1>b, <2>1 DEF WriterWoken, Beside
    <2>4. QED
      BY <2>2, <2>3
  <1>9. ASSUME NEW t \in Threads, TakeWaits(t)
        PROVE  ReaderWoken(w)' /\ WriterWoken(w)'
    <2>1. /\ pc[t] = "take" /\ at[t] \in Registrations
          /\ ~closed[at[t]] /\ pending[at[t]] = NoEvent
          /\ pc' = [pc EXCEPT ![t] = "take_wait"]
          /\ UNCHANGED <<at, closed, pending>>
      BY <1>a, <1>9 DEF TakeWaits, stateVars, threadVars, history
    <2>2. ReaderWoken(w)'
      BY <1>a, <1>b, <2>1 DEF ReaderWoken, Beside
    <2>3. WriterWoken(w)'
      BY <1>a, <1>b, <2>1 DEF WriterWoken, Beside
    <2>4. QED
      BY <2>2, <2>3
  <1>10. ASSUME NEW t \in Threads, ReadThrows(t)
        PROVE  ReaderWoken(w)' /\ WriterWoken(w)'
    <2>1. /\ pc[t] = "take" /\ at[t] \in Registrations
          /\ closed[at[t]] /\ pending[at[t]] = NoEvent
          /\ pc' = [pc EXCEPT ![t] = "idle"]
          /\ at' = [at EXCEPT ![t] = NoRegistration]
          /\ UNCHANGED <<closed, pending>>
      BY <1>a, <1>10 DEF ReadThrows, stateVars, threadVars, history, Return
    <2>2. ReaderWoken(w)'
      BY <1>a, <1>b, <2>1 DEF ReaderWoken, Beside
    <2>3. WriterWoken(w)'
      BY <1>a, <1>b, <2>1 DEF WriterWoken, Beside
    <2>4. QED
      BY <2>2, <2>3
  <1>11. ASSUME NEW t \in Threads, NotifyReader(t)
        PROVE  ReaderWoken(w)' /\ WriterWoken(w)'
    <2>1. /\ pc[t] = "put_notify" /\ at[t] \in Registrations
          /\ UNCHANGED at
          /\ UNCHANGED <<closed, pending>>
      BY <1>a, <1>11 DEF NotifyReader, stateVars
    <2>2. CASE TakeWaiters(at[t]) = {}
      <3>1. pc' = [pc EXCEPT ![t] = "visit"]
        BY <1>11, <2>2 DEF NotifyReader, NotifyOne
      <3>2. \A v \in Threads : pc[v] = "take_wait" => at[v] # at[t]
        BY <2>2 DEF TakeWaiters
      <3>3. ReaderWoken(w)'
        BY <1>a, <1>b, <2>1, <3>1, <3>2 DEF ReaderWoken, Beside
      <3>4. WriterWoken(w)'
        BY <1>a, <1>b, <2>1, <3>1, <3>2 DEF WriterWoken, Beside
      <3>5. QED
        BY <3>3, <3>4
    <2>3. CASE TakeWaiters(at[t]) # {}
      <3>1. PICK v \in TakeWaiters(at[t]) :
                pc' = [pc EXCEPT ![t] = "visit", ![v] = "take"]
        BY <1>11, <2>3 DEF NotifyReader, NotifyOne
      <3>2. v \in Threads /\ pc[v] = "take_wait" /\ at[v] = at[t] /\ v # t
        BY <2>1, <3>1 DEF TakeWaiters
      <3>3. ReaderWoken(w)'
        BY <1>a, <1>b, <2>1, <3>1, <3>2 DEF ReaderWoken, Beside
      <3>4. WriterWoken(w)'
        BY <1>a, <1>b, <2>1, <3>1, <3>2 DEF WriterWoken, Beside
      <3>5. QED
        BY <3>3, <3>4
    <2>4. QED
      BY <2>2, <2>3
  <1>12. ASSUME NEW t \in Threads, NotifyWriter(t)
        PROVE  ReaderWoken(w)' /\ WriterWoken(w)'
    <2>1. /\ pc[t] = "take_notify" /\ at[t] \in Registrations
          /\ at' = [at EXCEPT ![t] = NoRegistration]
          /\ UNCHANGED <<closed, pending>>
      BY <1>a, <1>12 DEF NotifyWriter, stateVars
    <2>2. CASE PutWaiters(at[t]) = {}
      <3>1. pc' = [pc EXCEPT ![t] = "idle"]
        BY <1>12, <2>2 DEF NotifyWriter, NotifyOne
      <3>2. \A v \in Threads : pc[v] = "put_wait" => at[v] # at[t]
        BY <2>2 DEF PutWaiters
      <3>3. ReaderWoken(w)'
        BY <1>a, <1>b, <2>1, <3>1, <3>2 DEF ReaderWoken, Beside
      <3>4. WriterWoken(w)'
        BY <1>a, <1>b, <2>1, <3>1, <3>2 DEF WriterWoken, Beside
      <3>5. QED
        BY <3>3, <3>4
    <2>3. CASE PutWaiters(at[t]) # {}
      <3>1. PICK v \in PutWaiters(at[t]) :
                pc' = [pc EXCEPT ![t] = "idle", ![v] = "offer"]
        BY <1>12, <2>3 DEF NotifyWriter, NotifyOne
      <3>2. v \in Threads /\ pc[v] = "put_wait" /\ at[v] = at[t] /\ v # t
        BY <2>1, <3>1 DEF PutWaiters
      <3>3. ReaderWoken(w)'
        BY <1>a, <1>b, <2>1, <3>1, <3>2 DEF ReaderWoken, Beside
      <3>4. WriterWoken(w)'
        BY <1>a, <1>b, <2>1, <3>1, <3>2 DEF WriterWoken, Beside
      <3>5. QED
        BY <3>3, <3>4
    <2>4. QED
      BY <2>2, <2>3
  <1>13. ASSUME NEW t \in Threads, WakeReaders(t)
        PROVE  ReaderWoken(w)' /\ WriterWoken(w)'
    <2>1. /\ pc[t] = "close_readable" /\ at[t] \in Registrations
          /\ pc' \in [Threads -> Locations] /\ pc'[t] = "close_writable"
          /\ \A v \in Threads \ {t} :
                pc'[v] = IF pc[v] = "take_wait" /\ at[v] = at[t] THEN "take" ELSE pc[v]
          /\ UNCHANGED at
          /\ UNCHANGED <<closed, pending>>
      BY <1>a, <1>13 DEF WakeReaders, stateVars, threadVars, history, NotifyAll, TakeWaiters, Locations
    <2>2. ReaderWoken(w)'
      BY <1>a, <1>b, <2>1 DEF ReaderWoken, Beside
    <2>3. WriterWoken(w)'
      BY <1>a, <1>b, <2>1 DEF WriterWoken, Beside
    <2>4. QED
      BY <2>2, <2>3
  <1>14. ASSUME NEW t \in Threads, WakeWriters(t)
        PROVE  ReaderWoken(w)' /\ WriterWoken(w)'
    <2>1. /\ pc[t] = "close_writable" /\ at[t] \in Registrations
          /\ pc' \in [Threads -> Locations] /\ pc'[t] = "idle"
          /\ \A v \in Threads \ {t} :
                pc'[v] = IF pc[v] = "put_wait" /\ at[v] = at[t] THEN "offer" ELSE pc[v]
          /\ at' = [at EXCEPT ![t] = NoRegistration]
          /\ UNCHANGED <<closed, pending>>
      BY <1>a, <1>14 DEF WakeWriters, stateVars, threadVars, history, NotifyAll, PutWaiters, Locations
    <2>2. ReaderWoken(w)'
      BY <1>a, <1>b, <2>1 DEF ReaderWoken, Beside
    <2>3. WriterWoken(w)'
      BY <1>a, <1>b, <2>1 DEF WriterWoken, Beside
    <2>4. QED
      BY <2>2, <2>3
  <1>15. ASSUME NEW t \in Threads, SpuriousWakeup(t)
        PROVE  ReaderWoken(w)' /\ WriterWoken(w)'
    <2>1. /\ pc[t] \in {"put_wait", "take_wait"}
          /\ \A v \in Threads \ {t} : pc'[v] = pc[v]
          /\ pc'[t] \notin {"put_wait", "take_wait"}
          /\ UNCHANGED <<at, closed, pending>>
      BY <1>a, <1>15 DEF SpuriousWakeup, stateVars
    <2>2. QED
      BY <1>a, <2>1, HelpersStay DEF Helping
  <1>16. ASSUME NEW t \in Threads, NEW r \in Registrations, Close(t, r)
        PROVE  ReaderWoken(w)' /\ WriterWoken(w)'
    <2>1. /\ pc[t] = "idle"
          /\ pc' = [pc EXCEPT ![t] = "close_readable"]
          /\ at' = [at EXCEPT ![t] = r]
          /\ closed' = [closed EXCEPT ![r] = TRUE]
          /\ UNCHANGED pending
      BY <1>a, <1>16 DEF Close, stateVars, threadVars, history, CloseState
    <2>2. ReaderWoken(w)'
      BY <1>a, <1>b, <2>1 DEF ReaderWoken, Beside
    <2>3. WriterWoken(w)'
      BY <1>a, <1>b, <2>1 DEF WriterWoken, Beside
    <2>4. QED
      BY <2>2, <2>3
  <1>17. ASSUME NEW t \in Threads, NEW r \in Registrations, Destroy(t, r)
        PROVE  ReaderWoken(w)' /\ WriterWoken(w)'
    <2>1. /\ pc[t] = "idle"
          /\ pc' = [pc EXCEPT ![t] = "close_readable"]
          /\ at' = [at EXCEPT ![t] = r]
          /\ closed' = [closed EXCEPT ![r] = TRUE]
          /\ pending' = [pending EXCEPT ![r] = NoEvent]
      BY <1>a, <1>17 DEF Destroy, stateVars, threadVars, history, CloseState
    <2>2. ReaderWoken(w)'
      BY <1>a, <1>b, <2>1 DEF ReaderWoken, Beside
    <2>3. WriterWoken(w)'
      BY <1>a, <1>b, <2>1 DEF WriterWoken, Beside
    <2>4. QED
      BY <2>2, <2>3
  <1>18. CASE UNCHANGED vars
    <2>1. UNCHANGED <<pc, at, closed, pending>>
      BY <1>18 DEF vars, stateVars, threadVars
    <2>2. QED
      BY <2>1, HelpersStay
  <1>19. QED
    BY <1>1, <1>2, <1>3, <1>4, <1>5, <1>6, <1>7, <1>8, <1>9, <1>10, <1>11,
       <1>12, <1>13, <1>14, <1>15, <1>16, <1>17, <1>18
       DEF Next, Step

(* No thread ever sleeps through the change it waits for: whenever a       *)
(* waiter could go on, some notification is still to come or an awake      *)
(* thread is about to use the slot, for any number of threads.             *)
THEOREM NoWakeupIsLost == Spec => []NoLostWakeup
  <1>1. Init => NoLostWakeup
    BY DEF Init, NoLostWakeup, ReaderWoken, WriterWoken
  <1>2. QED
    BY <1>1, WakeupStep, TypeCorrect, PTL DEF Spec

-----------------------------------------------------------------------------
(* Conservation of events.                                                 *)

(* A destroyed registration is closed and empty, so nothing can be stored  *)
(* in or read from it any more.                                            *)
GoneIsEmpty == \A r \in Registrations :
                  handle[r] = "gone" => closed[r] /\ pending[r] = NoEvent

(* The steps that touch a slot or a history, and all the others.           *)
LEMMA SlotSteps ==
    ASSUME [Next]_vars
    PROVE  \/ UNCHANGED <<closed, pending, accepted, taken>> /\ UNCHANGED handle
           \/ \E t \in Threads, r \in Registrations :
                 \/ Register(t, r) \/ Close(t, r) \/ Destroy(t, r)
           \/ \E t \in Threads : Offer(t) \/ TakeEvent(t)
  <1> USE DEF stateVars, threadVars, history
  <1>1. CASE UNCHANGED vars
    BY <1>1 DEF vars
  <1>2. ASSUME NEW t \in Threads,
               \/ Snapshot(t) \/ Visit(t) \/ NotifyReader(t) \/ EmitReturns(t)
               \/ TakeWaits(t) \/ ReadThrows(t) \/ NotifyWriter(t)
               \/ WakeReaders(t) \/ WakeWriters(t) \/ SpuriousWakeup(t)
               \/ \E message \in Messages : StartEmit(t, message)
               \/ \E r \in Registrations : StartRead(t, r)
        PROVE  UNCHANGED <<closed, pending, accepted, taken>> /\ UNCHANGED handle
    BY <1>2 DEF Snapshot, Visit, NotifyReader, EmitReturns, TakeWaits, ReadThrows,
                NotifyWriter, WakeReaders, WakeWriters, SpuriousWakeup, StartEmit,
                StartRead
  <1>3. QED
    BY <1>1, <1>2 DEF Next, Step

LEMMA ConservationStep ==
    TypeOK /\ NothingLost /\ GoneIsEmpty /\ [Next]_vars
       => NothingLost' /\ GoneIsEmpty'
  <1> SUFFICES ASSUME TypeOK, NothingLost, GoneIsEmpty, [Next]_vars
               PROVE  NothingLost' /\ GoneIsEmpty'
    OBVIOUS
  <1> USE PortAssumption DEF NothingLost, GoneIsEmpty, TypeOK
  <1>1. CASE UNCHANGED <<closed, pending, accepted, taken>> /\ UNCHANGED handle
    BY <1>1
  <1>2. ASSUME NEW t \in Threads, NEW r \in Registrations, Register(t, r)
        PROVE  NothingLost' /\ GoneIsEmpty'
    BY <1>2 DEF Register, history
  <1>3. ASSUME NEW t \in Threads, NEW r \in Registrations, Close(t, r)
        PROVE  NothingLost' /\ GoneIsEmpty'
    BY <1>3 DEF Close, CloseState, history
  <1>4. ASSUME NEW t \in Threads, NEW r \in Registrations, Destroy(t, r)
        PROVE  NothingLost' /\ GoneIsEmpty'
    BY <1>4 DEF Destroy, CloseState, history
  <1>5. ASSUME NEW t \in Threads, Offer(t) PROVE NothingLost' /\ GoneIsEmpty'
    <2>1. at[t] \in Registrations /\ event[t] \in Event
      BY <1>5 DEF Offer, Emitting
    <2>2. CASE UNCHANGED <<pending, accepted>>
      BY <1>5, <2>2 DEF Offer
    <2>3. CASE /\ ~closed[at[t]]
               /\ pending[at[t]] = NoEvent
               /\ pending' = [pending EXCEPT ![at[t]] = event[t]]
               /\ accepted' = [accepted EXCEPT ![at[t]] = Append(@, event[t])]
      <3>1. UNCHANGED <<handle, closed, taken>> /\ event[t] # NoEvent
        BY <1>5, <2>1 DEF Offer
      <3>2. handle[at[t]] # "gone" /\ accepted[at[t]] = taken[at[t]]
        BY <2>1, <2>3
      <3>3. accepted'[at[t]] = Append(taken'[at[t]], pending'[at[t]])
        BY <2>1, <2>3, <3>1, <3>2
      <3>4. \A r \in Registrations \ {at[t]} :
               UNCHANGED <<accepted[r], pending[r]>>
        BY <2>1, <2>3
      <3>5. GoneIsEmpty'
        BY <2>1, <3>1, <3>2, <3>4
      <3>6. NothingLost'
        <4>1. ASSUME NEW r \in Registrations
              PROVE  \/ accepted'[r] = IF pending'[r] = NoEvent THEN taken'[r]
                                       ELSE Append(taken'[r], pending'[r])
                     \/ /\ handle'[r] = "gone"
                        /\ \E e \in Event : accepted'[r] = Append(taken'[r], e)
          <5>1. CASE r = at[t]
            BY <2>1, <2>3, <3>1, <3>3, <5>1
          <5>2. CASE r # at[t]
            <6>1. /\ accepted'[r] = accepted[r] /\ pending'[r] = pending[r]
                  /\ taken'[r] = taken[r] /\ handle'[r] = handle[r]
              BY <3>1, <3>4, <5>2
            <6>2. \/ accepted[r] = IF pending[r] = NoEvent THEN taken[r]
                                   ELSE Append(taken[r], pending[r])
                  \/ /\ handle[r] = "gone"
                     /\ \E e \in Event : accepted[r] = Append(taken[r], e)
              BY DEF NothingLost
            <6>3. QED
              BY <6>1, <6>2, Zenon
          <5>3. QED
            BY <5>1, <5>2
        <4>2. QED
          BY <4>1
      <3>7. QED
        BY <3>5, <3>6
    <2>4. QED
      BY <1>5, <2>2, <2>3 DEF Offer
  <1>6. ASSUME NEW t \in Threads, TakeEvent(t) PROVE NothingLost' /\ GoneIsEmpty'
    <2>1. at[t] \in Registrations
      BY <1>6 DEF TakeEvent
    <2>2. QED
      BY <1>6, <2>1 DEF TakeEvent
  <1>7. QED
    BY <1>1, <1>2, <1>3, <1>4, <1>5, <1>6, SlotSteps

(* What was read, followed by what is pending, is always what was stored;  *)
(* only the destruction of a Registration drops an event, and only one.    *)
THEOREM Conservation == Spec => []NothingLost
  <1>1. Init => NothingLost /\ GoneIsEmpty
    BY DEF Init, NothingLost, GoneIsEmpty
  <1>2. QED
    BY <1>1, ConservationStep, TypeCorrect, PTL DEF Spec

-----------------------------------------------------------------------------
(* Refinement.                                                             *)

(* Every step of a thread is a step of the one-place channels, or leaves   *)
(* all of them alone.                                                      *)
LEMMA ChannelStep == TypeOK /\ [Next]_vars => [Channel!Next]_(Channel!vars)
  <1> SUFFICES ASSUME TypeOK, [Next]_vars PROVE [Channel!Next]_(Channel!vars)
    OBVIOUS
  <1> USE DEF Channel!Next, Channel!vars
  <1>1. CASE UNCHANGED <<closed, pending, accepted, taken>> /\ UNCHANGED handle
    BY <1>1
  <1>2. ASSUME NEW t \in Threads, NEW r \in Registrations,
               Register(t, r) \/ Close(t, r) \/ Destroy(t, r)
        PROVE  [Channel!Next]_(Channel!vars)
    BY <1>2 DEF Register, Close, Destroy, CloseState, Channel!Close, Channel!Discard
  <1>3. ASSUME NEW t \in Threads, Offer(t) PROVE [Channel!Next]_(Channel!vars)
    <2>1. at[t] \in Registrations /\ event[t] \in Event
      BY <1>3 DEF Offer, Emitting, TypeOK
    <2>2. Channel!Put(at[t], event[t]) \/ UNCHANGED <<pending, closed>>
      BY <1>3 DEF Offer, Channel!Put
    <2>3. QED
      BY <2>1, <2>2
  <1>4. ASSUME NEW t \in Threads, TakeEvent(t) PROVE [Channel!Next]_(Channel!vars)
    <2>1. at[t] \in Registrations
      BY <1>4 DEF TakeEvent, TypeOK
    <2>2. Channel!Take(at[t])
      BY <1>4 DEF TakeEvent, Channel!Take
    <2>3. QED
      BY <2>1, <2>2
  <1>5. QED
    BY <1>1, <1>2, <1>3, <1>4, SlotSteps

(* Mutexes, condition variables and late notifications implement exactly   *)
(* a one-place channel per registration.                                   *)
THEOREM ImplementsChannel == Spec => ChannelSpec
  <1>1. Init => Channel!Init
    BY DEF Init, Channel!Init
  <1>2. QED
    BY <1>1, ChannelStep, TypeCorrect, PTL DEF Spec, ChannelSpec, Channel!Spec

-----------------------------------------------------------------------------
(* Delivery and its order.                                                 *)

(* What an emitter has still to offer its event to, and who got an event.  *)
Offering == {"offer", "put_wait"}
Waiting(t) == todo[t] \cup {r \in {at[t]} : pc[t] \in Offering}
Got(r, e) == \E i \in DOMAIN accepted[r] : accepted[r][i] = e

(* The list holds every Registration the caller holds and none that was    *)
(* never made, and only a listed one was ever given an event.              *)
Listed ==
    \A r \in Registrations :
       /\ r \in registry => handle[r] # "none"
       /\ handle[r] = "held" => r \in registry
       /\ handle[r] = "none" => accepted[r] = <<>>

(* The events are told apart by their numbers.                             *)
Numbered ==
    /\ \A t \in Threads : pc[t] \in Emitting => event[t].sequence < sequence
    /\ \A t, u \in Threads : t # u /\ pc[t] \in Emitting /\ pc[u] \in Emitting =>
          event[t] # event[u]
    /\ \A r \in Registrations : \A i \in DOMAIN accepted[r] :
          accepted[r][i].sequence < sequence

AtMostOnce ==
    \A r \in Registrations : \A i, j \in DOMAIN accepted[r] :
       accepted[r][i] = accepted[r][j] => i = j

(* A call of Emit: nobody has the event before the list was copied; then,  *)
(* nobody it still has to be offered to has it, nor anybody registered     *)
(* after one of those; and whoever must get it has it, is still to be      *)
(* offered it, or was closed.                                              *)
Emission(t) ==
    pc[t] \in Emitting =>
       /\ pc[t] = "publish" =>
             /\ \A r \in Registrations : ~Got(r, event[t])
             /\ \A r \in due[t] : /\ matches(r, event[t].message)
                                  /\ closed[r] \/ handle[r] = "held"
       /\ pc[t] # "publish" =>
             /\ \A r \in Waiting(t) :
                   /\ handle[r] # "none"
                   /\ ~Got(r, event[t])
                   /\ \A q \in Registrations : r \in before[q] => ~Got(q, event[t])
             /\ \A r \in due[t] : closed[r] \/ r \in Waiting(t) \/ Got(r, event[t])
       /\ pc[t] \in Offering =>
             at[t] \notin todo[t] /\ before[at[t]] \cap todo[t] = {}

EmitInv == Listed /\ Numbered /\ AtMostOnce /\ \A t \in Threads : Emission(t)

(* The call of u goes on where it was.                                     *)
Keeps(u) ==
    pc'[u] \in Emitting =>
       /\ pc[u] \in Emitting
       /\ pc'[u] = "publish" <=> pc[u] = "publish"
       /\ pc'[u] \in Offering <=> pc[u] \in Offering
       /\ UNCHANGED <<at[u], event[u], todo[u], due[u]>>

(* Then nothing that others do ends what holds of it: they give its event  *)
(* to nobody, make no Registration older, and drop none but by closing it. *)
LEMMA EmissionStays ==
    ASSUME TypeOK, EmitInv, NEW u \in Threads, Keeps(u),
           pc'[u] \in Emitting =>
              \A r \in Registrations : Got(r, event[u])' <=> Got(r, event[u]),
           \A r \in Registrations : closed[r] => closed'[r],
           \A r \in Registrations : handle[r] # "none" => handle'[r] # "none",
           \A r \in Registrations :
              handle[r] = "held" => handle'[r] = "held" \/ closed'[r],
           \A r \in Registrations : handle[r] # "none" => before'[r] = before[r],
           \A r \in Registrations :
              handle[r] = "none" /\ before'[r] # before[r] => ~Got(r, event[u])'
    PROVE  Emission(u)'
  <1> SUFFICES ASSUME pc'[u] \in Emitting
               PROVE  Emission(u)'
    BY DEF Emission
  <1>1. /\ pc[u] \in Emitting
        /\ pc'[u] = "publish" <=> pc[u] = "publish"
        /\ pc'[u] \in Offering <=> pc[u] \in Offering
        /\ at'[u] = at[u] /\ event'[u] = event[u] /\ todo'[u] = todo[u]
        /\ due'[u] = due[u]
    BY DEF Keeps
  <1>2. Emission(u)
    BY DEF EmitInv
  <1>3. todo[u] \subseteq Registrations /\ due[u] \subseteq Registrations
        /\ (pc[u] \in Offering => at[u] \in Registrations)
    BY DEF TypeOK, Offering, Emitting
  <1>4. Waiting(u)' = Waiting(u) /\ Waiting(u) \subseteq Registrations
    BY <1>1, <1>3 DEF Waiting
  <1>5. ASSUME pc'[u] = "publish"
        PROVE  /\ \A r \in Registrations : ~Got(r, event[u])'
               /\ \A r \in due'[u] : /\ matches(r, event'[u].message)
                                     /\ closed'[r] \/ handle'[r] = "held"
    BY <1>1, <1>2, <1>3, <1>5 DEF Emission
  <1>6. ASSUME pc'[u] # "publish", NEW r \in Waiting(u)'
        PROVE  /\ handle'[r] # "none"
               /\ ~Got(r, event[u])'
               /\ \A q \in Registrations : r \in before'[q] => ~Got(q, event[u])'
    <2>1. /\ r \in Registrations /\ handle[r] # "none" /\ ~Got(r, event[u])
          /\ \A q \in Registrations : r \in before[q] => ~Got(q, event[u])
      BY <1>1, <1>2, <1>4, <1>6 DEF Emission
    <2> QED  BY <2>1
  <1>7. ASSUME pc'[u] # "publish", NEW r \in due'[u]
        PROVE  closed'[r] \/ r \in Waiting(u)' \/ Got(r, event[u])'
    BY <1>1, <1>2, <1>3, <1>4, <1>7 DEF Emission
  <1>8. pc'[u] \in Offering =>
           at'[u] \notin todo'[u] /\ before'[at'[u]] \cap todo'[u] = {}
    <2> SUFFICES ASSUME pc'[u] \in Offering
                 PROVE  at[u] \notin todo[u] /\ before'[at[u]] \cap todo[u] = {}
      BY <1>1
    <2>1. pc[u] \in Offering /\ pc[u] # "publish" /\ at[u] \in Registrations
      BY <1>1, <1>3 DEF Offering
    <2>2. at[u] \in Waiting(u)
      BY <2>1 DEF Waiting
    <2>3. handle[at[u]] # "none"
      BY <1>1, <1>2, <2>1, <2>2 DEF Emission
    <2> QED  BY <1>1, <1>2, <2>1, <2>3 DEF Emission
  <1> QED  BY <1>5, <1>6, <1>7, <1>8 DEF Emission

(* The steps that neither give an event to anybody nor change what an Emit *)
(* that goes on has to do.                                                 *)
Quiet ==
    /\ \A u \in Threads : Keeps(u)
    /\ UNCHANGED <<registry, before, sequence, accepted>>
    /\ \A r \in Registrations : closed[r] => closed'[r]
    /\ \A r \in Registrations :
          \/ handle'[r] = handle[r]
          \/ handle[r] = "held" /\ handle'[r] = "gone" /\ closed'[r]

LEMMA QuietStep == ASSUME TypeOK, EmitInv, Quiet PROVE EmitInv'
  <1>1. Listed'
    BY DEF EmitInv, Quiet, Listed
  <1>2. Numbered'
    BY DEF EmitInv, Quiet, Numbered, Keeps
  <1>3. AtMostOnce'
    BY DEF EmitInv, Quiet, AtMostOnce
  <1>4. ASSUME NEW u \in Threads PROVE Emission(u)'
    <2>1. Keeps(u)
      BY DEF Quiet
    <2>2. pc'[u] \in Emitting =>
             \A r \in Registrations : Got(r, event[u])' <=> Got(r, event[u])
      BY <2>1 DEF Quiet, Keeps, Got
    <2> QED  BY <2>1, <2>2, EmissionStays DEF Quiet
  <1> QED  BY <1>1, <1>2, <1>3, <1>4 DEF EmitInv

(* A notification moves no thread out of its call of Emit or into one.     *)
LEMMA NotifiedKeep ==
    ASSUME TypeOK, NEW t \in Threads, NEW next \in Locations,
           \/ /\ NotifyOne(t, next, TakeWaiters(at[t]), "take")
              /\ pc[t] # "take_wait"
           \/ /\ NotifyOne(t, next, PutWaiters(at[t]), "offer")
              /\ pc[t] # "put_wait"
           \/ NotifyAll(t, next, TakeWaiters(at[t]), "take")
           \/ NotifyAll(t, next, PutWaiters(at[t]), "offer"),
           UNCHANGED <<event, todo, due>>,
           \A u \in Threads \ {t} : at'[u] = at[u]
    PROVE  /\ \A u \in Threads \ {t} : Keeps(u)
           /\ \A u \in Threads \ {t} : pc[u] \in Emitting => pc'[u] \in Emitting
           /\ pc'[t] = next
  <1>1. /\ pc \in [Threads -> Locations]
        /\ TakeWaiters(at[t]) \in SUBSET Threads /\ PutWaiters(at[t]) \in SUBSET Threads
        /\ "take" \in Locations /\ "offer" \in Locations
    BY DEF TypeOK, TakeWaiters, PutWaiters, Locations
  <1>2. /\ pc[t] # "take_wait" => t \notin TakeWaiters(at[t])
        /\ pc[t] # "put_wait" => t \notin PutWaiters(at[t])
    BY DEF TakeWaiters, PutWaiters
  <1>3. /\ \A u \in Threads \ {t} :
              \/ pc'[u] = pc[u]
              \/ pc[u] = "take_wait" /\ pc'[u] = "take"
              \/ pc[u] = "put_wait" /\ pc'[u] = "offer"
        /\ pc'[t] = next
    <2>1. CASE NotifyOne(t, next, TakeWaiters(at[t]), "take") /\ pc[t] # "take_wait"
      BY <1>1, <1>2, <2>1, NotifyOneType DEF TakeWaiters
    <2>2. CASE NotifyOne(t, next, PutWaiters(at[t]), "offer") /\ pc[t] # "put_wait"
      BY <1>1, <1>2, <2>2, NotifyOneType DEF PutWaiters
    <2>3. CASE NotifyAll(t, next, TakeWaiters(at[t]), "take")
      BY <1>1, <2>3, NotifyAllType DEF TakeWaiters
    <2>4. CASE NotifyAll(t, next, PutWaiters(at[t]), "offer")
      BY <1>1, <2>4, NotifyAllType DEF PutWaiters
    <2> QED  BY <2>1, <2>2, <2>3, <2>4
  <1> QED  BY <1>3 DEF Keeps, Emitting, Offering

LEMMA QuietSteps ==
    ASSUME TypeOK, [Next]_vars
    PROVE  \/ Quiet
           \/ \E t \in Threads : Snapshot(t) \/ Visit(t) \/ Offer(t)
           \/ \E t \in Threads, message \in Messages : StartEmit(t, message)
           \/ \E t \in Threads, r \in Registrations : Register(t, r)
  <1> USE DEF stateVars, threadVars, history
  <1>a. /\ pc \in [Threads -> Locations]
        /\ at \in [Threads -> Registrations \cup {NoRegistration}]
        /\ handle \in [Registrations -> {"none", "held", "gone"}]
        /\ closed \in [Registrations -> BOOLEAN]
    BY DEF TypeOK
  <1>b. {"visit", "idle", "close_writable"} \subseteq Locations
    BY DEF Locations
  <1>1. ASSUME UNCHANGED vars PROVE Quiet
    BY <1>1 DEF vars, Quiet, Keeps
  <1>2. ASSUME NEW t \in Threads, NotifyReader(t) PROVE Quiet
    <2>1. /\ pc[t] = "put_notify" /\ UNCHANGED <<stateVars, at, event, todo, holds, history>>
          /\ NotifyOne(t, "visit", TakeWaiters(at[t]), "take")
      BY <1>2 DEF NotifyReader
    <2>2. (\A u \in Threads \ {t} : Keeps(u)) /\ pc'[t] = "visit"
      BY <1>b, <2>1, NotifiedKeep
    <2>3. Keeps(t)
      BY <2>1, <2>2 DEF Keeps, Emitting, Offering
    <2> QED  BY <2>1, <2>2, <2>3 DEF Quiet
  <1>3. ASSUME NEW t \in Threads, NotifyWriter(t) PROVE Quiet
    <2>1. /\ pc[t] = "take_notify" /\ UNCHANGED <<stateVars, event, todo, history>>
          /\ NotifyOne(t, "idle", PutWaiters(at[t]), "offer")
          /\ \A u \in Threads \ {t} : at'[u] = at[u]
      BY <1>3, <1>a DEF NotifyWriter
    <2>2. (\A u \in Threads \ {t} : Keeps(u)) /\ pc'[t] = "idle"
      BY <1>b, <2>1, NotifiedKeep
    <2>3. Keeps(t)
      BY <2>2 DEF Keeps, Emitting
    <2> QED  BY <2>1, <2>2, <2>3 DEF Quiet
  <1>4. ASSUME NEW t \in Threads, WakeReaders(t) PROVE Quiet
    <2>1. /\ UNCHANGED <<stateVars, at, event, todo, holds, history>>
          /\ NotifyAll(t, "close_writable", TakeWaiters(at[t]), "take")
      BY <1>4 DEF WakeReaders
    <2>2. (\A u \in Threads \ {t} : Keeps(u)) /\ pc'[t] = "close_writable"
      BY <1>b, <2>1, NotifiedKeep
    <2>3. Keeps(t)
      BY <2>2 DEF Keeps, Emitting
    <2> QED  BY <2>1, <2>2, <2>3 DEF Quiet
  <1>5. ASSUME NEW t \in Threads, WakeWriters(t) PROVE Quiet
    <2>1. /\ UNCHANGED <<stateVars, event, todo, history>>
          /\ NotifyAll(t, "idle", PutWaiters(at[t]), "offer")
          /\ \A u \in Threads \ {t} : at'[u] = at[u]
      BY <1>5, <1>a DEF WakeWriters
    <2>2. (\A u \in Threads \ {t} : Keeps(u)) /\ pc'[t] = "idle"
      BY <1>b, <2>1, NotifiedKeep
    <2>3. Keeps(t)
      BY <2>2 DEF Keeps, Emitting
    <2> QED  BY <2>1, <2>2, <2>3 DEF Quiet
  <1>6. ASSUME NEW t \in Threads, EmitReturns(t) PROVE Quiet
    <2>1. \A u \in Threads : Keeps(u)
      BY <1>6, <1>a DEF EmitReturns, Keeps, Emitting, TypeOK
    <2> QED  BY <1>6, <2>1 DEF EmitReturns, Quiet
  <1>7. ASSUME NEW t \in Threads, TakeEvent(t) \/ TakeWaits(t) \/ ReadThrows(t)
        PROVE  Quiet
    <2>1. \A u \in Threads : Keeps(u)
      BY <1>7, <1>a DEF TakeEvent, TakeWaits, ReadThrows, Return, Keeps, Emitting
    <2> QED  BY <1>7, <2>1 DEF TakeEvent, TakeWaits, ReadThrows, Return, Quiet
  <1>8. ASSUME NEW t \in Threads, SpuriousWakeup(t) PROVE Quiet
    <2>1. \A u \in Threads : Keeps(u)
      BY <1>8, <1>a DEF SpuriousWakeup, Keeps, Emitting, Offering
    <2> QED  BY <1>8, <2>1 DEF SpuriousWakeup, Quiet
  <1>9. ASSUME NEW t \in Threads, NEW r \in Registrations, StartRead(t, r)
        PROVE  Quiet
    <2>1. \A u \in Threads : Keeps(u)
      BY <1>9, <1>a DEF StartRead, Keeps, Emitting
    <2> QED  BY <1>9, <2>1 DEF StartRead, Quiet
  <1>10. ASSUME NEW t \in Threads, NEW r \in Registrations, Close(t, r) \/ Destroy(t, r)
         PROVE  Quiet
    <2>1. \A u \in Threads : Keeps(u)
      BY <1>10, <1>a DEF Close, Destroy, CloseState, Keeps, Emitting
    <2> QED  BY <1>10, <1>a, <2>1 DEF Close, Destroy, CloseState, Quiet
  <1> QED  BY <1>1, <1>2, <1>3, <1>4, <1>5, <1>6, <1>7, <1>8, <1>9, <1>10 DEF Next, Step

(* Only the caller of Emit is affected by the steps of its own call.       *)
LEMMA EmitStep ==
    ASSUME TypeOK, EmitInv, [Next]_vars PROVE EmitInv'
  <1> USE DEF EmitInv
  <1>a. /\ pc \in [Threads -> Locations]
        /\ at \in [Threads -> Registrations \cup {NoRegistration}]
        /\ handle \in [Registrations -> {"none", "held", "gone"}]
        /\ closed \in [Registrations -> BOOLEAN]
        /\ before \in [Registrations -> SUBSET Registrations]
        /\ event \in [Threads -> Event \cup {NoEvent}]
        /\ todo \in [Threads -> SUBSET Registrations]
        /\ due \in [Threads -> SUBSET Registrations]
        /\ accepted \in [Registrations -> Seq(Event)]
        /\ registry \subseteq Registrations
        /\ \A u \in Threads : pc[u] \in Emitting => event[u] \in Event
        /\ \A u \in Threads : pc[u] \in Offering => at[u] \in Registrations
    BY DEF TypeOK, Offering
  <1>b. sequence \in Nat /\ \A e \in Event : e.sequence \in Nat
    BY PortAssumption DEF TypeOK, Event
  <1>1. ASSUME NEW t \in Threads, NEW message \in Messages, StartEmit(t, message)
        PROVE  EmitInv'
    <2> DEFINE new == [sequence |-> sequence, message |-> message]
    <2>1. /\ pc[t] = "idle" /\ pc' = [pc EXCEPT ![t] = "publish"]
          /\ event' = [event EXCEPT ![t] = new]
          /\ sequence' = sequence + 1
          /\ due' = [due EXCEPT ![t] =
                       {r \in Registrations : handle[r] = "held" /\ matches(r, message)}]
          /\ UNCHANGED <<registry, before, handle, closed, pending, at, todo, holds,
                         accepted, taken>>
      BY <1>1 DEF StartEmit
    <2>2. new.sequence = sequence /\ new.message = message
      OBVIOUS
    <2>3. pc'[t] = "publish" /\ event'[t] = new
          /\ due'[t] = {r \in Registrations : handle[r] = "held" /\ matches(r, message)}
      BY <1>a, <2>1
    <2>4. \A u \in Threads \ {t} :
             /\ pc'[u] = pc[u] /\ at'[u] = at[u] /\ event'[u] = event[u]
             /\ todo'[u] = todo[u] /\ due'[u] = due[u]
      BY <1>a, <2>1
    <2> HIDE DEF new
    <2>5. Listed'
      BY <2>1 DEF Listed
    <2>6. Numbered'
      <3>1. \A u \in Threads : pc'[u] \in Emitting => event'[u].sequence < sequence'
        BY <1>a, <1>b, <2>1, <2>2, <2>3, <2>4 DEF Numbered
      <3>2. \A u \in Threads \ {t} : pc[u] \in Emitting => event[u] # new
        BY <1>a, <1>b, <2>2 DEF Numbered
      <3>3. \A u, v \in Threads : u # v /\ pc'[u] \in Emitting /\ pc'[v] \in Emitting =>
               event'[u] # event'[v]
        BY <2>3, <2>4, <3>2 DEF Numbered
      <3>4. \A r \in Registrations : \A i \in DOMAIN accepted[r] :
               accepted[r][i] \in Event /\ accepted[r][i].sequence < sequence
        BY <1>a DEF Numbered
      <3>5. \A r \in Registrations : \A i \in DOMAIN accepted[r] :
               accepted[r][i].sequence < sequence + 1
        BY <1>a, <1>b, <3>4
      <3> QED  BY <2>1, <3>1, <3>3, <3>5 DEF Numbered
    <2>7. AtMostOnce'
      BY <2>1 DEF AtMostOnce
    <2>8. Emission(t)'
      <3>1. \A r \in Registrations : ~Got(r, event[t])'
        <4> SUFFICES ASSUME NEW r \in Registrations, NEW i \in DOMAIN accepted[r],
                            accepted[r][i] = new
                     PROVE  FALSE
          BY <2>1, <2>3 DEF Got
        <4>1. accepted[r][i].sequence < sequence
          BY DEF Numbered
        <4> QED  BY <1>b, <2>2, <4>1
      <3> QED  BY <2>1, <2>2, <2>3, <3>1 DEF Emission, Offering
    <2>9. ASSUME NEW u \in Threads \ {t} PROVE Emission(u)'
      <3>1. Keeps(u)
        BY <2>4 DEF Keeps
      <3>2. \A r \in Registrations : Got(r, event[u])' <=> Got(r, event[u])
        BY <2>1, <2>4 DEF Got
      <3> QED  BY <2>1, <3>1, <3>2, EmissionStays
    <2> QED  BY <2>5, <2>6, <2>7, <2>8, <2>9
  <1>2. ASSUME NEW t \in Threads, Snapshot(t) PROVE EmitInv'
    <2> DEFINE live == {r \in registry : Alive(r)}
    <2>1. /\ pc[t] = "publish" /\ pc' = [pc EXCEPT ![t] = "visit"]
          /\ registry' = live
          /\ todo' = [todo EXCEPT ![t] = {r \in live : matches(r, event[t].message)}]
          /\ UNCHANGED <<before, handle, closed, pending, sequence, at, event, history>>
      BY <1>2 DEF Snapshot
    <2>2. \A r \in Registrations : handle[r] = "held" => r \in live
      BY DEF Listed, Alive
    <2>3. live \subseteq registry
      OBVIOUS
    <2>4. /\ pc'[t] = "visit" /\ event'[t] = event[t] /\ due'[t] = due[t]
          /\ todo'[t] = {r \in live : matches(r, event[t].message)}
          /\ UNCHANGED <<sequence, accepted, before, handle, closed>>
      BY <1>a, <2>1 DEF history
    <2> HIDE DEF live
    <2>5. Listed'
      BY <2>1, <2>2, <2>3, <2>4 DEF Listed
    <2>6. Numbered'
      BY <1>a, <2>1, <2>4 DEF Numbered, Emitting
    <2>7. AtMostOnce'
      BY <2>4 DEF AtMostOnce
    <2>8. Emission(t)'
      <3>1. /\ \A r \in Registrations : ~Got(r, event[t])
            /\ \A r \in due[t] : /\ r \in Registrations /\ matches(r, event[t].message)
                                 /\ closed[r] \/ handle[r] = "held"
        BY <1>a, <2>1 DEF Emission, Emitting
      <3>2. \A r \in Registrations : Got(r, event[t])' <=> Got(r, event[t])
        BY <2>4 DEF Got
      <3>3. Waiting(t)' = todo'[t]
        BY <2>4 DEF Waiting, Offering
      <3>4. \A r \in todo'[t] : r \in Registrations /\ handle'[r] # "none"
        BY <1>a, <2>3, <2>4 DEF Listed
      <3>5. \A r \in due'[t] : closed'[r] \/ r \in todo'[t]
        BY <2>2, <2>4, <3>1
      <3> QED  BY <2>4, <3>1, <3>2, <3>3, <3>4, <3>5 DEF Emission, Offering
    <2>9. ASSUME NEW u \in Threads \ {t} PROVE Emission(u)'
      <3>1. Keeps(u)
        BY <1>a, <2>1 DEF Keeps, history
      <3>2. \A r \in Registrations : Got(r, event[u])' <=> Got(r, event[u])
        BY <2>1, <2>4 DEF Got
      <3> QED  BY <2>4, <3>1, <3>2, EmissionStays
    <2> QED  BY <2>5, <2>6, <2>7, <2>8, <2>9
  <1>3. ASSUME NEW t \in Threads, Visit(t) PROVE EmitInv'
    <2>1. PICK r \in todo[t] :
             /\ First(todo[t], r)
             /\ at' = [at EXCEPT ![t] = r]
             /\ todo' = [todo EXCEPT ![t] = @ \ {r}]
      BY <1>3 DEF Visit
    <2>2. /\ pc[t] = "visit" /\ pc' = [pc EXCEPT ![t] = "offer"]
          /\ UNCHANGED <<stateVars, event, holds, history>>
      BY <1>3 DEF Visit
    <2>3. /\ r \in Registrations /\ before[r] \cap todo[t] = {}
          /\ pc'[t] = "offer" /\ at'[t] = r /\ todo'[t] = todo[t] \ {r}
          /\ event'[t] = event[t] /\ due'[t] = due[t]
          /\ UNCHANGED <<sequence, accepted, before, handle, closed, registry>>
      BY <1>a, <2>1, <2>2 DEF First, stateVars, history
    <2>5. Listed'
      BY <2>3 DEF Listed
    <2>6. Numbered'
      BY <1>a, <2>2, <2>3 DEF Numbered, Emitting
    <2>7. AtMostOnce'
      BY <2>3 DEF AtMostOnce
    <2>8. Emission(t)'
      <3>1. Waiting(t) = todo[t] /\ Waiting(t)' = todo[t]
        BY <2>1, <2>2, <2>3 DEF Waiting, Offering
      <3>2. \A q \in Registrations : Got(q, event[t])' <=> Got(q, event[t])
        BY <2>3 DEF Got
      <3>3. /\ \A q \in todo[t] :
                  /\ handle[q] # "none" /\ ~Got(q, event[t])
                  /\ \A s \in Registrations : q \in before[s] => ~Got(s, event[t])
            /\ \A q \in due[t] : closed[q] \/ q \in todo[t] \/ Got(q, event[t])
        BY <2>2, <3>1 DEF Emission, Emitting
      <3>4. at'[t] \notin todo'[t] /\ before'[at'[t]] \cap todo'[t] = {}
        BY <2>3
      <3>5. todo[t] \subseteq Registrations /\ due[t] \subseteq Registrations
        BY <1>a
      <3> QED  BY <2>3, <3>1, <3>2, <3>3, <3>4, <3>5 DEF Emission
    <2>9. ASSUME NEW u \in Threads \ {t} PROVE Emission(u)'
      <3>1. Keeps(u)
        BY <1>a, <2>1, <2>2 DEF Keeps, history
      <3>2. \A q \in Registrations : Got(q, event[u])' <=> Got(q, event[u])
        BY <2>2, <2>3 DEF Got
      <3> QED  BY <2>3, <3>1, <3>2, EmissionStays
    <2> QED  BY <2>5, <2>6, <2>7, <2>8, <2>9
  <1>4. ASSUME NEW t \in Threads, Offer(t) PROVE EmitInv'
    <2> DEFINE r == at[t]
    <2>1. /\ pc[t] = "offer" /\ r \in Registrations /\ event[t] \in Event
          /\ UNCHANGED <<registry, before, handle, closed, sequence, at, event, todo,
                         holds, taken, due>>
      BY <1>a, <1>4 DEF Offer, Emitting, Offering
    <2>2. /\ Waiting(t) = todo[t] \cup {r} /\ todo[t] \subseteq Registrations
          /\ due[t] \subseteq Registrations
      BY <1>a, <2>1 DEF Waiting, Offering
    <2>3. /\ \A q \in todo[t] \cup {r} :
                /\ handle[q] # "none" /\ ~Got(q, event[t])
                /\ \A s \in Registrations : q \in before[s] => ~Got(s, event[t])
          /\ \A q \in due[t] : closed[q] \/ q \in todo[t] \cup {r} \/ Got(q, event[t])
          /\ r \notin todo[t] /\ before[r] \cap todo[t] = {}
      BY <2>1, <2>2 DEF Emission, Emitting, Offering
    <2>4. CASE /\ ~closed[r] /\ pending[r] # NoEvent
               /\ pc' = [pc EXCEPT ![t] = "put_wait"]
               /\ UNCHANGED <<pending, accepted>>
      <3>1. \A u \in Threads : Keeps(u)
        BY <1>a, <2>1, <2>4 DEF Keeps, Emitting, Offering
      <3>2. Quiet
        BY <2>1, <2>4, <3>1 DEF Quiet
      <3> QED  BY <3>2, QuietStep
    <2>5. CASE /\ closed[r]
               /\ pc' = [pc EXCEPT ![t] = "visit"]
               /\ UNCHANGED <<pending, accepted>>
      <3>1. pc'[t] = "visit" /\ Waiting(t)' = todo[t]
        BY <1>a, <2>1, <2>5 DEF Waiting, Offering
      <3>2. \A u \in Threads \ {t} : Keeps(u)
        BY <1>a, <2>1, <2>5 DEF Keeps
      <3>3. \A u \in Threads, q \in Registrations :
               Got(q, event[u])' <=> Got(q, event[u])
        BY <2>1, <2>5 DEF Got
      <3>4. Listed' /\ AtMostOnce'
        BY <2>1, <2>5 DEF Listed, AtMostOnce
      <3>5. Numbered'
        BY <1>a, <2>1, <2>5 DEF Numbered, Emitting
      <3>6. Emission(t)'
        BY <2>1, <2>2, <2>3, <2>5, <3>1, <3>3 DEF Emission, Offering
      <3>7. ASSUME NEW u \in Threads \ {t} PROVE Emission(u)'
        BY <2>1, <3>2, <3>3, EmissionStays
      <3> QED  BY <3>4, <3>5, <3>6, <3>7
    <2>6. CASE /\ ~closed[r] /\ pending[r] = NoEvent
               /\ accepted' = [accepted EXCEPT ![r] = Append(@, event[t])]
               /\ pc' = [pc EXCEPT ![t] = "put_notify"]
      <3>1. /\ pc'[t] = "put_notify" /\ Waiting(t)' = todo[t]
            /\ accepted'[r] = Append(accepted[r], event[t])
            /\ \A q \in Registrations \ {r} : accepted'[q] = accepted[q]
        BY <1>a, <2>1, <2>6 DEF Waiting, Offering
      <3>2. \A u \in Threads \ {t} : Keeps(u)
        BY <1>a, <2>1, <2>6 DEF Keeps
      <3> DEFINE n == Len(accepted[r])
      <3>3. /\ n \in Nat /\ DOMAIN accepted[r] = 1 .. n
            /\ DOMAIN accepted'[r] = 1 .. n + 1
            /\ \A i \in 1 .. n : accepted'[r][i] = accepted[r][i]
            /\ accepted'[r][n + 1] = event[t]
        BY <1>a, <2>1, <3>1, AppendProperties, LenProperties
      <3> HIDE DEF n
      <3>4. ASSUME NEW q \in Registrations, NEW e
            PROVE  (\E i \in DOMAIN accepted'[q] : accepted'[q][i] = e)
                      <=> Got(q, e) \/ (q = r /\ e = event[t])
        <4>1. CASE q = r
          BY <3>3, <4>1 DEF Got
        <4>2. CASE q # r
          BY <3>1, <4>2 DEF Got
        <4> QED  BY <4>1, <4>2
      <3>5. \A u \in Threads, q \in Registrations :
               Got(q, event[u])' <=> Got(q, event[u]) \/ (q = r /\ event[u] = event[t])
        <4> TAKE u \in Threads, q \in Registrations
        <4>1. event' = event
          BY <2>1
        <4>2. Got(q, event[u])' <=> \E i \in DOMAIN accepted'[q] : accepted'[q][i] = event[u]
          BY <4>1, Zenon DEF Got
        <4> QED  BY <3>4, <4>2
      <3>6. Listed'
        <4>1. handle[r] # "none"
          BY <2>3
        <4> QED  BY <2>1, <3>1, <4>1 DEF Listed
      <3>7. Numbered'
        <4>1. event[t].sequence < sequence
          BY <2>1 DEF Numbered, Emitting
        <4>2. \A q \in Registrations : \A i \in DOMAIN accepted'[q] :
                 accepted'[q][i].sequence < sequence
          <5> TAKE q \in Registrations
          <5>1. CASE q = r
            BY <3>3, <4>1, <5>1 DEF Numbered
          <5>2. CASE q # r
            BY <3>1, <5>2 DEF Numbered
          <5> QED  BY <5>1, <5>2
        <4> QED  BY <1>a, <2>1, <2>6, <4>2 DEF Numbered, Emitting
      <3>8. AtMostOnce'
        <4> SUFFICES ASSUME NEW q \in Registrations
                     PROVE  \A i, j \in DOMAIN accepted'[q] :
                               accepted'[q][i] = accepted'[q][j] => i = j
          BY DEF AtMostOnce
        <4>1. CASE q = r
          <5>1. \A i \in 1 .. n : accepted[r][i] # event[t]
            BY <2>3, <3>3 DEF Got
          <5>2. \A i, j \in 1 .. n : accepted[r][i] = accepted[r][j] => i = j
            BY <2>1, <3>3 DEF AtMostOnce
          <5> QED  BY <3>3, <4>1, <5>1, <5>2
        <4>2. CASE q # r
          BY <3>1, <4>2 DEF AtMostOnce
        <4> QED  BY <4>1, <4>2
      <3>9. Emission(t)'
        <4>1. \A q \in todo[t] :
                 /\ ~Got(q, event[t])'
                 /\ \A s \in Registrations : q \in before[s] => ~Got(s, event[t])'
          BY <2>2, <2>3, <3>5
        <4>2. \A q \in due[t] : closed[q] \/ q \in todo[t] \/ Got(q, event[t])'
          BY <2>2, <2>3, <3>5
        <4> QED  BY <2>1, <2>3, <3>1, <4>1, <4>2 DEF Emission, Offering
      <3>10. ASSUME NEW u \in Threads \ {t} PROVE Emission(u)'
        <4>1. pc'[u] \in Emitting => pc[u] \in Emitting
          BY <3>2 DEF Keeps
        <4>2. pc'[u] \in Emitting => event[u] # event[t]
          BY <2>1, <4>1 DEF Numbered, Emitting
        <4>3. pc'[u] \in Emitting =>
                 \A q \in Registrations : Got(q, event[u])' <=> Got(q, event[u])
          BY <3>5, <4>2
        <4> QED  BY <2>1, <3>2, <4>3, EmissionStays
      <3> QED  BY <3>6, <3>7, <3>8, <3>9, <3>10
    <2> QED  BY <1>4, <2>4, <2>5, <2>6 DEF Offer
  <1>5. ASSUME NEW t \in Threads, NEW r \in Registrations, Register(t, r)
        PROVE  EmitInv'
    <2>1. /\ handle[r] = "none" /\ handle' = [handle EXCEPT ![r] = "held"]
          /\ registry' = registry \cup {r}
          /\ \A q \in Registrations \ {r} : before'[q] = before[q]
          /\ UNCHANGED <<closed, sequence, pc, at, event, todo, due, accepted>>
      BY <1>5, <1>a DEF Register, threadVars, history
    <2>2. Listed'
      BY <1>a, <2>1 DEF Listed
    <2>3. Numbered' /\ AtMostOnce'
      BY <2>1 DEF Numbered, AtMostOnce
    <2>4. accepted[r] = <<>>
      BY <2>1 DEF Listed
    <2>5. ASSUME NEW u \in Threads PROVE Emission(u)'
      <3>1. Keeps(u)
        BY <2>1 DEF Keeps
      <3>2. \A q \in Registrations : Got(q, event[u])' <=> Got(q, event[u])
        BY <2>1 DEF Got
      <3>3. ~Got(r, event[u])'
        BY <2>1, <2>4 DEF Got
      <3> QED  BY <1>a, <2>1, <3>1, <3>2, <3>3, EmissionStays
    <2> QED  BY <2>2, <2>3, <2>5
  <1> QED  BY <1>1, <1>2, <1>3, <1>4, <1>5, QuietSteps, QuietStep

LEMMA EmitInit == Init => EmitInv
  <1> SUFFICES ASSUME Init PROVE EmitInv
    OBVIOUS
  <1>1. \A t \in Threads : pc[t] \notin Emitting
    BY DEF Init, Emitting
  <1> QED  BY <1>1 DEF Init, EmitInv, Listed, Numbered, AtMostOnce, Emission

LEMMA EmitInvariant == Spec => [](TypeOK /\ EmitInv)
  BY TypeInit, TypeStep, EmitInit, EmitStep, PTL DEF Spec

(* While an emitter is blocked at a registration, no registration made     *)
(* after it, or after one that is also still to come, has the event.       *)
THEOREM HeadOfLineBlocks == Spec => []HeadOfLine
  <1>1. ASSUME TypeOK, EmitInv PROVE HeadOfLine
    <2> SUFFICES ASSUME NEW t \in Threads, NEW r \in todo[t] \cup {at[t]},
                        pc[t] \in {"offer", "put_wait"},
                        NEW q \in Registrations, r \in before[q]
                 PROVE  ~Got(q, event[t])
      BY DEF HeadOfLine, Got
    <2>1. r \in Waiting(t)
      BY DEF Waiting, Offering
    <2> QED  BY <1>1, <2>1 DEF EmitInv, Emission, Emitting
  <1> QED  BY <1>1, EmitInvariant, PTL

(* A call of Emit ends only where EmitReturns ends it.                     *)
LEMMA EmitEnds ==
    ASSUME TypeOK, [Next]_vars, NEW t \in Threads, pc[t] \in Emitting,
           pc'[t] = "idle"
    PROVE  pc[t] = "visit" /\ todo[t] = {}
  <1> USE DEF stateVars, threadVars, history
  <1>a. pc \in [Threads -> Locations]
        /\ at \in [Threads -> Registrations \cup {NoRegistration}]
    BY DEF TypeOK
  <1>b. {"visit", "idle", "close_writable"} \subseteq Locations
    BY DEF Locations
  <1>1. ASSUME NEW u \in Threads, EmitReturns(u) PROVE pc[t] = "visit" /\ todo[t] = {}
    BY <1>1, <1>a DEF EmitReturns, Emitting
  <1>2. ASSUME NEW u \in Threads, NotifyReader(u) PROVE FALSE
    <2>1. pc'[u] = "visit" /\ (u # t => pc'[t] \in Emitting)
      BY <1>2, <1>b, NotifiedKeep DEF NotifyReader
    <2> QED  BY <2>1 DEF Emitting
  <1>3. ASSUME NEW u \in Threads, NotifyWriter(u) PROVE FALSE
    <2>1. u # t /\ pc[u] # "put_wait" /\ \A v \in Threads \ {u} : at'[v] = at[v]
      BY <1>3, <1>a DEF NotifyWriter, Emitting
    <2>2. NotifyOne(u, "idle", PutWaiters(at[u]), "offer") /\ UNCHANGED <<event, todo, due>>
      BY <1>3 DEF NotifyWriter
    <2>3. pc'[t] \in Emitting
      BY <1>b, <2>1, <2>2, NotifiedKeep
    <2> QED  BY <2>3 DEF Emitting
  <1>4. ASSUME NEW u \in Threads, WakeReaders(u) PROVE FALSE
    <2>1. u # t /\ NotifyAll(u, "close_writable", TakeWaiters(at[u]), "take")
          /\ UNCHANGED <<at, event, todo, due>>
      BY <1>4 DEF WakeReaders, Emitting
    <2>2. pc'[t] \in Emitting
      BY <1>b, <2>1, NotifiedKeep
    <2> QED  BY <2>2 DEF Emitting
  <1>5. ASSUME NEW u \in Threads, WakeWriters(u) PROVE FALSE
    <2>1. u # t /\ NotifyAll(u, "idle", PutWaiters(at[u]), "offer")
          /\ UNCHANGED <<event, todo, due>> /\ \A v \in Threads \ {u} : at'[v] = at[v]
      BY <1>5, <1>a DEF WakeWriters, Emitting
    <2>2. pc'[t] \in Emitting
      BY <1>b, <2>1, NotifiedKeep
    <2> QED  BY <2>2 DEF Emitting
  <1>6. ASSUME NEW u \in Threads,
               \/ Snapshot(u) \/ Visit(u) \/ Offer(u) \/ TakeEvent(u) \/ TakeWaits(u)
               \/ ReadThrows(u) \/ SpuriousWakeup(u)
        PROVE  FALSE
    BY <1>6, <1>a DEF Snapshot, Visit, Offer, TakeEvent, TakeWaits, ReadThrows, Return,
                      SpuriousWakeup, Emitting
  <1>7. ASSUME NEW u \in Threads,
               \/ \E message \in Messages : StartEmit(u, message)
               \/ \E r \in Registrations :
                     Register(u, r) \/ StartRead(u, r) \/ Close(u, r) \/ Destroy(u, r)
        PROVE  FALSE
    BY <1>7, <1>a DEF StartEmit, Register, StartRead, Close, Destroy, CloseState, Emitting
  <1>8. ASSUME UNCHANGED vars PROVE FALSE
    BY <1>8 DEF vars, Emitting
  <1> QED  BY <1>1, <1>2, <1>3, <1>4, <1>5, <1>6, <1>7, <1>8 DEF Next, Step

(* Every matching registration that existed when Emit was called has got   *)
(* the event exactly once when Emit returns, or has been closed.           *)
THEOREM EveryoneIsServed == Spec => EmitDelivers
  <1>1. ASSUME TypeOK, EmitInv, [Next]_vars, NEW t \in Threads,
               pc[t] \in Emitting, pc'[t] = "idle", NEW r \in due[t], ~closed[r]
        PROVE  \E i \in DOMAIN accepted[r] :
                  /\ accepted[r][i] = event[t]
                  /\ \A j \in DOMAIN accepted[r] \ {i} : accepted[r][j] # event[t]
    <2>1. pc[t] = "visit" /\ Waiting(t) = {}
      BY <1>1, EmitEnds DEF Waiting, Offering
    <2>2. r \in Registrations /\ Got(r, event[t])
      BY <1>1, <2>1 DEF EmitInv, Emission, TypeOK
    <2> QED  BY <1>1, <2>2 DEF Got, EmitInv, AtMostOnce
  <1>2. TypeOK /\ EmitInv /\ [Next]_vars =>
           [\A t \in Threads : pc[t] \in Emitting /\ pc'[t] = "idle" =>
               \A r \in due[t] :
                  \/ closed[r]
                  \/ \E i \in DOMAIN accepted[r] :
                        /\ accepted[r][i] = event[t]
                        /\ \A j \in DOMAIN accepted[r] \ {i} :
                              accepted[r][j] # event[t]]_vars
    BY <1>1
  <1> QED  BY <1>2, EmitInvariant, PTL DEF Spec, EmitDelivers

=============================================================================
