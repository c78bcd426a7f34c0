-------------------------- MODULE EventStoreProofs --------------------------
(***************************************************************************)
(* What holds of the event store for any number of stores and callers, any *)
(* calls and any table.                                                    *)
(*                                                                         *)
(* Only one caller is in a transaction at a time, because the holder of    *)
(* the write lock is a store and the holder of its mutex a caller.  The    *)
(* inductive invariant says what the image of that transaction is, step    *)
(* for step, in terms of the committed rows: untouched, staged, brought    *)
(* back, complete.  The first part of this module calculates these tables, *)
(* the second shows that every action goes from one to the next.           *)
(***************************************************************************)
EXTENDS EventStore, TLAPS

Size(table) == Log!Size(table)

(* The table with the rows behind q staged, of which kept are not.         *)
StagedAway(l, kept, q) ==
    [p \in kept \cup (-Size(l))..(-q - 2) |-> IF p < 0 THEN l[-p - 1] ELSE l[p]]

(* The table with room for a row behind q.                                 *)
Opened(l, q) ==
    [p \in (0..q) \cup (q + 2)..Size(l) |-> IF p <= q THEN l[p] ELSE l[p - 1]]

(* In all that follows r is a request, a the reply to it, l the committed  *)
(* rows and t the image.                                                   *)
Within(r, l) ==
    /\ r.op \in {"insert_after", "erase"}
    /\ r.position \in DOMAIN l
    /\ r.op = "insert_after" => r.position # MaxPosition

Owed(r) == IF r.op = "insert_after" THEN Log!Position(r.position + 1)
           ELSE Log!Answer("removed")

Kept(r) == IF r.op = "insert_after" THEN 0..r.position ELSE 0..(r.position - 1)

Before(r, l) == IF r.op = "insert_after" THEN l ELSE Without(l, r.position)

(* The list with the new row still to come.                                *)
RoomForAppend(r, a, l, t) ==
    /\ r.op = "append"
    /\ Size(l) <= MaxPosition
    /\ a = Log!Position(Size(l))
    /\ t = l

RoomForInsert(r, a, l, t) ==
    /\ r.op = "insert_after"
    /\ r.position \in DOMAIN l
    /\ Size(l) <= MaxPosition
    /\ a = Log!Position(r.position + 1)
    /\ t = Opened(l, r.position)

(* The transaction has nothing left to do but to commit.                   *)
AppendDone(r, a, l, t) ==
    /\ r.op = "append"
    /\ a = Log!Position(Size(l))
    /\ t = Log!Appended(l, r.event)

InsertDone(r, a, l, t) ==
    /\ r.op = "insert_after"
    /\ r.position \in DOMAIN l
    /\ a = Log!Position(r.position + 1)
    /\ t = Log!Inserted(l, r.position, r.event)

EraseDone(r, a, l, t) ==
    /\ r.op = "erase"
    /\ r.position \in DOMAIN l
    /\ a = Log!Answer("removed")
    /\ t = Log!Erased(l, r.position)

NothingToErase(r, a, l, t) ==
    /\ r.op = "erase"
    /\ r.position \notin DOMAIN l
    /\ a = Log!Answer("missing")
    /\ t = l

Done(r, a, l, t) ==
    /\ t \in Lists
    /\ \/ AppendDone(r, a, l, t) \/ InsertDone(r, a, l, t)
       \/ EraseDone(r, a, l, t) \/ NothingToErase(r, a, l, t)

(* What a caller has made of the table when it is at a label.              *)
Progress(label, r, a, l, t) ==
    /\ label = "beginning" => r.op # "query"
    /\ label = "querying" => r.op = "query"
    /\ label = "reading" => t = l /\ r.op = "append"
    /\ label = "looking" => t = l /\ r.op = "insert_after" /\ r.position # MaxPosition
    /\ label = "deleting" => t = l /\ r.op = "erase"
    /\ label = "staging" => Within(r, l) /\ a = Owed(r) /\ t = Before(r, l)
    /\ label = "restoring" =>
          Within(r, l) /\ a = Owed(r) /\ t = StagedAway(l, Kept(r), r.position)
    /\ label = "inserting" => RoomForAppend(r, a, l, t) \/ RoomForInsert(r, a, l, t)
    /\ label = "committing" => Done(r, a, l, t)

Busy == InTransaction \cup {"unwinding"}

CallerOK(c) ==
    /\ pc[c] \in Labels
    /\ request[c] \in Requests[c] \cup {NoRequest}
    /\ request[c] = NoRequest <=> pc[c] = "idle"
    /\ mutex[StoreOf[c]] = c <=> pc[c] \notin {"idle", "locking"}
    /\ answer[c] = NoAnswer <=> pc[c] \notin {"unwinding", "leaving"}
    /\ pc[c] \in Busy => writer = StoreOf[c]
    /\ Progress(pc[c], request[c], reply[c], rows, image)

SharedOK ==
    /\ rows \in Lists
    /\ IsTable(image)
    /\ writer \in Stores \cup {NoStore}
    /\ writer = NoStore => image = rows
    /\ mutex \in [Stores -> Callers \cup {NoCaller}]
    /\ pc = [c \in Callers |-> pc[c]]
    /\ request = [c \in Callers |-> request[c]]
    /\ reply = [c \in Callers |-> reply[c]]
    /\ answer = [c \in Callers |-> answer[c]]

IInv == SharedOK /\ \A c \in Callers : CallerOK(c)

-----------------------------------------------------------------------------
(* The tables.                                                             *)

LEMMA ListMade ==
    ASSUME NEW n \in 0..(MaxPosition + 1), NEW l \in [0..(n - 1) -> Events]
    PROVE  l \in Lists /\ Size(l) = n
<1> USE StoreAssumption
<1>1. l \in Lists
  BY DEF Lists
<1>2. DOMAIN l = 0..(n - 1)
  OBVIOUS
<1>3. n \in {0} \cup {p + 1 : p \in DOMAIN l}
  <2>1. CASE n = 0
    BY <2>1
  <2>2. CASE n # 0
    <3>1. n - 1 \in DOMAIN l /\ n = (n - 1) + 1
      BY <1>2, <2>2
    <3> QED BY <3>1
  <2> QED BY <2>1, <2>2
<1>4. \A m \in {0} \cup {p + 1 : p \in DOMAIN l} : m \notin DOMAIN l <=> m = n
  BY <1>2
<1>5. Size(l) = n
  BY <1>3, <1>4 DEF Size, Log!Size
<1> QED BY <1>1, <1>5

LEMMA ListShape ==
    ASSUME NEW l \in Lists
    PROVE  /\ Size(l) \in 0..(MaxPosition + 1)
           /\ DOMAIN l = 0..(Size(l) - 1)
           /\ l = [p \in 0..(Size(l) - 1) |-> l[p]]
           /\ \A p \in 0..(Size(l) - 1) : l[p] \in Events
<1>1. PICK n \in 0..(MaxPosition + 1) : l \in [0..(n - 1) -> Events]
  BY DEF Lists
<1>2. Size(l) = n
  BY <1>1, ListMade
<1> QED BY <1>1, <1>2

LEMMA ListIsTable ==
    ASSUME NEW l \in Lists
    PROVE  IsTable(l)
BY ListShape, StoreAssumption DEF IsTable, Positions

LEMMA LastIsSize ==
    ASSUME NEW l \in Lists
    PROVE  LastPosition(l) = Size(l) - 1
<1> USE StoreAssumption
<1> DEFINE n == Size(l)
<1>1. n \in 0..(MaxPosition + 1) /\ DOMAIN l = 0..(n - 1)
  BY ListShape
<1>2. CASE n = 0
  BY <1>1, <1>2 DEF LastPosition
<1>3. CASE n # 0
  <2>1. n - 1 \in DOMAIN l /\ \A q \in DOMAIN l : q <= n - 1
    BY <1>1, <1>3
  <2>2. \A p \in DOMAIN l : (\A q \in DOMAIN l : q <= p) => p = n - 1
    BY <1>1, <2>1
  <2>3. DOMAIN l # {}
    BY <2>1
  <2> QED BY <2>1, <2>2, <2>3 DEF LastPosition
<1> QED BY <1>2, <1>3

(* Staging moves the rows behind q out of the way, whether the row at q is *)
(* still there (an insertion) or not (an erasure).                         *)
LEMMA StageTable ==
    ASSUME NEW l \in Lists, NEW q \in DOMAIN l, NEW kept, NEW t,
           \/ kept = 0..q /\ t = l
           \/ kept = 0..(q - 1) /\ t = Without(l, q)
    PROVE  /\ ~Clash(t, Behind(t, q), 1)
           /\ Renumbered(t, Behind(t, q), 1) = StagedAway(l, kept, q)
           /\ IsTable(StagedAway(l, kept, q))
           /\ Staged(StagedAway(l, kept, q)) = (-Size(l))..(-q - 2)
<1> USE StoreAssumption
<1> DEFINE n == Size(l)
           low == (-n)..(-q - 2)
<1>1. /\ n \in Nat /\ n <= MaxPosition + 1
      /\ DOMAIN l = 0..(n - 1)
      /\ q \in Nat /\ q < n
      /\ \A p \in 0..(n - 1) : l[p] \in Events
  BY ListShape
<1>2. /\ DOMAIN t = kept \cup (q + 1)..(n - 1)
      /\ \A p \in DOMAIN t : t[p] = l[p]
      /\ kept \subseteq 0..q
      /\ \A p \in kept : p \in Nat /\ p < n
  <2> HIDE DEF n
  <2>1. CASE kept = 0..q /\ t = l
    BY <1>1, <2>1
  <2>2. CASE kept = 0..(q - 1) /\ t = Without(l, q)
    BY <1>1, <2>2 DEF Without
  <2> QED BY <2>1, <2>2
<1> HIDE DEF n
<1>3. Behind(t, q) = (q + 1)..(n - 1)
  BY <1>1, <1>2 DEF Behind
<1>4. {-p - 1 : p \in (q + 1)..(n - 1)} = low
  <2>1. ASSUME NEW x \in low PROVE x \in {-p - 1 : p \in (q + 1)..(n - 1)}
    <3>1. -x - 1 \in (q + 1)..(n - 1) /\ x = -(-x - 1) - 1
      BY <1>1
    <3> QED BY <3>1
  <2>2. ASSUME NEW p \in (q + 1)..(n - 1) PROVE -p - 1 \in low
    BY <1>1
  <2> QED BY <2>1, <2>2
<1>5. DOMAIN t \ Behind(t, q) = kept
  BY <1>1, <1>2, <1>3
<1>6. ~Clash(t, Behind(t, q), 1)
  BY <1>1, <1>2, <1>3 DEF Clash
<1>7. Renumbered(t, Behind(t, q), 1)
        = [p \in kept \cup low |-> IF -p - 1 \in (q + 1)..(n - 1) THEN t[-p - 1] ELSE t[p]]
  BY <1>3, <1>4, <1>5, Zenon DEF Renumbered
<1>8. \A p \in kept \cup low :
         (IF -p - 1 \in (q + 1)..(n - 1) THEN t[-p - 1] ELSE t[p])
           = (IF p < 0 THEN l[-p - 1] ELSE l[p])
  <2> TAKE p \in kept \cup low
  <2>1. CASE p \in kept
    BY <1>1, <1>2, <2>1
  <2>2. CASE p \in low
    BY <1>1, <1>2, <2>2
  <2> QED BY <2>1, <2>2
<1>9. Renumbered(t, Behind(t, q), 1) = StagedAway(l, kept, q)
  <2>1. StagedAway(l, kept, q) = [p \in kept \cup low |-> IF p < 0 THEN l[-p - 1] ELSE l[p]]
    BY DEF StagedAway, n
  <2> QED BY <1>7, <1>8, <2>1
<1>10. /\ DOMAIN StagedAway(l, kept, q) = kept \cup low
       /\ \A p \in kept \cup low :
             StagedAway(l, kept, q)[p] = IF p < 0 THEN l[-p - 1] ELSE l[p]
       /\ StagedAway(l, kept, q)
            = [p \in DOMAIN StagedAway(l, kept, q) |-> StagedAway(l, kept, q)[p]]
  BY DEF StagedAway, n
<1>11. kept \cup low \subseteq Positions
  BY <1>1, <1>2 DEF Positions
<1>12. \A p \in kept \cup low : StagedAway(l, kept, q)[p] \in Events
  <2> TAKE p \in kept \cup low
  <2>1. CASE p \in kept
    BY <1>1, <1>2, <1>10, <2>1
  <2>2. CASE p \in low
    BY <1>1, <1>10, <2>2
  <2> QED BY <2>1, <2>2
<1>13. Staged(StagedAway(l, kept, q)) = low
  BY <1>1, <1>2, <1>10 DEF Staged
<1> QED BY <1>6, <1>9, <1>10, <1>11, <1>12, <1>13 DEF IsTable, n

(* An insertion brings the staged rows back one further.                   *)
LEMMA OpenTable ==
    ASSUME NEW l \in Lists, NEW q \in DOMAIN l, q # MaxPosition,
           NEW t, t = StagedAway(l, 0..q, q), ~TooLarge(Staged(t))
    PROVE  /\ Size(l) <= MaxPosition
           /\ ~Clash(t, Staged(t), 0)
           /\ Renumbered(t, Staged(t), 0) = Opened(l, q)
           /\ IsTable(Opened(l, q))
<1> USE StoreAssumption
<1> DEFINE n == Size(l)
           low == (-n)..(-q - 2)
           high == (q + 2)..n
<1>1. /\ n \in Nat /\ n <= MaxPosition + 1
      /\ DOMAIN l = 0..(n - 1)
      /\ q \in Nat /\ q < n
      /\ \A p \in 0..(n - 1) : l[p] \in Events
  BY ListShape
<1>2. Staged(t) = low
  BY StageTable
<1>3. /\ DOMAIN t = (0..q) \cup low
      /\ \A p \in (0..q) \cup low : t[p] = IF p < 0 THEN l[-p - 1] ELSE l[p]
  BY DEF StagedAway
<1>4. n <= MaxPosition
  <2>1. CASE q = n - 1
    BY <1>1, <2>1
  <2>2. CASE q # n - 1
    <3>1. -n \in low
      BY <1>1, <2>2
    <3>2. ~(-(-n) > MaxPosition)
      BY <1>2, <3>1 DEF TooLarge
    <3> QED BY <1>1, <3>2
  <2> QED BY <2>1, <2>2
<1> HIDE DEF n
<1>5. {-p - 0 : p \in low} = high
  <2>1. ASSUME NEW x \in high PROVE x \in {-p - 0 : p \in low}
    <3>1. -x \in low /\ x = -(-x) - 0
      BY <1>1
    <3> QED BY <3>1
  <2>2. ASSUME NEW p \in low PROVE -p - 0 \in high
    BY <1>1
  <2> QED BY <2>1, <2>2
<1>6. DOMAIN t \ low = 0..q
  BY <1>1, <1>3
<1>7. ~Clash(t, Staged(t), 0)
  BY <1>1, <1>2, <1>3 DEF Clash
<1>8. Renumbered(t, Staged(t), 0)
        = [p \in (0..q) \cup high |-> IF -p - 0 \in low THEN t[-p - 0] ELSE t[p]]
  BY <1>2, <1>5, <1>6, Zenon DEF Renumbered
<1>9. \A p \in (0..q) \cup high :
         (IF -p - 0 \in low THEN t[-p - 0] ELSE t[p]) = (IF p <= q THEN l[p] ELSE l[p - 1])
  <2> TAKE p \in (0..q) \cup high
  <2>1. CASE p \in 0..q
    BY <1>1, <1>3, <2>1
  <2>2. CASE p \in high
    <3>1. -p - 0 \in low /\ -p - 0 < 0 /\ -(-p - 0) - 1 = p - 1 /\ ~(p <= q)
      BY <1>1, <2>2
    <3>2. t[-p - 0] = l[-(-p - 0) - 1]
      BY <1>3, <3>1
    <3> QED BY <3>1, <3>2
  <2> QED BY <2>1, <2>2
<1>10. Opened(l, q) = [p \in (0..q) \cup high |-> IF p <= q THEN l[p] ELSE l[p - 1]]
  BY DEF Opened, n
<1>11. Renumbered(t, Staged(t), 0) = Opened(l, q)
  BY <1>8, <1>9, <1>10
<1>12. /\ DOMAIN Opened(l, q) = (0..q) \cup high
       /\ \A p \in (0..q) \cup high :
             Opened(l, q)[p] = IF p <= q THEN l[p] ELSE l[p - 1]
       /\ Opened(l, q) = [p \in DOMAIN Opened(l, q) |-> Opened(l, q)[p]]
  BY <1>10
<1>13. (0..q) \cup high \subseteq Positions
  BY <1>1, <1>4 DEF Positions
<1>14. \A p \in (0..q) \cup high : Opened(l, q)[p] \in Events
  BY <1>1, <1>12
<1> QED BY <1>4, <1>7, <1>11, <1>12, <1>13, <1>14 DEF IsTable, n

(* An erasure brings them back one nearer.                                 *)
LEMMA CloseTable ==
    ASSUME NEW l \in Lists, NEW q \in DOMAIN l,
           NEW t, t = StagedAway(l, 0..(q - 1), q)
    PROVE  /\ ~Clash(t, Staged(t), 2)
           /\ Renumbered(t, Staged(t), 2) = Log!Erased(l, q)
           /\ Log!Erased(l, q) \in Lists
<1> USE StoreAssumption
<1> DEFINE n == Size(l)
           low == (-n)..(-q - 2)
           high == q..(n - 2)
<1>1. /\ n \in Nat /\ n <= MaxPosition + 1
      /\ DOMAIN l = 0..(n - 1)
      /\ q \in Nat /\ q < n
      /\ \A p \in 0..(n - 1) : l[p] \in Events
  BY ListShape
<1>2. Staged(t) = low
  BY StageTable
<1>3. /\ DOMAIN t = (0..(q - 1)) \cup low
      /\ \A p \in (0..(q - 1)) \cup low : t[p] = IF p < 0 THEN l[-p - 1] ELSE l[p]
  BY DEF StagedAway
<1> HIDE DEF n
<1>5. {-p - 2 : p \in low} = high
  <2>1. ASSUME NEW x \in high PROVE x \in {-p - 2 : p \in low}
    <3>1. -x - 2 \in low /\ x = -(-x - 2) - 2
      BY <1>1
    <3> QED BY <3>1
  <2>2. ASSUME NEW p \in low PROVE -p - 2 \in high
    BY <1>1
  <2> QED BY <2>1, <2>2
<1>6. DOMAIN t \ low = 0..(q - 1)
  BY <1>1, <1>3
<1>7. ~Clash(t, Staged(t), 2)
  <2>1. ASSUME NEW p \in low PROVE -p - 2 \notin DOMAIN t
    BY <1>1, <1>3
  <2> QED BY <1>2, <2>1, Zenon DEF Clash
<1>8. (0..(q - 1)) \cup high = 0..(n - 2)
  BY <1>1
<1>9. Renumbered(t, Staged(t), 2)
        = [p \in 0..(n - 2) |-> IF -p - 2 \in low THEN t[-p - 2] ELSE t[p]]
  BY <1>2, <1>5, <1>6, <1>8, Zenon DEF Renumbered
<1>10. \A p \in 0..(n - 2) :
         (IF -p - 2 \in low THEN t[-p - 2] ELSE t[p]) = (IF p < q THEN l[p] ELSE l[p + 1])
  <2> TAKE p \in 0..(n - 2)
  <2>1. CASE p < q
    <3>1. p \in 0..(q - 1) /\ -p - 2 \notin low /\ ~(p < 0)
      BY <1>1, <2>1
    <3> QED BY <1>3, <2>1, <3>1
  <2>2. CASE ~(p < q)
    <3>1. -p - 2 \in low /\ -p - 2 < 0 /\ -(-p - 2) - 1 = p + 1
      BY <1>1, <2>2
    <3>2. t[-p - 2] = l[-(-p - 2) - 1]
      BY <1>3, <3>1
    <3> QED BY <2>2, <3>1, <3>2
  <2> QED BY <2>1, <2>2
<1>11. Log!Erased(l, q) = [p \in 0..(n - 2) |-> IF p < q THEN l[p] ELSE l[p + 1]]
  BY DEF Log!Erased, Size, n
<1>12. Renumbered(t, Staged(t), 2) = Log!Erased(l, q)
  BY <1>9, <1>10, <1>11
<1>13. Log!Erased(l, q) \in Lists
  <2>1. n - 1 \in 0..(MaxPosition + 1) /\ (n - 1) - 1 = n - 2
    BY <1>1
  <2>2. Log!Erased(l, q) \in [0..((n - 1) - 1) -> Events]
    BY <1>1, <1>11, <2>1
  <2> QED BY <2>1, <2>2, ListMade
<1> QED BY <1>7, <1>12, <1>13

(* The new row takes the room that was made.                               *)
LEMMA FillTable ==
    ASSUME NEW l \in Lists, NEW q \in DOMAIN l, NEW e \in Events,
           Size(l) <= MaxPosition
    PROVE  /\ q + 1 \notin DOMAIN Opened(l, q)
           /\ With(Opened(l, q), q + 1, e) = Log!Inserted(l, q, e)
           /\ Log!Inserted(l, q, e) \in Lists
<1> USE StoreAssumption
<1> DEFINE n == Size(l)
           o == Opened(l, q)
<1>1. /\ n \in Nat /\ n <= MaxPosition
      /\ DOMAIN l = 0..(n - 1)
      /\ q \in Nat /\ q < n
      /\ \A p \in 0..(n - 1) : l[p] \in Events
  BY ListShape
<1>2. /\ DOMAIN o = (0..q) \cup (q + 2)..n
      /\ \A p \in DOMAIN o : o[p] = IF p <= q THEN l[p] ELSE l[p - 1]
  BY DEF Opened
<1>3. Log!Inserted(l, q, e)
        = [p \in 0..n |-> IF p <= q THEN l[p] ELSE IF p = q + 1 THEN e ELSE l[p - 1]]
  BY DEF Log!Inserted, Size
<1> HIDE DEF n, o
<1>4. q + 1 \notin DOMAIN o /\ DOMAIN o \cup {q + 1} = 0..n
  BY <1>1, <1>2
<1>5. With(o, q + 1, e) = [p \in 0..n |-> IF p = q + 1 THEN e ELSE o[p]]
  BY <1>4, Zenon DEF With
<1>6. \A p \in 0..n : (IF p = q + 1 THEN e ELSE o[p])
         = (IF p <= q THEN l[p] ELSE IF p = q + 1 THEN e ELSE l[p - 1])
  BY <1>1, <1>2, <1>4
<1>7. With(o, q + 1, e) = Log!Inserted(l, q, e)
  BY <1>3, <1>5, <1>6
<1>8. Log!Inserted(l, q, e) \in Lists
  <2>1. n + 1 \in 0..(MaxPosition + 1) /\ (n + 1) - 1 = n
    BY <1>1
  <2>2. Log!Inserted(l, q, e) \in [0..((n + 1) - 1) -> Events]
    BY <1>1, <1>3, <2>1
  <2> QED BY <2>1, <2>2, ListMade
<1> QED BY <1>4, <1>7, <1>8 DEF o

(* An appended row is the first one behind the list.                       *)
LEMMA AppendTable ==
    ASSUME NEW l \in Lists, NEW e \in Events, Size(l) <= MaxPosition
    PROVE  /\ Size(l) \notin DOMAIN l
           /\ With(l, Size(l), e) = Log!Appended(l, e)
           /\ Log!Appended(l, e) \in Lists
<1> USE StoreAssumption
<1> DEFINE n == Size(l)
<1>1. /\ n \in Nat /\ n <= MaxPosition
      /\ DOMAIN l = 0..(n - 1)
      /\ \A p \in 0..(n - 1) : l[p] \in Events
  BY ListShape
<1>2. Log!Appended(l, e) = [p \in 0..n |-> IF p = n THEN e ELSE l[p]]
  BY DEF Log!Appended, Size
<1> HIDE DEF n
<1>3. n \notin DOMAIN l /\ DOMAIN l \cup {n} = 0..n
  BY <1>1
<1>4. With(l, n, e) = Log!Appended(l, e)
  BY <1>2, <1>3, Zenon DEF With
<1>5. Log!Appended(l, e) \in Lists
  <2>1. n + 1 \in 0..(MaxPosition + 1) /\ (n + 1) - 1 = n
    BY <1>1
  <2>2. Log!Appended(l, e) \in [0..((n + 1) - 1) -> Events]
    BY <1>1, <1>2, <2>1
  <2> QED BY <2>1, <2>2, ListMade
<1> QED BY <1>3, <1>4, <1>5 DEF n

LEMMA WithoutTable ==
    ASSUME NEW t, IsTable(t), NEW q
    PROVE  IsTable(Without(t, q))
BY DEF IsTable, Without

-----------------------------------------------------------------------------
(* The callers.                                                            *)

LEMMA AnswersDiffer ==
    /\ \A p : Log!Position(p) # NoAnswer
    /\ \A l : Log!Rows(l) # NoAnswer
    /\ \A w \in {"throws", "out_of_range", "removed", "missing"} : Log!Answer(w) # NoAnswer
BY DEF NoAnswer, Log!NoAnswer, Log!Position, Log!Rows, Log!Answer

LEMMA RequestFields ==
    ASSUME NEW c \in Callers, CallerOK(c), pc[c] # "idle"
    PROVE  /\ request[c] \in Requests[c]
           /\ request[c] # NoRequest
           /\ request[c].op \in Operations
           /\ request[c].position \in Positions
           /\ request[c].event \in Events
<1>1. request[c] \in Requests[c]
  BY DEF CallerOK
<1> QED BY <1>1, StoreAssumption

LEMMA StoreOfCaller ==
    ASSUME NEW c \in Callers
    PROVE  StoreOf[c] \in Stores /\ StoreOf[c] # NoStore
BY StoreAssumption

(* Two callers are never in a transaction at the same time.                *)
LEMMA Alone ==
    ASSUME NEW c \in Callers, NEW d \in Callers, CallerOK(c), CallerOK(d),
           pc[c] \in Busy, pc[d] \in Busy
    PROVE  c = d
<1>1. writer = StoreOf[c] /\ writer = StoreOf[d]
  BY DEF CallerOK
<1>2. mutex[StoreOf[c]] = c /\ mutex[StoreOf[d]] = d
  BY DEF CallerOK, Busy, InTransaction
<1> QED BY <1>1, <1>2

(* What one caller does leaves the others as they are.                     *)
LEMMA OthersStay ==
    ASSUME NEW d \in Callers, CallerOK(d),
           pc'[d] = pc[d], request'[d] = request[d],
           reply'[d] = reply[d], answer'[d] = answer[d],
           mutex'[StoreOf[d]] = d <=> mutex[StoreOf[d]] = d,
           pc[d] \in Busy => rows' = rows /\ image' = image /\ writer' = writer
    PROVE  CallerOK(d)'
<1>1. Progress(pc[d], request[d], reply[d], rows', image')
  <2>1. CASE pc[d] \in Busy
    BY <2>1, Zenon DEF CallerOK
  <2>2. CASE pc[d] \notin Busy
    BY <2>2 DEF CallerOK, Progress, Busy, InTransaction
  <2> QED BY <2>1, <2>2
<1> QED BY <1>1 DEF CallerOK

(* The invariant after a step of c is that of what is shared, and of c.    *)
LEMMA StepOf ==
    ASSUME IInv, NEW c \in Callers,
           SharedOK', CallerOK(c)',
           \A d \in Callers \ {c} :
              /\ pc'[d] = pc[d] /\ request'[d] = request[d]
              /\ reply'[d] = reply[d] /\ answer'[d] = answer[d]
              /\ mutex'[StoreOf[d]] = d <=> mutex[StoreOf[d]] = d
              /\ pc[d] \in Busy => rows' = rows /\ image' = image /\ writer' = writer
    PROVE  IInv'
<1>1. ASSUME NEW d \in Callers PROVE CallerOK(d)'
  <2>1. CASE d = c
    BY <2>1
  <2>2. CASE d # c
    BY <2>2, OthersStay DEF IInv
  <2> QED BY <2>1, <2>2
<1> QED BY <1>1 DEF IInv

LEMMA InitInv == Init => IInv
<1> SUFFICES ASSUME Init PROVE IInv
  OBVIOUS
<1> USE StoreAssumption
<1>1. SharedOK
  BY ListIsTable DEF Init, SharedOK
<1>2. ASSUME NEW c \in Callers PROVE CallerOK(c)
  <2>1. mutex[StoreOf[c]] = NoCaller /\ c # NoCaller
    BY DEF Init
  <2> QED BY <2>1 DEF Init, CallerOK, Labels, Busy, InTransaction, Progress
<1> QED BY <1>1, <1>2 DEF IInv

-----------------------------------------------------------------------------
(* What the statements come to when the invariant holds.                   *)

LEMMA ReadLastDoes ==
    ASSUME IInv, NEW c \in Callers, ReadLast(c)
    PROVE  \/ Unwind(c, Throws)
           \/ /\ reply' = [reply EXCEPT ![c] = Log!Position(Size(rows))]
              /\ RoomForAppend(request[c], Log!Position(Size(rows)), rows, image)
              /\ Goto(c, "inserting")
              /\ UNCHANGED <<rows, image, writer, mutex, request, answer>>
<1>1. image = rows /\ request[c].op = "append" /\ rows \in Lists
  BY DEF IInv, SharedOK, CallerOK, ReadLast, Progress
<1>2. LastPosition(image) = Size(rows) - 1 /\ Size(rows) \in 0..(MaxPosition + 1)
  BY <1>1, LastIsSize, ListShape
<1>3. CASE LastPosition(image) = MaxPosition
  BY <1>3 DEF ReadLast
<1>4. CASE LastPosition(image) # MaxPosition
  <2>1. LastPosition(image) + 1 = Size(rows) /\ Size(rows) <= MaxPosition
    BY <1>2, <1>4, StoreAssumption
  <2> QED BY <1>1, <1>4, <2>1 DEF ReadLast, RoomForAppend
<1> QED BY <1>3, <1>4

LEMMA LookDoes ==
    ASSUME IInv, NEW c \in Callers, Look(c)
    PROVE  /\ request[c].op = "insert_after"
           /\ \/ /\ request[c].position \notin DOMAIN rows
                 /\ Unwind(c, Log!Answer("out_of_range"))
              \/ /\ Within(request[c], rows)
                 /\ image = Before(request[c], rows)
                 /\ reply' = [reply EXCEPT ![c] = Owed(request[c])]
                 /\ Goto(c, "staging")
                 /\ UNCHANGED <<rows, image, writer, mutex, request, answer>>
<1>1. /\ image = rows
      /\ request[c].op = "insert_after"
      /\ request[c].position # MaxPosition
  BY DEF IInv, CallerOK, Look, Progress
<1> QED BY <1>1 DEF Look, Within, Before, Owed

LEMMA DeleteDoes ==
    ASSUME IInv, NEW c \in Callers, Delete(c)
    PROVE  /\ UNCHANGED <<rows, writer, mutex, request, answer>>
           /\ \/ /\ Within(request[c], rows)
                 /\ image' = Before(request[c], rows)
                 /\ reply' = [reply EXCEPT ![c] = Owed(request[c])]
                 /\ Goto(c, "staging")
              \/ /\ NothingToErase(request[c], Log!Answer("missing"), rows, image)
                 /\ image' = image
                 /\ reply' = [reply EXCEPT ![c] = Log!Answer("missing")]
                 /\ Goto(c, "committing")
<1>1. /\ image = rows
      /\ request[c].op = "erase"
  BY DEF IInv, CallerOK, Delete, Progress
<1> QED BY <1>1 DEF Delete, Within, Before, Owed, NothingToErase

LEMMA StageDoes ==
    ASSUME IInv, NEW c \in Callers, Stage(c)
    PROVE  /\ Within(request[c], rows)
           /\ reply[c] = Owed(request[c])
           /\ image' = StagedAway(rows, Kept(request[c]), request[c].position)
           /\ IsTable(image')
           /\ Goto(c, "restoring")
           /\ UNCHANGED <<rows, writer, mutex, request, reply, answer>>
<1> DEFINE r == request[c]
           q == request[c].position
<1>1. /\ Within(r, rows)
      /\ reply[c] = Owed(r)
      /\ image = Before(r, rows)
      /\ rows \in Lists
  BY DEF IInv, SharedOK, CallerOK, Stage, Progress
<1>2. \/ Kept(r) = 0..q /\ image = rows
      \/ Kept(r) = 0..(q - 1) /\ image = Without(rows, q)
  BY <1>1 DEF Before, Kept
<1>3. q \in DOMAIN rows
  BY <1>1 DEF Within
<1>4. /\ ~Clash(image, Behind(image, q), 1)
      /\ Renumbered(image, Behind(image, q), 1) = StagedAway(rows, Kept(r), q)
      /\ IsTable(StagedAway(rows, Kept(r), q))
  BY <1>1, <1>2, <1>3, StageTable
<1> QED BY <1>1, <1>4 DEF Stage

LEMMA RestoreDoes ==
    ASSUME IInv, NEW c \in Callers, Restore(c)
    PROVE  \/ Unwind(c, Throws)
           \/ /\ UNCHANGED <<rows, writer, mutex, request, reply, answer>>
              /\ IsTable(image')
              /\ \/ /\ RoomForInsert(request[c], reply[c], rows, image')
                    /\ Goto(c, "inserting")
                 \/ /\ Done(request[c], reply[c], rows, image')
                    /\ Goto(c, "committing")
<1> DEFINE r == request[c]
           q == request[c].position
<1>1. /\ Within(r, rows)
      /\ reply[c] = Owed(r)
      /\ image = StagedAway(rows, Kept(r), q)
      /\ rows \in Lists
  BY DEF IInv, SharedOK, CallerOK, Restore, Progress
<1>2. CASE TooLarge(Staged(image))
  BY <1>2 DEF Restore
<1>3. CASE ~TooLarge(Staged(image)) /\ r.op = "insert_after"
  <2>1. q \in DOMAIN rows /\ q # MaxPosition /\ image = StagedAway(rows, 0..q, q)
    BY <1>1, <1>3 DEF Within, Kept
  <2>2. /\ Size(rows) <= MaxPosition
        /\ ~Clash(image, Staged(image), 0)
        /\ Renumbered(image, Staged(image), 0) = Opened(rows, q)
        /\ IsTable(Opened(rows, q))
    BY <1>1, <1>3, <2>1, OpenTable
  <2>3. /\ image' = Opened(rows, q)
        /\ Goto(c, "inserting")
        /\ UNCHANGED <<rows, writer, mutex, request, reply, answer>>
    BY <1>3, <2>2 DEF Restore, Shift
  <2>4. RoomForInsert(r, reply[c], rows, image')
    BY <1>1, <1>3, <2>1, <2>2, <2>3 DEF RoomForInsert, Owed
  <2> QED BY <2>2, <2>3, <2>4
<1>4. CASE ~TooLarge(Staged(image)) /\ r.op # "insert_after"
  <2>1. r.op = "erase" /\ q \in DOMAIN rows /\ image = StagedAway(rows, 0..(q - 1), q)
    BY <1>1, <1>4 DEF Within, Kept
  <2>2. /\ ~Clash(image, Staged(image), 2)
        /\ Renumbered(image, Staged(image), 2) = Log!Erased(rows, q)
        /\ Log!Erased(rows, q) \in Lists
    BY <1>1, <2>1, CloseTable
  <2>3. /\ image' = Log!Erased(rows, q)
        /\ Goto(c, "committing")
        /\ UNCHANGED <<rows, writer, mutex, request, reply, answer>>
    BY <1>4, <2>2 DEF Restore, Shift
  <2>4. Done(r, reply[c], rows, image')
    BY <1>1, <1>4, <2>1, <2>2, <2>3 DEF Done, EraseDone, Owed
  <2>5. IsTable(image')
    BY <2>2, <2>3, ListIsTable
  <2> QED BY <2>3, <2>4, <2>5
<1> QED BY <1>2, <1>3, <1>4

LEMMA InsertDoes ==
    ASSUME IInv, NEW c \in Callers, Insert(c)
    PROVE  /\ Done(request[c], reply[c], rows, image')
           /\ IsTable(image')
           /\ Goto(c, "committing")
           /\ UNCHANGED <<rows, writer, mutex, request, reply, answer>>
<1> DEFINE r == request[c]
           q == request[c].position
<1>1. /\ rows \in Lists
      /\ RoomForAppend(r, reply[c], rows, image) \/ RoomForInsert(r, reply[c], rows, image)
  BY DEF IInv, SharedOK, CallerOK, Insert, Progress
<1>2. r.event \in Events
  BY RequestFields DEF IInv, Insert
<1>3. CASE RoomForAppend(r, reply[c], rows, image)
  <2>1. /\ Size(rows) <= MaxPosition
        /\ reply[c].position = Size(rows)
        /\ image = rows
    BY <1>3 DEF RoomForAppend, Log!Position
  <2>2. /\ Size(rows) \notin DOMAIN rows
        /\ With(rows, Size(rows), r.event) = Log!Appended(rows, r.event)
        /\ Log!Appended(rows, r.event) \in Lists
    BY <1>1, <1>2, <2>1, AppendTable
  <2>3. /\ image' = Log!Appended(rows, r.event)
        /\ Goto(c, "committing")
        /\ UNCHANGED <<rows, writer, mutex, request, reply, answer>>
    BY <2>1, <2>2 DEF Insert
  <2>4. Done(r, reply[c], rows, image')
    BY <1>3, <2>2, <2>3 DEF Done, AppendDone, RoomForAppend
  <2> QED BY <2>2, <2>3, <2>4, ListIsTable
<1>4. CASE RoomForInsert(r, reply[c], rows, image)
  <2>1. /\ Size(rows) <= MaxPosition
        /\ q \in DOMAIN rows
        /\ reply[c].position = q + 1
        /\ image = Opened(rows, q)
    BY <1>4 DEF RoomForInsert, Log!Position
  <2>2. /\ q + 1 \notin DOMAIN image
        /\ With(image, q + 1, r.event) = Log!Inserted(rows, q, r.event)
        /\ Log!Inserted(rows, q, r.event) \in Lists
    BY <1>1, <1>2, <2>1, FillTable
  <2>3. /\ image' = Log!Inserted(rows, q, r.event)
        /\ Goto(c, "committing")
        /\ UNCHANGED <<rows, writer, mutex, request, reply, answer>>
    BY <2>1, <2>2 DEF Insert
  <2>4. Done(r, reply[c], rows, image')
    BY <1>4, <2>2, <2>3 DEF Done, InsertDone, RoomForInsert
  <2> QED BY <2>2, <2>3, <2>4, ListIsTable
<1> QED BY <1>1, <1>3, <1>4

-----------------------------------------------------------------------------
(* The invariant is kept.                                                  *)

LEMMA UnwindInv ==
    ASSUME IInv, NEW c \in Callers, NEW a, a # NoAnswer,
           pc[c] \in InTransaction, Unwind(c, a)
    PROVE  IInv'
<1> USE DEF Unwind, Goto
<1>1. SharedOK'
  BY DEF IInv, SharedOK
<1>2. pc'[c] = "unwinding" /\ answer'[c] = a
  BY DEF IInv, SharedOK
<1>3. CallerOK(c)'
  BY <1>2 DEF IInv, CallerOK, Labels, Busy, InTransaction, Progress
<1>4. ASSUME NEW d \in Callers \ {c}
      PROVE  /\ pc'[d] = pc[d] /\ request'[d] = request[d]
             /\ reply'[d] = reply[d] /\ answer'[d] = answer[d]
             /\ mutex'[StoreOf[d]] = d <=> mutex[StoreOf[d]] = d
             /\ rows' = rows /\ image' = image /\ writer' = writer
  BY DEF IInv, SharedOK
<1> QED BY <1>1, <1>3, <1>4, StepOf

(* The steps that take a busy caller from one label to the next.           *)
LEMMA StatementInv ==
    ASSUME IInv, NEW c \in Callers, NEW label \in InTransaction,
           pc[c] \in InTransaction, Goto(c, label),
           IsTable(image'), UNCHANGED <<rows, writer, mutex, request, answer>>,
           NEW a, reply' = [reply EXCEPT ![c] = a],
           Progress(label, request[c], a, rows, image')
    PROVE  IInv'
<1> USE DEF Goto
<1>1. writer = StoreOf[c] /\ writer # NoStore
  BY StoreOfCaller DEF IInv, CallerOK, Busy
<1>2. SharedOK'
  BY <1>1 DEF IInv, SharedOK
<1>3. pc'[c] = label /\ reply'[c] = a
  BY DEF IInv, SharedOK
<1>4. CallerOK(c)'
  <2>1. Progress(pc'[c], request'[c], reply'[c], rows', image')
    BY <1>3
  <2>2. /\ label \in Labels
        /\ label \notin {"idle", "locking", "unwinding", "leaving"}
        /\ pc[c] \notin {"idle", "locking", "unwinding", "leaving"}
    BY DEF InTransaction, Labels
  <2> QED BY <1>1, <1>3, <2>1, <2>2 DEF IInv, CallerOK, Busy
<1>5. ASSUME NEW d \in Callers \ {c}
      PROVE  /\ pc'[d] = pc[d] /\ request'[d] = request[d]
             /\ reply'[d] = reply[d] /\ answer'[d] = answer[d]
             /\ mutex'[StoreOf[d]] = d <=> mutex[StoreOf[d]] = d
             /\ pc[d] \notin Busy
  <2>1. pc[d] \notin Busy
    BY Alone DEF IInv, Busy
  <2> QED BY <2>1 DEF IInv, SharedOK
<1> QED BY <1>2, <1>4, <1>5, StepOf

(* The steps outside a transaction that touch neither table nor lock.      *)
LEMMA OutsideInv ==
    ASSUME IInv, NEW c \in Callers, UNCHANGED <<rows, image, writer>>,
           NEW label, pc' = [pc EXCEPT ![c] = label],
           NEW m, mutex' = [mutex EXCEPT ![StoreOf[c]] = m],
           NEW r, request' = [request EXCEPT ![c] = r],
           NEW b, reply' = [reply EXCEPT ![c] = b],
           NEW a, answer' = [answer EXCEPT ![c] = a],
           mutex[StoreOf[c]] = m \/ {mutex[StoreOf[c]], m} \subseteq {c, NoCaller},
           label \in Labels \ Busy,
           r \in Requests[c] \cup {NoRequest},
           r = NoRequest <=> label = "idle",
           m = c <=> label \notin {"idle", "locking"},
           a = NoAnswer <=> label # "leaving",
           Progress(label, r, b, rows, image)
    PROVE  IInv'
<1> USE StoreAssumption
<1>1. SharedOK'
  BY DEF IInv, SharedOK
<1>2. /\ pc'[c] = label /\ mutex'[StoreOf[c]] = m /\ request'[c] = r
      /\ reply'[c] = b /\ answer'[c] = a
  BY DEF IInv, SharedOK
<1>3. CallerOK(c)'
  <2>1. Progress(pc'[c], request'[c], reply'[c], rows', image')
    BY <1>2
  <2> QED BY <1>2, <2>1 DEF CallerOK, Busy
<1>4. ASSUME NEW d \in Callers \ {c}
      PROVE  /\ pc'[d] = pc[d] /\ request'[d] = request[d]
             /\ reply'[d] = reply[d] /\ answer'[d] = answer[d]
             /\ mutex'[StoreOf[d]] = d <=> mutex[StoreOf[d]] = d
             /\ rows' = rows /\ image' = image /\ writer' = writer
  <2>1. d # NoCaller /\ d # c
    OBVIOUS
  <2> QED BY <2>1 DEF IInv, SharedOK
<1> QED BY <1>1, <1>3, <1>4, StepOf

LEMMA CallInv ==
    ASSUME IInv, NEW c \in Callers, Call(c)
    PROVE  IInv'
<1> DEFINE m == mutex[StoreOf[c]]
<1>1. PICK r \in Requests[c] : request' = [request EXCEPT ![c] = r]
  BY DEF Call
<1>2. /\ pc[c] = "idle" /\ pc' = [pc EXCEPT ![c] = "locking"]
      /\ UNCHANGED <<rows, image, writer, mutex, reply, answer>>
  BY DEF Call, Goto
<1>3. /\ m # c /\ answer[c] = NoAnswer
  BY <1>2 DEF IInv, CallerOK
<1>4. /\ mutex' = [mutex EXCEPT ![StoreOf[c]] = m]
      /\ reply' = [reply EXCEPT ![c] = reply[c]]
      /\ answer' = [answer EXCEPT ![c] = answer[c]]
  BY <1>2, StoreOfCaller DEF IInv, SharedOK
<1>5. r # NoRequest
  BY <1>1, StoreAssumption
<1>6. Progress("locking", r, reply[c], rows, image)
  BY DEF Progress
<1>7. "locking" \in Labels \ Busy
  BY DEF Labels, Busy, InTransaction
<1> HIDE DEF m
<1> QED BY <1>1, <1>2, <1>3, <1>4, <1>5, <1>6, <1>7, OutsideInv DEF m

LEMMA LockInv ==
    ASSUME IInv, NEW c \in Callers, Lock(c)
    PROVE  IInv'
<1> DEFINE label == IF request[c].op = "query" THEN "querying" ELSE "beginning"
<1>1. /\ pc[c] = "locking" /\ pc' = [pc EXCEPT ![c] = label]
      /\ mutex[StoreOf[c]] = NoCaller /\ mutex' = [mutex EXCEPT ![StoreOf[c]] = c]
      /\ UNCHANGED <<rows, image, writer, request, reply, answer>>
  BY DEF Lock, Goto
<1>2. answer[c] = NoAnswer
  BY <1>1 DEF IInv, CallerOK
<1>3. request[c] \in Requests[c] /\ request[c] # NoRequest
  BY <1>1, RequestFields DEF IInv
<1>4. /\ request' = [request EXCEPT ![c] = request[c]]
      /\ reply' = [reply EXCEPT ![c] = reply[c]]
      /\ answer' = [answer EXCEPT ![c] = answer[c]]
  BY <1>1 DEF IInv, SharedOK
<1>5. Progress(label, request[c], reply[c], rows, image)
  BY DEF Progress
<1>6. label \in Labels \ Busy /\ label \notin {"idle", "locking", "leaving"}
  BY DEF Labels, Busy, InTransaction
<1> HIDE DEF label
<1> QED BY <1>1, <1>2, <1>3, <1>4, <1>5, <1>6, OutsideInv

LEMMA AnswerInv ==
    ASSUME IInv, NEW c \in Callers, pc[c] \in {"beginning", "querying"},
           NEW a, a # NoAnswer, answer' = [answer EXCEPT ![c] = a],
           Goto(c, "leaving"), UNCHANGED <<rows, image, writer, mutex, request, reply>>
    PROVE  IInv'
<1> DEFINE m == mutex[StoreOf[c]]
<1>1. request[c] \in Requests[c] /\ request[c] # NoRequest
  BY RequestFields DEF IInv
<1>2. m = c
  BY DEF IInv, CallerOK
<1>3. /\ pc' = [pc EXCEPT ![c] = "leaving"]
      /\ mutex' = [mutex EXCEPT ![StoreOf[c]] = m]
      /\ request' = [request EXCEPT ![c] = request[c]]
      /\ reply' = [reply EXCEPT ![c] = reply[c]]
  BY StoreOfCaller DEF IInv, SharedOK, Goto
<1>4. Progress("leaving", request[c], reply[c], rows, image)
  BY DEF Progress
<1>5. "leaving" \in Labels \ Busy
  BY DEF Labels, Busy, InTransaction
<1> HIDE DEF m
<1> QED BY <1>1, <1>2, <1>3, <1>4, <1>5, OutsideInv DEF m

LEMMA LeaveInv ==
    ASSUME IInv, NEW c \in Callers, Leave(c)
    PROVE  IInv'
<1>1. mutex[StoreOf[c]] = c
  BY DEF IInv, CallerOK, Leave
<1>2. Progress("idle", NoRequest, NoAnswer, rows, image)
  BY DEF Progress
<1>3. "idle" \in Labels \ Busy
  BY DEF Labels, Busy, InTransaction
<1>4. NoCaller # c
  BY StoreAssumption
<1> QED BY <1>1, <1>2, <1>3, <1>4, OutsideInv DEF Leave, Goto

LEMMA BeginInv ==
    ASSUME IInv, NEW c \in Callers, Begin(c)
    PROVE  IInv'
<1> DEFINE label == FirstStatement(request[c])
<1> USE DEF Begin, Goto
<1>1. image = rows
  BY DEF IInv, SharedOK
<1>2. SharedOK'
  BY <1>1, StoreOfCaller DEF IInv, SharedOK
<1>3. pc'[c] = label /\ writer' = StoreOf[c]
  BY DEF IInv, SharedOK
<1>4. /\ request[c].op \in Operations
      /\ request[c].op # "query"
      /\ ~Overflows(request[c])
  BY RequestFields DEF IInv, CallerOK, Progress
<1>5. Progress(label, request[c], reply[c], rows, image)
  BY <1>1, <1>4 DEF Progress, FirstStatement, Operations, Overflows
<1>6. CallerOK(c)'
  <2>1. Progress(pc'[c], request'[c], reply'[c], rows', image')
    BY <1>3, <1>5
  <2>2. label \in InTransaction
    BY DEF InTransaction, FirstStatement
  <2>3. label \in Labels /\ label \notin {"idle", "locking", "unwinding", "leaving"}
    BY DEF Labels, InTransaction, FirstStatement
  <2> QED BY <1>3, <2>1, <2>2, <2>3 DEF IInv, CallerOK, Busy
<1>7. ASSUME NEW d \in Callers \ {c}
      PROVE  /\ pc'[d] = pc[d] /\ request'[d] = request[d]
             /\ reply'[d] = reply[d] /\ answer'[d] = answer[d]
             /\ mutex'[StoreOf[d]] = d <=> mutex[StoreOf[d]] = d
             /\ pc[d] \notin Busy
  <2>1. pc[d] \notin Busy
    BY StoreOfCaller DEF IInv, CallerOK
  <2> QED BY <2>1 DEF IInv, SharedOK
<1> QED BY <1>2, <1>6, <1>7, StepOf

(* Commit and Rollback end the transaction.                                *)
LEMMA EndInv ==
    ASSUME IInv, NEW c \in Callers, pc[c] \in Busy,
           rows' \in Lists, image' = rows', writer' = NoStore,
           NEW a, a # NoAnswer, answer' = [answer EXCEPT ![c] = a],
           Goto(c, "leaving"), UNCHANGED <<mutex, request, reply>>
    PROVE  IInv'
<1> USE DEF Goto
<1>1. SharedOK'
  BY ListIsTable DEF IInv, SharedOK
<1>2. pc'[c] = "leaving" /\ answer'[c] = a
  BY DEF IInv, SharedOK
<1>3. CallerOK(c)'
  BY <1>2 DEF IInv, CallerOK, Labels, Busy, InTransaction, Progress
<1>4. ASSUME NEW d \in Callers \ {c}
      PROVE  /\ pc'[d] = pc[d] /\ request'[d] = request[d]
             /\ reply'[d] = reply[d] /\ answer'[d] = answer[d]
             /\ mutex'[StoreOf[d]] = d <=> mutex[StoreOf[d]] = d
             /\ pc[d] \notin Busy
  <2>1. pc[d] \notin Busy
    BY Alone DEF IInv
  <2> QED BY <2>1 DEF IInv, SharedOK
<1> QED BY <1>1, <1>3, <1>4, StepOf

LEMMA ReplyIsAnswer ==
    ASSUME NEW r, NEW a, NEW l, NEW t, Done(r, a, l, t)
    PROVE  a # NoAnswer
BY AnswersDiffer DEF Done, AppendDone, InsertDone, EraseDone, NothingToErase

LEMMA CrashInv ==
    ASSUME IInv, NEW s \in Stores, Crash(s)
    PROVE  IInv'
<1> USE StoreAssumption
<1>1. SharedOK'
  <2>1. rows' \in Lists /\ IsTable(rows)
    BY ListIsTable DEF IInv, SharedOK, Crash
  <2> QED BY <2>1 DEF IInv, SharedOK, Crash
<1>2. ASSUME NEW d \in Callers PROVE CallerOK(d)'
  <2>1. CASE StoreOf[d] = s
    <3>1. /\ pc'[d] = "idle" /\ request'[d] = NoRequest /\ reply'[d] = NoAnswer
          /\ answer'[d] = NoAnswer /\ mutex'[StoreOf[d]] = NoCaller
      BY <2>1 DEF IInv, SharedOK, Crash
    <3>2. d # NoCaller
      OBVIOUS
    <3> QED BY <3>1, <3>2 DEF CallerOK, Labels, Busy, InTransaction, Progress
  <2>2. CASE StoreOf[d] # s
    <3>1. /\ pc'[d] = pc[d] /\ request'[d] = request[d]
          /\ reply'[d] = reply[d] /\ answer'[d] = answer[d]
          /\ mutex'[StoreOf[d]] = mutex[StoreOf[d]]
      BY <2>2 DEF IInv, SharedOK, Crash
    <3>2. pc[d] \in Busy => rows' = rows /\ image' = image /\ writer' = writer
      BY <2>2 DEF IInv, CallerOK, Crash
    <3> QED BY <3>1, <3>2, OthersStay DEF IInv
  <2> QED BY <2>1, <2>2
<1> QED BY <1>1, <1>2 DEF IInv

LEMMA StepInv ==
    ASSUME IInv, NEW c \in Callers, Step(c)
    PROVE  IInv'
<1>1. CASE Lock(c)
  BY <1>1, LockInv
<1>2. CASE Begin(c)
  BY <1>2, BeginInv
<1>3. CASE NotBegun(c)
  BY <1>3, AnswerInv, AnswersDiffer DEF NotBegun, Throws
<1>4. ASSUME NEW w \in {"throws", "out_of_range"}, pc[c] \in InTransaction,
             Unwind(c, Log!Answer(w))
      PROVE  IInv'
  BY <1>4, UnwindInv, AnswersDiffer
<1>5. CASE ReadLast(c)
  <2>1. CASE Unwind(c, Throws)
    BY <1>4, <1>5, <2>1 DEF ReadLast, InTransaction, Throws
  <2>2. CASE ~Unwind(c, Throws)
    <3> DEFINE a == Log!Position(Size(rows))
    <3>1. /\ reply' = [reply EXCEPT ![c] = a]
          /\ RoomForAppend(request[c], a, rows, image)
          /\ Goto(c, "inserting")
          /\ UNCHANGED <<rows, image, writer, mutex, request, answer>>
      BY <1>5, <2>2, ReadLastDoes
    <3>2. Progress("inserting", request[c], a, rows, image')
      BY <3>1 DEF Progress
    <3>3. pc[c] \in InTransaction /\ "inserting" \in InTransaction
      BY <1>5 DEF ReadLast, InTransaction
    <3>4. IsTable(image')
      BY <3>1 DEF IInv, SharedOK
    <3> HIDE DEF a
    <3> QED BY <3>1, <3>2, <3>3, <3>4, StatementInv
  <2> QED BY <2>1, <2>2
<1>6. CASE Look(c)
  <2>0. pc[c] \in InTransaction /\ "staging" \in InTransaction
    BY <1>6 DEF Look, InTransaction
  <2>1. CASE Unwind(c, Log!Answer("out_of_range"))
    BY <1>4, <2>0, <2>1
  <2>2. CASE ~Unwind(c, Log!Answer("out_of_range"))
    <3>1. /\ Within(request[c], rows)
          /\ image = Before(request[c], rows)
          /\ reply' = [reply EXCEPT ![c] = Owed(request[c])]
          /\ Goto(c, "staging")
          /\ UNCHANGED <<rows, image, writer, mutex, request, answer>>
      BY <1>6, <2>2, LookDoes
    <3>2. Progress("staging", request[c], Owed(request[c]), rows, image')
      BY <3>1 DEF Progress
    <3>3. IsTable(image')
      BY <3>1 DEF IInv, SharedOK
    <3> QED BY <2>0, <3>1, <3>2, <3>3, StatementInv
  <2> QED BY <2>1, <2>2
<1>7. CASE Delete(c)
  <2>0. pc[c] \in InTransaction /\ {"staging", "committing"} \subseteq InTransaction
    BY <1>7 DEF Delete, InTransaction
  <2>1. /\ UNCHANGED <<rows, writer, mutex, request, answer>>
        /\ rows \in Lists /\ IsTable(rows) /\ IsTable(image)
    BY <1>7, DeleteDoes, ListIsTable DEF IInv, SharedOK
  <2>2. CASE /\ Within(request[c], rows)
             /\ image' = Before(request[c], rows)
             /\ reply' = [reply EXCEPT ![c] = Owed(request[c])]
             /\ Goto(c, "staging")
    <3>1. Progress("staging", request[c], Owed(request[c]), rows, image')
      BY <2>2 DEF Progress
    <3>2. IsTable(image')
      BY <2>1, <2>2, WithoutTable DEF Before
    <3> QED BY <2>0, <2>1, <2>2, <3>1, <3>2, StatementInv
  <2>3. CASE /\ NothingToErase(request[c], Log!Answer("missing"), rows, image)
             /\ image' = image
             /\ reply' = [reply EXCEPT ![c] = Log!Answer("missing")]
             /\ Goto(c, "committing")
    <3>1. Done(request[c], Log!Answer("missing"), rows, image')
      BY <2>1, <2>3 DEF Done, NothingToErase
    <3>2. Progress("committing", request[c], Log!Answer("missing"), rows, image')
      BY <3>1 DEF Progress
    <3> QED BY <2>0, <2>1, <2>3, <3>2, StatementInv
  <2> QED BY <1>7, <2>2, <2>3, DeleteDoes
<1>8. CASE Stage(c)
  <2>1. /\ Within(request[c], rows)
        /\ reply[c] = Owed(request[c])
        /\ image' = StagedAway(rows, Kept(request[c]), request[c].position)
        /\ IsTable(image')
        /\ Goto(c, "restoring")
        /\ UNCHANGED <<rows, writer, mutex, request, reply, answer>>
    BY <1>8, StageDoes
  <2>2. Progress("restoring", request[c], reply[c], rows, image')
    BY <2>1 DEF Progress
  <2>3. pc[c] \in InTransaction /\ "restoring" \in InTransaction
    BY <1>8 DEF Stage, InTransaction
  <2>4. reply' = [reply EXCEPT ![c] = reply[c]]
    BY <2>1 DEF IInv, SharedOK
  <2> QED BY <2>1, <2>2, <2>3, <2>4, StatementInv
<1>9. CASE Restore(c)
  <2>0. pc[c] \in InTransaction /\ {"inserting", "committing"} \subseteq InTransaction
    BY <1>9 DEF Restore, InTransaction
  <2>1. CASE Unwind(c, Throws)
    BY <1>4, <2>0, <2>1 DEF Throws
  <2>2. CASE ~Unwind(c, Throws)
    <3>1. /\ UNCHANGED <<rows, writer, mutex, request, reply, answer>>
          /\ IsTable(image')
          /\ \/ /\ RoomForInsert(request[c], reply[c], rows, image')
                /\ Goto(c, "inserting")
             \/ /\ Done(request[c], reply[c], rows, image')
                /\ Goto(c, "committing")
      BY <1>9, <2>2, RestoreDoes
    <3>2. reply' = [reply EXCEPT ![c] = reply[c]]
      BY <3>1 DEF IInv, SharedOK
    <3>3. CASE /\ RoomForInsert(request[c], reply[c], rows, image')
               /\ Goto(c, "inserting")
      <4>1. Progress("inserting", request[c], reply[c], rows, image')
        BY <3>3 DEF Progress
      <4> QED BY <2>0, <3>1, <3>2, <3>3, <4>1, StatementInv
    <3>4. CASE /\ Done(request[c], reply[c], rows, image')
               /\ Goto(c, "committing")
      <4>1. Progress("committing", request[c], reply[c], rows, image')
        BY <3>4 DEF Progress
      <4> QED BY <2>0, <3>1, <3>2, <3>4, <4>1, StatementInv
    <3> QED BY <3>1, <3>3, <3>4
  <2> QED BY <2>1, <2>2
<1>10. CASE Insert(c)
  <2>1. /\ Done(request[c], reply[c], rows, image')
        /\ IsTable(image')
        /\ Goto(c, "committing")
        /\ UNCHANGED <<rows, writer, mutex, request, reply, answer>>
    BY <1>10, InsertDoes
  <2>2. Progress("committing", request[c], reply[c], rows, image')
    BY <2>1 DEF Progress
  <2>3. pc[c] \in InTransaction /\ "committing" \in InTransaction
    BY <1>10 DEF Insert, InTransaction
  <2>4. reply' = [reply EXCEPT ![c] = reply[c]]
    BY <2>1 DEF IInv, SharedOK
  <2> QED BY <2>1, <2>2, <2>3, <2>4, StatementInv
<1>11. CASE Commit(c)
  <2>1. Done(request[c], reply[c], rows, image)
    BY <1>11 DEF IInv, CallerOK, Progress, Commit
  <2>2. image \in Lists /\ reply[c] # NoAnswer
    BY <2>1, ReplyIsAnswer DEF Done
  <2>3. pc[c] \in Busy
    BY <1>11 DEF Commit, Busy, InTransaction
  <2> QED BY <1>11, <2>2, <2>3, EndInv DEF Commit
<1>12. CASE StatementFails(c)
  BY <1>4, <1>12 DEF StatementFails, Throws
<1>13. CASE Rollback(c)
  <2>1. rows \in Lists /\ pc[c] \in Busy
    BY <1>13 DEF IInv, SharedOK, Rollback, Busy
  <2>2. answer' = [answer EXCEPT ![c] = answer[c]] /\ answer[c] # NoAnswer
    BY <1>13 DEF IInv, SharedOK, CallerOK, Rollback
  <2> QED BY <1>13, <2>1, <2>2, EndInv DEF Rollback
<1>14. CASE Query(c)
  BY <1>14, AnswerInv, AnswersDiffer DEF Query
<1>15. CASE Leave(c)
  BY <1>15, LeaveInv
<1> QED BY <1>1, <1>2, <1>3, <1>5, <1>6, <1>7, <1>8, <1>9, <1>10, <1>11, <1>12,
           <1>13, <1>14, <1>15 DEF Step

LEMMA StutterInv == IInv /\ UNCHANGED vars => IInv'
BY DEF vars, IInv, SharedOK, CallerOK

LEMMA NextInv == IInv /\ [Next]_vars => IInv'
<1> SUFFICES ASSUME IInv, [Next]_vars PROVE IInv'
  OBVIOUS
<1>1. ASSUME NEW c \in Callers, Call(c) PROVE IInv'
  BY <1>1, CallInv
<1>2. ASSUME NEW c \in Callers, Step(c) PROVE IInv'
  BY <1>2, StepInv
<1>3. ASSUME NEW s \in Stores, Crash(s) PROVE IInv'
  BY <1>3, CrashInv
<1>4. CASE UNCHANGED vars
  BY <1>4, StutterInv
<1> QED BY <1>1, <1>2, <1>3, <1>4 DEF Next

LEMMA InvHolds == Spec => []IInv
BY InitInv, NextInv, PTL DEF Spec

(* Every variable has its type, a caller in a call holds its mutex, and    *)
(* one in a transaction is the only writer, for any number of stores.      *)
THEOREM TypeCorrect == Spec => []TypeOK
<1>1. IInv => TypeOK
  BY ListIsTable DEF IInv, SharedOK, CallerOK, TypeOK, Busy
<1> QED BY <1>1, InvHolds, PTL

(* The positions of the committed rows start at zero and have no gap,      *)
(* whatever calls are made, wherever one fails or a process dies.          *)
THEOREM PositionsAreDense == Spec => []Dense
<1>1. IInv => Dense
  BY DEF IInv, SharedOK, Dense
<1> QED BY <1>1, InvHolds, PTL

-----------------------------------------------------------------------------
(* The store implements the list.                                          *)

(* The call of c that is not decided yet.                                  *)
LEMMA Undecided ==
    ASSUME IInv, NEW c \in Callers, pc[c] \in InTransaction \cup {"beginning", "querying"},
           NEW a, answer' = [answer EXCEPT ![c] = a], UNCHANGED request
    PROVE  Log!Decide(c, a) /\ request[c] # NoRequest
BY DEF IInv, CallerOK, InTransaction, Log!Decide, NoAnswer

LEMMA UnwindLog ==
    ASSUME IInv, NEW c \in Callers, pc[c] \in InTransaction, Unwind(c, Throws)
    PROVE  Log!Next
<1>1. Log!Throw(c)
  BY Undecided DEF Unwind, Log!Throw, Throws
<1> QED BY <1>1 DEF Log!Next

LEMMA CommitLog ==
    ASSUME IInv, NEW c \in Callers, Commit(c)
    PROVE  Log!Next
<1> DEFINE r == request[c]
           a == reply[c]
<1>1. Done(r, a, rows, image)
  BY DEF IInv, CallerOK, Progress, Commit
<1>2. Log!Decide(c, a) /\ request[c] # NoRequest /\ rows' = image
  BY Undecided DEF Commit, InTransaction
<1>3. CASE AppendDone(r, a, rows, image)
  <2>1. Log!Append(c)
    BY <1>2, <1>3 DEF AppendDone, Log!Append, Size
  <2> QED BY <1>2, <2>1 DEF Log!Next, Log!Perform
<1>4. CASE InsertDone(r, a, rows, image)
  <2>1. Log!InsertAfter(c)
    BY <1>2, <1>4 DEF InsertDone, Log!InsertAfter
  <2> QED BY <1>2, <2>1 DEF Log!Next, Log!Perform
<1>5. CASE EraseDone(r, a, rows, image)
  <2>1. Log!Erase(c)
    BY <1>2, <1>5 DEF EraseDone, Log!Erase
  <2> QED BY <1>2, <2>1 DEF Log!Next, Log!Perform
<1>6. CASE NothingToErase(r, a, rows, image)
  <2>1. Log!EraseNothing(c)
    BY <1>2, <1>6 DEF NothingToErase, Log!EraseNothing
  <2> QED BY <1>2, <2>1 DEF Log!Next, Log!Perform
<1> QED BY <1>1, <1>3, <1>4, <1>5, <1>6 DEF Done

LEMMA StepLog ==
    ASSUME IInv, NEW c \in Callers, Step(c)
    PROVE  Log!Next \/ UNCHANGED Log!vars
<1> USE DEF Log!vars
<1>1. CASE Lock(c) \/ Begin(c) \/ Rollback(c)
  BY <1>1 DEF Lock, Begin, Rollback
<1>2. CASE NotBegun(c)
  <2>1. Log!Throw(c)
    BY <1>2, Undecided DEF NotBegun, Log!Throw, Throws
  <2> QED BY <2>1 DEF Log!Next
<1>3. CASE ReadLast(c)
  BY <1>3, ReadLastDoes, UnwindLog DEF ReadLast, InTransaction
<1>4. CASE Look(c)
  <2>1. request[c].op = "insert_after"
    BY <1>4, LookDoes
  <2>2. CASE request[c].position \notin DOMAIN rows /\ Unwind(c, Log!Answer("out_of_range"))
    <3>1. Log!InsertNowhere(c) /\ request[c] # NoRequest
      BY <1>4, <2>1, <2>2, Undecided DEF Look, InTransaction, Unwind, Log!InsertNowhere
    <3> QED BY <3>1 DEF Log!Next, Log!Perform
  <2> QED BY <1>4, <2>2, LookDoes
<1>5. CASE Delete(c)
  BY <1>5, DeleteDoes
<1>6. CASE Stage(c)
  BY <1>6, StageDoes
<1>7. CASE Restore(c)
  BY <1>7, RestoreDoes, UnwindLog DEF Restore, InTransaction
<1>8. CASE Insert(c)
  BY <1>8, InsertDoes
<1>9. CASE Commit(c)
  BY <1>9, CommitLog
<1>10. CASE StatementFails(c)
  BY <1>10, UnwindLog DEF StatementFails
<1>11. CASE Query(c)
  <2>1. request[c].op = "query"
    BY <1>11 DEF IInv, CallerOK, Progress, Query
  <2>2. Log!Query(c) /\ request[c] # NoRequest
    BY <1>11, <2>1, Undecided DEF Query, Log!Query
  <2> QED BY <2>2 DEF Log!Next, Log!Perform
<1>12. CASE Leave(c)
  <2>1. answer[c] # NoAnswer
    BY <1>12 DEF IInv, CallerOK, Leave
  <2>2. Log!Return(c)
    BY <1>12, <2>1 DEF Leave, Log!Return, NoAnswer
  <2> QED BY <2>2 DEF Log!Next
<1> QED BY <1>1, <1>2, <1>3, <1>4, <1>5, <1>6, <1>7, <1>8, <1>9, <1>10, <1>11, <1>12
        DEF Step

LEMMA NextLog == IInv /\ [Next]_vars => [Log!Next]_(Log!vars)
<1> SUFFICES ASSUME IInv, [Next]_vars PROVE Log!Next \/ UNCHANGED Log!vars
  OBVIOUS
<1>1. ASSUME NEW c \in Callers, Call(c) PROVE Log!Next
  <2>1. request[c] = NoRequest
    BY <1>1 DEF IInv, CallerOK, Call
  <2>2. Log!Ask(c)
    BY <1>1, <2>1 DEF Call, Log!Ask
  <2> QED BY <2>2 DEF Log!Next
<1>2. ASSUME NEW c \in Callers, Step(c) PROVE Log!Next \/ UNCHANGED Log!vars
  BY <1>2, StepLog
<1>3. ASSUME NEW s \in Stores, Crash(s) PROVE Log!Next
  <2> DEFINE dead == {c \in Callers : StoreOf[c] = s}
  <2>1. Log!Die(dead)
    BY <1>3 DEF Crash, Log!Die, NoAnswer
  <2> QED BY <2>1 DEF Log!Next
<1>4. CASE UNCHANGED vars
  BY <1>4 DEF vars, Log!vars
<1> QED BY <1>1, <1>2, <1>3, <1>4 DEF Next

(* The stores, with their statements, locks and staged rows, implement the *)
(* list: a call takes effect at its commit or not at all, and its answer   *)
(* is true of that instant.                                                *)
THEOREM ImplementsLog == Spec => LogSpec
<1>1. Init => Log!Init
  BY DEF Init, Log!Init, NoAnswer
<1> QED BY <1>1, InvHolds, NextLog, PTL DEF Spec, LogSpec, Log!Spec
-----------------------------------------------------------------------------
(* The locks.                                                              *)

(* Whoever waits for a lock waits for a caller at work: the mutex of a     *)
(* store is held by one of its own callers, which has it and does not wait *)
(* for it, and the write lock of the database belongs to a store whose     *)
(* mutex is held by a caller that is in the transaction and waits for      *)
(* nothing.  Waits go from the mutex to the write lock and no further.     *)
LocksAtWork ==
    /\ \A s \in Stores : mutex[s] # NoCaller =>
          StoreOf[mutex[s]] = s /\ pc[mutex[s]] \notin {"idle", "locking"}
    /\ writer # NoStore => mutex[writer] # NoCaller /\ pc[mutex[writer]] \in Busy

(* What a step of a caller does to the locks.                              *)
TakesMutex(c) == /\ pc[c] = "locking" /\ pc'[c] \in {"querying", "beginning"}
                 /\ mutex[StoreOf[c]] = NoCaller
                 /\ mutex' = [mutex EXCEPT ![StoreOf[c]] = c]
                 /\ UNCHANGED writer

TakesWriter(c) == /\ pc[c] = "beginning" /\ pc'[c] \in Busy
                  /\ writer' = StoreOf[c]
                  /\ UNCHANGED mutex

StaysBusy(c) == /\ pc[c] \in Busy /\ pc'[c] \in Busy
                /\ UNCHANGED <<mutex, writer>>

GivesWriter(c) == /\ pc[c] \in Busy /\ pc'[c] = "leaving"
                  /\ writer' = NoStore
                  /\ UNCHANGED mutex

StaysOutside(c) == /\ pc[c] \in {"beginning", "querying"} /\ pc'[c] = "leaving"
                   /\ UNCHANGED <<mutex, writer>>

GivesMutex(c) == /\ pc[c] = "leaving" /\ pc'[c] = "idle"
                 /\ mutex' = [mutex EXCEPT ![StoreOf[c]] = NoCaller]
                 /\ UNCHANGED writer

LEMMA LockKinds ==
    ASSUME IInv, NEW c \in Callers, Step(c)
    PROVE  /\ \A d \in Callers \ {c} : pc'[d] = pc[d]
           /\ \/ TakesMutex(c) \/ TakesWriter(c) \/ StaysBusy(c)
              \/ GivesWriter(c) \/ StaysOutside(c) \/ GivesMutex(c)
<1>0. pc = [d \in Callers |-> pc[d]]
  BY DEF IInv, SharedOK
<1>1. ASSUME NEW label, Goto(c, label)
      PROVE  pc'[c] = label /\ \A d \in Callers \ {c} : pc'[d] = pc[d]
  BY <1>0, <1>1 DEF Goto
<1>2. CASE Lock(c) BY <1>1, <1>2 DEF Lock, TakesMutex
<1>3. CASE Begin(c)
  BY <1>1, <1>3 DEF Begin, FirstStatement, TakesWriter, Busy, InTransaction
<1>4. CASE NotBegun(c) \/ Query(c) BY <1>1, <1>4 DEF NotBegun, Query, StaysOutside
<1>5. ASSUME NEW a, Unwind(c, a), pc[c] \in InTransaction
      PROVE  StaysBusy(c) /\ \A d \in Callers \ {c} : pc'[d] = pc[d]
  BY <1>1, <1>5 DEF Unwind, StaysBusy, Busy
<1>6. CASE ReadLast(c) BY <1>1, <1>5, <1>6 DEF ReadLast, StaysBusy, Busy, InTransaction
<1>7. CASE Look(c) BY <1>1, <1>5, <1>7 DEF Look, StaysBusy, Busy, InTransaction
<1>8. CASE Delete(c) BY <1>1, <1>8 DEF Delete, StaysBusy, Busy, InTransaction
<1>9. CASE Stage(c) BY <1>1, <1>5, <1>9 DEF Stage, StaysBusy, Busy, InTransaction
<1>10. CASE Restore(c) BY <1>1, <1>5, <1>10 DEF Restore, StaysBusy, Busy, InTransaction
<1>11. CASE Insert(c) BY <1>1, <1>5, <1>11 DEF Insert, StaysBusy, Busy, InTransaction
<1>12. CASE StatementFails(c) BY <1>5, <1>12 DEF StatementFails
<1>13. CASE Commit(c) \/ Rollback(c)
  BY <1>1, <1>13 DEF Commit, Rollback, GivesWriter, Busy, InTransaction
<1>14. CASE Leave(c) BY <1>1, <1>14 DEF Leave, GivesMutex
<1> QED BY <1>2, <1>3, <1>4, <1>6, <1>7, <1>8, <1>9, <1>10, <1>11, <1>12, <1>13, <1>14
        DEF Step

LEMMA LocksStep == IInv /\ LocksAtWork /\ [Next]_vars => LocksAtWork'
<1> SUFFICES ASSUME IInv, LocksAtWork, [Next]_vars PROVE LocksAtWork'
  OBVIOUS
<1> USE StoreAssumption
<1>a. /\ mutex \in [Stores -> Callers \cup {NoCaller}]
      /\ writer \in Stores \cup {NoStore}
      /\ pc = [c \in Callers |-> pc[c]]
      /\ \A c \in Callers : mutex[StoreOf[c]] = c <=> pc[c] \notin {"idle", "locking"}
  BY DEF IInv, SharedOK, CallerOK
<1>b. "idle" \notin Busy /\ "locking" \notin Busy /\ "beginning" \notin Busy
      /\ "querying" \notin Busy /\ "leaving" \notin Busy
  BY DEF Busy, InTransaction
<1>1. ASSUME NEW c \in Callers, Call(c) PROVE LocksAtWork'
  <2>1. /\ pc[c] = "idle" /\ UNCHANGED <<mutex, writer>>
        /\ \A d \in Callers \ {c} : pc'[d] = pc[d]
    BY <1>1, <1>a DEF Call, Goto
  <2>2. \A s \in Stores : mutex[s] # c
    BY <1>a, <2>1 DEF LocksAtWork
  <2> QED BY <1>a, <2>1, <2>2 DEF LocksAtWork
<1>2. ASSUME NEW c \in Callers, Step(c) PROVE LocksAtWork'
  <2>1. \A d \in Callers \ {c} : pc'[d] = pc[d]
    BY <1>2, LockKinds
  <2>2. CASE TakesMutex(c)
    BY <1>a, <1>b, <2>1, <2>2 DEF LocksAtWork, TakesMutex
  <2>3. CASE TakesWriter(c)
    BY <1>a, <1>b, <2>1, <2>3 DEF LocksAtWork, TakesWriter
  <2>4. CASE StaysBusy(c)
    BY <1>a, <1>b, <2>1, <2>4 DEF LocksAtWork, StaysBusy
  <2>5. CASE GivesWriter(c)
    BY <1>a, <1>b, <2>1, <2>5 DEF LocksAtWork, GivesWriter
  <2>6. CASE StaysOutside(c)
    <3>1. pc[c] \notin Busy /\ pc'[c] = "leaving" /\ UNCHANGED <<mutex, writer>>
      BY <1>b, <2>6 DEF StaysOutside
    <3>2. \A d \in Callers : pc[d] \in Busy => pc'[d] \in Busy
      BY <2>1, <3>1
    <3>3. \A d \in Callers : pc[d] \notin {"idle", "locking"} =>
                             pc'[d] \notin {"idle", "locking"}
      BY <2>1, <3>1
    <3> QED BY <1>a, <3>1, <3>2, <3>3 DEF LocksAtWork
  <2>7. CASE GivesMutex(c)
    <3>1. mutex[StoreOf[c]] = c /\ writer # StoreOf[c]
      BY <1>a, <1>b, <2>7 DEF LocksAtWork, GivesMutex
    <3>2. \A s \in Stores : mutex'[s] # NoCaller => mutex'[s] = mutex[s] /\ mutex[s] # c
      BY <1>a, <2>7 DEF LocksAtWork, GivesMutex
    <3>3. /\ writer' = writer
          /\ \A s \in Stores \ {StoreOf[c]} : mutex'[s] = mutex[s]
      BY <1>a, <2>7 DEF GivesMutex
    <3>4. ASSUME NEW s \in Stores, mutex'[s] # NoCaller
          PROVE  StoreOf[mutex'[s]] = s /\ pc'[mutex'[s]] \notin {"idle", "locking"}
      <4>1. mutex'[s] = mutex[s] /\ mutex[s] \in Callers \ {c}
        BY <1>a, <3>2, <3>4
      <4> QED BY <2>1, <3>4, <4>1 DEF LocksAtWork
    <3>5. ASSUME writer' # NoStore
          PROVE  mutex'[writer'] # NoCaller /\ pc'[mutex'[writer']] \in Busy
      <4>1. writer \in Stores \ {StoreOf[c]} /\ mutex[writer] # NoCaller
            /\ pc[mutex[writer]] \in Busy
        BY <1>a, <3>1, <3>3, <3>5 DEF LocksAtWork
      <4>2. mutex'[writer] = mutex[writer] /\ mutex[writer] \in Callers \ {c}
        BY <1>a, <3>2, <3>3, <4>1
      <4> QED BY <2>1, <3>3, <4>1, <4>2
    <3> QED BY <3>4, <3>5 DEF LocksAtWork
  <2> QED BY <1>2, <2>2, <2>3, <2>4, <2>5, <2>6, <2>7, LockKinds
<1>3. ASSUME NEW s \in Stores, Crash(s) PROVE LocksAtWork'
  <2>1. /\ mutex'[s] = NoCaller
        /\ \A t \in Stores \ {s} : mutex'[t] = mutex[t]
        /\ \A d \in Callers : StoreOf[d] # s => pc'[d] = pc[d]
        /\ writer' = IF writer = s THEN NoStore ELSE writer
    BY <1>3, <1>a DEF Crash
  <2>2. ASSUME NEW t \in Stores, mutex'[t] # NoCaller
        PROVE  StoreOf[mutex'[t]] = t /\ pc'[mutex'[t]] \notin {"idle", "locking"}
    <3>1. t # s /\ mutex'[t] = mutex[t] /\ mutex[t] \in Callers
      BY <1>a, <2>1, <2>2
    <3> QED BY <2>1, <2>2, <3>1 DEF LocksAtWork
  <2>3. ASSUME writer' # NoStore
        PROVE  mutex'[writer'] # NoCaller /\ pc'[mutex'[writer']] \in Busy
    <3>1. writer' = writer /\ writer \in Stores \ {s} /\ mutex'[writer] = mutex[writer]
      BY <1>a, <2>1, <2>3
    <3>2. mutex[writer] \in Callers /\ StoreOf[mutex[writer]] = writer
          /\ pc[mutex[writer]] \in Busy
      BY <1>a, <2>3, <3>1 DEF LocksAtWork
    <3> QED BY <2>1, <3>1, <3>2, <1>a
  <2> QED BY <2>2, <2>3 DEF LocksAtWork
<1>4. CASE UNCHANGED vars
  BY <1>4 DEF vars, LocksAtWork
<1> QED BY <1>1, <1>2, <1>3, <1>4 DEF Next

(* No lock of the event store outlives the call that took it, and no two   *)
(* calls wait for each other, whichever statement fails and whichever      *)
(* process dies.                                                           *)
THEOREM NoLockIsOrphaned == Spec => []LocksAtWork
<1>1. Init => LocksAtWork
  BY DEF Init, LocksAtWork
<1> QED BY <1>1, InvHolds, LocksStep, PTL DEF Spec

=============================================================================
