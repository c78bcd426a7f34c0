----------------------------- MODULE MCEventPort -----------------------------
(* Two registrations: r1 wants every event, r2 those of package p about x. *)
EXTENDS EventPort, TLC

CONSTANTS r1, r2, main, source, worker, reader, any

MCFilter == r1 :> [package |-> any, references |-> {}]
         @@ r2 :> [package |-> "p", references |-> {"x"}]

(* The first message is for both registrations, the second for r1 only.    *)
ForBoth == [package |-> "p", references |-> {"x", "y"}]
ForOne  == [package |-> "q", references |-> {"x"}]

OneMessage   == {ForBoth}
BothMessages == {ForBoth, ForOne}

(* worker is an emitter that also reads, reader reads both registrations.  *)
ReadsShared == main :> {} @@ worker :> {r1} @@ reader :> {r1, r2}

(* One reader thread serves the only registration; the emitters never read. *)
ReadsOne == [t \in Threads |-> IF t = reader THEN {r1} ELSE {}]
=============================================================================
