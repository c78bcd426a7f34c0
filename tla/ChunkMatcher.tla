----------------------------- MODULE ChunkMatcher -----------------------------
(* chunk_matcher: edit_file looks for the text to replace while the file     *)
(* comes in chunks.  Between two chunks it remembers every place where an    *)
(* occurrence may have begun, found by the prefix function of the pattern.   *)
EXTENDS Integers, Sequences, FiniteSets, SequencesExt

CONSTANTS Patterns,  \* the texts to look for
          Chunks,    \* the pieces the file may come in, the empty one included
          MaxText    \* bound: the length of the file

ASSUME MatcherAssumption == \A t \in Patterns \cup Chunks : t \in Seq(Range(t))

VARIABLES pattern, text, checkpoints, first, note, invalid, finished

matcherVars == <<pattern, text, checkpoints, first, note, invalid, finished>>

NoOccurrence == -1

MatcherInit ==
    /\ pattern \in Patterns
    /\ text = <<>>       \* what was consumed; next_chunk_offset_ is its length
    /\ checkpoints = <<>>
    /\ first = NoOccurrence
    /\ note = "none"
    /\ invalid = FALSE
    /\ finished = FALSE

-----------------------------------------------------------------------------

(* The next state of the search that has matched m letters and reads c, by *)
(* the prefix function f of the letters before.                            *)
Advance(p, f, m, c) ==
    LET advance[k \in 0 .. m] ==
          IF p[k + 1] = c THEN k + 1 ELSE IF k = 0 THEN 0 ELSE advance[f[k]]
    IN advance[m]

PrefixFunction(p) ==
    LET f[i \in 1 .. Len(p)] == IF i = 1 THEN 0 ELSE Advance(p, f, f[i - 1], p[i])
    IN f

At(p, chunk, i) == i + Len(p) <= Len(chunk) /\ SubSeq(chunk, i + 1, i + Len(p)) = p

(* An occurrence that began before the chunk goes on at its first letter.  *)
Rest(candidate) == SubSeq(pattern, candidate.matched + 1, Len(pattern))

(* The elements of q that are in A, in their order.                        *)
Selected(q, A) ==
    FlattenSeq([i \in DOMAIN q |-> IF q[i] \in A THEN <<q[i]>> ELSE <<>>])

Completed(chunk) ==
    Selected(checkpoints, {k \in Range(checkpoints) : IsPrefix(Rest(k), chunk)})

Pending(chunk) ==
    LET open == Selected(checkpoints,
                   {k \in Range(checkpoints) : IsStrictPrefix(chunk, Rest(k))})
    IN [i \in DOMAIN open |-> [open[i] EXCEPT !.matched = @ + Len(chunk)]]

Boundary(chunk) ==
    LET length == IF Len(chunk) < Len(pattern) - 1 THEN Len(chunk) ELSE Len(pattern) - 1
    IN SubSeq(chunk, Len(chunk) - length + 1, Len(chunk))

(* The longest suffix of the boundary that is a prefix of the pattern.     *)
Longest(f, chunk) ==
    FoldLeft(LAMBDA m, c : Advance(pattern, f, m, c), 0, Boundary(chunk))

Candidate(chunk, m) == [start |-> Len(text) + Len(chunk) - m, matched |-> m]

BegunLongest(chunk) ==
    LET m == Longest(PrefixFunction(pattern), chunk)
    IN IF m = 0 THEN <<>> ELSE <<Candidate(chunk, m)>>

(* Every suffix of the chunk that is a prefix of the pattern: the longest  *)
(* one and its chain of failures.                                          *)
Begun(chunk) ==
    LET f == PrefixFunction(pattern)
        chain[m \in 0 .. Len(pattern)] ==
            IF m = 0 THEN <<>> ELSE <<Candidate(chunk, m)>> \o chain[f[m]]
    IN chain[Longest(f, chunk)]

-----------------------------------------------------------------------------

Duplicate(found) == found.note # "none"

(* record: the second place found decides the note.                        *)
Record(found, start) ==
    IF Duplicate(found) \/ start = found.first THEN found
    ELSE IF found.first = NoOccurrence THEN [found EXCEPT !.first = start]
    ELSE [found EXCEPT !.note =
            IF start - found.first < Len(pattern) /\ found.first - start < Len(pattern)
            THEN "overlap" ELSE "more_than_once"]

Found(chunk) ==
    LET ended == Completed(chunk)
        inside == Selected([i \in 1 .. Len(chunk) |-> i - 1],
                           {i \in 0 .. Len(chunk) : At(pattern, chunk, i)})
        starts == [i \in DOMAIN ended |-> ended[i].start]
                  \o [i \in DOMAIN inside |-> Len(text) + inside[i]]
    IN FoldLeft(Record, [first |-> first, note |-> note], starts)

(* A chunk out of its place spoils the matcher for good.                   *)
Consume(inPlace, chunk) ==
    /\ ~finished /\ ~invalid /\ note = "none"
    /\ Len(text) + Len(chunk) <= MaxText
    /\ IF ~inPlace
       THEN /\ invalid' = TRUE
            /\ UNCHANGED <<text, checkpoints, first, note>>
       ELSE /\ text' = text \o chunk
            /\ invalid' = FALSE
            /\ IF pattern = <<>>
               THEN UNCHANGED <<checkpoints, first, note>>
               ELSE /\ first' = Found(chunk).first
                    /\ note' = Found(chunk).note
                    /\ checkpoints' = IF Duplicate(Found(chunk)) THEN checkpoints
                                      ELSE Pending(chunk) \o Begun(chunk)
    /\ UNCHANGED <<pattern, finished>>

(* An empty pattern is found once in an empty file only.                   *)
FinishMatching ==
    /\ ~finished
    /\ finished' = TRUE
    /\ IF invalid \/ note # "none" THEN UNCHANGED <<first, note>>
       ELSE IF pattern = <<>>
       THEN /\ first' = 0
            /\ note' = IF text = <<>> THEN "none" ELSE "more_than_once"
       ELSE /\ note' = IF first = NoOccurrence THEN "not_found" ELSE "none"
            /\ UNCHANGED first
    /\ UNCHANGED <<pattern, text, checkpoints, invalid>>

MatcherNext ==
    \/ \E inPlace \in BOOLEAN, chunk \in Chunks : Consume(inPlace, chunk)
    \/ FinishMatching

MatcherSpec == MatcherInit /\ [][MatcherNext]_matcherVars

-----------------------------------------------------------------------------

(* However the file is cut into chunks, the verdict is that of a search in *)
(* the whole of it: where the pattern is when it is there once, and        *)
(* otherwise whether its first two occurrences overlap.                    *)
Occurrences == {i \in 0 .. Len(text) : At(pattern, text, i)}

Verdict(places) ==
    IF places = {} THEN "not_found"
    ELSE IF Cardinality(places) = 1 THEN "none"
    ELSE LET one == Min(places)
             two == Min(places \ {one})
         IN IF two - one < Len(pattern) THEN "overlap" ELSE "more_than_once"

MatcherAgrees ==
    /\ finished /\ ~invalid =>
          /\ note = Verdict(Occurrences)
          /\ note = "none" => Occurrences = {first}
    /\ ~finished /\ ~invalid /\ pattern # <<>> =>
          IF note = "none"
          THEN Occurrences = {first} \ {NoOccurrence}
          ELSE note = Verdict(Occurrences)
=============================================================================
