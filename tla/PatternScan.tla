------------------------------ MODULE PatternScan ------------------------------
(***************************************************************************)
(* The memory scanner's search for byte patterns: the plain search         *)
(* (scan_pattern, here Offsets) and the accelerated one                    *)
(* (scan_pattern_fast), which jumps from one occurrence of the pattern's   *)
(* first fixed byte to the next, as the loop it is.                        *)
(*                                                                         *)
(* A wildcard stands for whatever is not a hexadecimal byte.               *)
(***************************************************************************)
EXTENDS MemoryRules

CONSTANTS
    PsDatas,        \* data that is searched
    PsPatterns      \* patterns that are searched for

ASSUME PatternAssumption ==
    /\ PsDatas \subseteq Seq(Bytes)
    /\ PsPatterns \subseteq Seq(Bytes \cup {AnyByte})

VARIABLES
    psData,     \* the data,
    psPattern,  \* and the pattern
    psAt,       \* how far the search has come (i)
    psMatches,  \* the offsets found, in order
    psStage     \* "idle", "searching", "done"

psVars == <<psData, psPattern, psAt, psMatches, psStage>>

PsTypeOK ==
    /\ psData \in Seq(Bytes) /\ psPattern \in Seq(Bytes \cup {AnyByte})
    /\ psAt \in Nat /\ psMatches \in Seq(Nat)
    /\ psStage \in {"idle", "searching", "done"}

PsInit == psData = <<>> /\ psPattern = <<>> /\ psAt = 0 /\ psMatches = <<>> /\ psStage = "idle"

PsBegin(data, pattern) ==
    /\ psStage = "idle"
    /\ psData' = data /\ psPattern' = pattern
    /\ psStage' = "searching"
    /\ UNCHANGED <<psAt, psMatches>>

Fixed == {j \in 1..Len(psPattern) : psPattern[j] # AnyByte}
\* The index of the first fixed byte (first_byte_idx, which counts from 0) and its places.
FirstFixed == CHOOSE j \in Fixed : \A k \in Fixed : j <= k
PlacesFrom(at) == {k \in at..(Len(psData) - 1) : psData[k + 1] = psPattern[FirstFixed]}

\* Without a fixed byte the plain search does it: every offset with room.
SearchPlainly ==
    /\ psStage = "searching" /\ Fixed = {}
    /\ psMatches' = [i \in 1..(IF psPattern = <<>> \/ Len(psPattern) > Len(psData)
                               THEN 0 ELSE Len(psData) - Len(psPattern) + 1) |-> i - 1]
    /\ psStage' = "done"
    /\ UNCHANGED <<psData, psPattern, psAt>>

\* Where the pattern begins if its first fixed byte is at k (saturating at 0).
StartAt(k) == IF k >= FirstFixed - 1 THEN k - (FirstFixed - 1) ELSE 0
\* Seeded bug: the search goes on behind the match.
NextAt_BehindMatch(k) == IF FitsAt(psData, psPattern, StartAt(k)) THEN k + Len(psPattern) ELSE k + 1

NextAt(k) == k + 1

\* The next place of that byte.
Jump ==
    /\ psStage = "searching" /\ Fixed # {}
    /\ psAt + Len(psPattern) <= Len(psData)
    /\ \E k \in PlacesFrom(psAt) :
         /\ \A other \in PlacesFrom(psAt) : k <= other
         /\ StartAt(k) + Len(psPattern) <= Len(psData)
         /\ psMatches' = IF FitsAt(psData, psPattern, StartAt(k))
                         THEN Append(psMatches, StartAt(k)) ELSE psMatches
         /\ psAt' = NextAt(k)
    /\ UNCHANGED <<psData, psPattern, psStage>>

\* No room for the pattern, or none at the next place, or no such place.
StopSearch ==
    /\ psStage = "searching" /\ Fixed # {}
    /\ \/ psAt + Len(psPattern) > Len(psData)
       \/ PlacesFrom(psAt) = {}
       \/ \E k \in PlacesFrom(psAt) : /\ \A other \in PlacesFrom(psAt) : k <= other
                                      /\ StartAt(k) + Len(psPattern) > Len(psData)
    /\ psStage' = "done"
    /\ UNCHANGED <<psData, psPattern, psAt, psMatches>>

PsNext ==
    \/ \E data \in PsDatas, pattern \in PsPatterns : PsBegin(data, pattern)
    \/ SearchPlainly \/ Jump \/ StopSearch

PsSpec == PsInit /\ [][PsNext]_psVars

-----------------------------------------------------------------------------
\* A search for a pattern that begins with a fixed byte, as every pattern of the
\* scanner does, finds what the plain search finds: every offset where the pattern
\* lies, overlapping ones too, each once and in order.
FastAgrees ==
    psStage = "done" /\ psPattern # <<>> /\ psPattern[1] # AnyByte =>
        /\ {psMatches[i] : i \in 1..Len(psMatches)} = Offsets(psData, psPattern)
        /\ \A i, j \in 1..Len(psMatches) : i < j => psMatches[i] < psMatches[j]
=============================================================================
