------------------------------ MODULE Versions ------------------------------
(***************************************************************************)
(* Numeric Dot versions: which literals are valid, the key a literal is    *)
(* normalised to, and how keys compare: go/internal/protocol/versioning.   *)
(*                                                                         *)
(* A segment is written as a number with any count of leading zeros, so    *)
(* that 1.2 and 1.002 have different keys and the same precedence.         *)
(***************************************************************************)
EXTENDS Integers, Sequences

CONSTANTS
    MaxInt,         \* the largest number strconv.Atoi accepts
    Malformed       \* a segment that is empty or not made of digits

Segment == [zeros : Nat, value : Nat]

\* Trimming v and then V takes vV for a prefix as well.
Prefixes == {"", "v", "V", "vV"}
Literals == {l \in [prefix : Prefixes, segments : Seq(Segment \cup {Malformed})] : l.segments # <<>>}

\* Keys keep the segments as they are written.
Keys == {k \in Seq(Segment) : k # <<>>}

\* ParseVersion: leading zeros are refused in the first segment only.
ValidVersion(l) ==
    /\ \A i \in 1..Len(l.segments) : l.segments[i] # Malformed /\ l.segments[i].value <= MaxInt
    /\ l.segments[1].zeros = 0

\* NormalizeVersionKey, of a valid literal.
VersionKey(l) == l.segments

\* Missing trailing segments count as 0.
Number(k, i) == IF i <= Len(k) THEN k[i].value ELSE 0

\* CompareVersions: the first segment that differs decides.
Before(k, l) ==
    \E i \in 1..(Len(k) + Len(l)) :
        /\ Number(k, i) < Number(l, i)
        /\ \A j \in 1..(i - 1) : Number(k, j) = Number(l, j)

SamePrecedence(k, l) == \A i \in 1..(Len(k) + Len(l)) : Number(k, i) = Number(l, i)
=============================================================================
