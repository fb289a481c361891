---------------------------- MODULE StringRanges ----------------------------
(***************************************************************************)
(* Ranges of strings as query_checker.go computes them from a where clause *)
(* and as a datasource scans them.  A string is a sequence of bytes; Go    *)
(* compares strings byte by byte.                                          *)
(***************************************************************************)
EXTENDS Naturals, Sequences, SequencesExt

CONSTANT MaxByte    \* 255 in the code; the carry of afterPrefix needs its last value

ASSUME MaxByteAssumption == MaxByte \in Nat \ {0}

Str == Seq(0 .. MaxByte)

Below(s, t) ==
    \/ IsStrictPrefix(s, t)
    \/ \E i \in DOMAIN s \cap DOMAIN t : s[i] < t[i] /\ SubSeq(s, 1, i - 1) = SubSeq(t, 1, i - 1)

AtMost(s, t) == s = t \/ Below(s, t)

(* The empty string is the smallest start and, as a limit, no limit at all. *)
MaxRangeLimit == <<>>
StringFieldRange(start, limit) == [Start |-> start, Limit |-> limit]
StringFieldRangeAll == StringFieldRange(<<>>, MaxRangeLimit)

InRange(s, r) == AtMost(r.Start, s) /\ (r.Limit = MaxRangeLimit \/ Below(s, r.Limit))
InRanges(s, ranges) == \E i \in DOMAIN ranges : InRange(s, ranges[i])
-----------------------------------------------------------------------------
(* The smallest string above every string with this prefix: drop the        *)
(* trailing largest bytes and add one to what is left.                      *)
afterPrefix(prefix) ==
    LET n == CHOOSE m \in 0 .. Len(prefix) :
                 /\ \A i \in m + 1 .. Len(prefix) : prefix[i] = MaxByte
                 /\ m > 0 => prefix[m] # MaxByte
    IN  [i \in 1 .. n |-> IF i = n THEN prefix[i] + 1 ELSE prefix[i]]

(* The next string after s: a zero byte appended. *)
Successor(s) == Append(s, 0)

computeStringFieldRangeForLike(prefix) ==
    IF prefix = <<>> THEN StringFieldRangeAll ELSE StringFieldRange(prefix, afterPrefix(prefix))

computeStringFieldRangesForNotLike(prefix) ==
    IF prefix = <<>>
    THEN <<StringFieldRangeAll>>
    ELSE <<StringFieldRange(<<>>, prefix), StringFieldRange(afterPrefix(prefix), <<>>)>>

computeStringFieldRangeForSingleValue(start) == StringFieldRange(start, Successor(start))
-----------------------------------------------------------------------------
(* compareLimits, compareStartToLimit and compareLimitToStart return -1, 0  *)
(* or 1; these are the tests their callers make.  compareLimitToStart puts  *)
(* a limit that is no limit below every start.                              *)

LimitBelow(a, b) == a # b /\ a # MaxRangeLimit /\ (b = MaxRangeLimit \/ Below(a, b))
StartBelowLimit(start, limit) == limit = MaxRangeLimit \/ Below(start, limit)
StartAtMostLimit(start, limit) == limit = MaxRangeLimit \/ AtMost(start, limit)
LimitAtLeastStart(limit, start) == limit # MaxRangeLimit /\ AtMost(start, limit)

LaterStart(a, b) == IF Below(a, b) THEN b ELSE a
EarlierStart(a, b) == IF Below(a, b) THEN a ELSE b
LowerLimit(a, b) == IF LimitBelow(a, b) THEN a ELSE b
HigherLimit(a, b) == IF LimitBelow(b, a) THEN a ELSE b

(* computeRangeIntersection returns nil for two ranges that do not meet. *)
Intersects(l, r) ==
    \/ AtMost(r.Start, l.Start) /\ StartBelowLimit(l.Start, r.Limit)
    \/ AtMost(l.Start, r.Start) /\ StartBelowLimit(r.Start, l.Limit)

computeRangeIntersection(l, r) ==
    StringFieldRange(LaterStart(l.Start, r.Start), LowerLimit(l.Limit, r.Limit))

(* The test of addStringFieldRange: the start of f is in r or at its limit, *)
(* the limit of f is in r or at its start, or f contains r.                 *)
Touches(f, r) ==
    \/ AtMost(r.Start, f.Start) /\ StartAtMostLimit(f.Start, r.Limit)
    \/ LimitAtLeastStart(f.Limit, r.Start) /\ ~LimitBelow(r.Limit, f.Limit)
    \/ AtMost(f.Start, r.Start) /\ ~LimitBelow(f.Limit, r.Limit)

MergeRanges(f, r) ==
    StringFieldRange(EarlierStart(f.Start, r.Start), HigherLimit(f.Limit, r.Limit))
=============================================================================
