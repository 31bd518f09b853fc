----------------------------- MODULE TimeStamps -----------------------------
(***************************************************************************)
(* The forms a modification time takes on its way between a local file,    *)
(* the metadata of an object and the host: internal/s3store/mtime.go,      *)
(* internal/wfx/modtime.go and the FILETIME conversions of cmd/wfxs3.  A   *)
(* time is a whole second and the nanoseconds since it, before the epoch   *)
(* too.                                                                    *)
(***************************************************************************)
EXTENDS Integers

CONSTANTS
  NPS,           \* nanoseconds per second, 1000000000
  TPS,           \* FILETIME intervals per second, 10000000
  MaxInt,        \* the largest int64
  ZeroSec,       \* the second of Go's zero Time, year 1
  WindowsEpoch,  \* the second of FILETIME 0, year 1601
  UsableFrom,    \* the first second of 1679
  UsableTo       \* the first second of 2262

ASSUME TimeAssumption ==
  /\ NPS \in Nat \ {0, 1} /\ TPS \in Nat \ {0} /\ MaxInt \in Nat
  /\ \E n \in 1..NPS : NPS = n * TPS
  /\ ZeroSec \in Int /\ WindowsEpoch \in Int /\ UsableFrom \in Int /\ UsableTo \in Int
  /\ ZeroSec < WindowsEpoch /\ WindowsEpoch < UsableFrom /\ UsableFrom < 0 /\ 0 < UsableTo
  /\ UsableTo <= MaxInt /\ -ZeroSec <= MaxInt

Times == [sec : Int, ns : 0..(NPS - 1)]
ZeroTime == [sec |-> ZeroSec, ns |-> 0]

-----------------------------------------------------------------------------
(* x-amz-meta-mtime.  A decimal text has a sign, a whole part and, behind  *)
(* the point, v parts of a scale: 10 for one digit, 100 for two, 1 for     *)
(* none.                                                                   *)

Unix(neg, whole, point, scale, v) ==
  [kind |-> "unix", neg |-> neg, whole |-> whole, point |-> point, scale |-> scale, v |-> v]
Rfc3339(t) == [kind |-> "rfc3339", time |-> t]
Garbage == [kind |-> "other"]

\* Powers of ten divide each other.
IsScale(scale) == \E n \in 1..(NPS + scale) : scale = n * NPS \/ NPS = n * scale

IsText(text) ==
  /\ text.kind = "unix" =>
       /\ text.neg \in BOOLEAN /\ text.point \in BOOLEAN /\ text.whole \in Nat
       /\ text.scale \in Nat \ {0} /\ IsScale(text.scale) /\ text.v \in 0..(text.scale - 1)
  /\ text.kind = "rfc3339" => text.time \in Times

\* Mutant: an instant before the epoch keeps its split into a smaller second and
\* a positive remainder.
FormatModTimeSplit(t) ==
  Unix(t.sec < 0, IF t.sec < 0 THEN -t.sec ELSE t.sec, TRUE, NPS, t.ns)

FormatModTime(t) ==
  LET recombined == t.sec < 0 /\ t.ns > 0
      sec == IF recombined THEN t.sec + 1 ELSE t.sec
      ns == IF recombined THEN NPS - t.ns ELSE t.ns
  IN  Unix(t.sec < 0, IF t.sec < 0 THEN -sec ELSE sec, TRUE, NPS, ns)

\* A short fraction is padded, digits finer than a nanosecond are dropped.
ParseFraction(scale, v) ==
  IF scale > NPS THEN v \div (scale \div NPS) ELSE v * (NPS \div scale)

\* time.Unix, for nanoseconds of less than a second.
TimeUnix(sec, ns) ==
  IF ns < 0 THEN [sec |-> sec - 1, ns |-> ns + NPS] ELSE [sec |-> sec, ns |-> ns]

IsUnixSeconds(text) ==
  /\ text.kind = "unix"
  /\ text.whole <= MaxInt
  /\ text.point => text.scale > 1

\* The sign of the fraction is that of the text: "-0.5" has a whole part of 0.
ParseUnixSeconds(text) ==
  LET fraction == IF text.point THEN ParseFraction(text.scale, text.v) ELSE 0
  IN  TimeUnix(IF text.neg THEN -text.whole ELSE text.whole,
               IF text.neg THEN -fraction ELSE fraction)

\* The zero Time stands for "no source time stamp", and for what cannot be read.
ParseModTime(text) ==
  IF IsUnixSeconds(text) THEN ParseUnixSeconds(text)
  ELSE IF text.kind = "rfc3339" THEN text.time
  ELSE ZeroTime

-----------------------------------------------------------------------------
(* What a downloaded file is stamped with. *)

\* Chtimes wraps outside these years.
Usable(t) == t # ZeroTime /\ UsableFrom <= t.sec /\ t.sec < UsableTo

\* Mutant: a candidate that cannot be used ends the search.
FirstUsableOrNone(a, b, c) ==
  LET first == IF a # ZeroTime THEN a ELSE IF b # ZeroTime THEN b ELSE c
  IN  IF Usable(first) THEN first ELSE ZeroTime

\* In descending order of authority; the zero Time when none is usable.
FirstUsable(a, b, c) ==
  IF Usable(a) THEN a ELSE IF Usable(b) THEN b ELSE IF Usable(c) THEN c ELSE ZeroTime

-----------------------------------------------------------------------------
(* FILETIME, as the host shows it and gives it back: signed 64-bit         *)
(* intervals.                                                              *)

NoFileTime == -2  \* 0xFFFFFFFFFFFFFFFE

FileTime(t) ==
  LET intervals == (t.sec - WindowsEpoch) * TPS + t.ns \div (NPS \div TPS)
  IN  IF t = ZeroTime \/ intervals < 0 THEN NoFileTime ELSE intervals

TimeFromFileTime(intervals) ==
  IF intervals = NoFileTime \/ intervals <= 0 THEN ZeroTime
  ELSE [sec |-> intervals \div TPS + WindowsEpoch, ns |-> (intervals % TPS) * (NPS \div TPS)]
=============================================================================
