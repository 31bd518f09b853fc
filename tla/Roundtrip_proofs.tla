-------------------------- MODULE Roundtrip_proofs --------------------------
(***************************************************************************)
(* Theorems about the forms of a modification time, for every number of    *)
(* digits, every tick and every calendar, and about Roundtrip: a time that *)
(* goes up comes back, a listed name opens what it was listed from, and    *)
(* requests fit the profile.                                               *)
(***************************************************************************)
EXTENDS Roundtrip, SequenceTheorems, WellFoundedInduction, TLAPS

(***************************************************************************)
(* Division, of whole seconds with a rest and of multiples.                *)
(***************************************************************************)
LEMMA Division ==
  ASSUME NEW n \in Nat, NEW d \in Nat, d > 0
  PROVE  n \div d \in Nat /\ n % d \in Nat /\ n = (n \div d) * d + (n % d)
OBVIOUS

LEMMA DivisionOfSum ==
  ASSUME NEW s \in Int, NEW r \in Nat, NEW d \in Nat, r < d
  PROVE  /\ s * d + r \in Int
         /\ (s * d + r) \div d = s
         /\ (s * d + r) % d = r
OBVIOUS

LEMMA DivisionOfProduct ==
  ASSUME NEW a \in Nat, NEW n \in Nat \ {0}, NEW m \in Nat \ {0}
  PROVE  (a * m) \div (n * m) = a \div n
<1>1. PICK q \in Nat, r \in Nat : q = a \div n /\ r = a % n /\ a = q * n + r /\ r < n
  BY Division
<1>2. n * m \in Nat /\ r * m \in Nat /\ r * m < n * m
  BY <1>1
<1>3. a * m = q * (n * m) + r * m
  <2>1. a * m = (q * n) * m + r * m
    BY <1>1
  <2>2. (q * n) * m = q * (n * m)
    BY <1>1
  <2> QED
    BY <2>1, <2>2
<1> QED
  BY <1>1, <1>2, <1>3, DivisionOfSum

LEMMA DivisionOfMultiple ==
  ASSUME NEW n \in Nat, NEW m \in Nat \ {0}
  PROVE  (n * m) \div m = n
<1>1. n * m = n * m + 0
  OBVIOUS
<1> QED
  BY <1>1, DivisionOfSum

(***************************************************************************)
(* The digits behind the point, padded or cut, are the nanoseconds they    *)
(* mean, and less than a second.                                           *)
(***************************************************************************)
LEMMA FractionIsMeant ==
  ASSUME NEW scale \in Nat \ {0}, IsScale(scale), NEW v \in 0..(scale - 1)
  PROVE  /\ ParseFraction(scale, v) = (v * NPS) \div scale
         /\ ParseFraction(scale, v) \in 0..(NPS - 1)
<1>1. NPS \in Nat \ {0} /\ v \in Nat /\ v < scale
  BY TimeAssumption
<1>2. PICK n \in 1..(NPS + scale) : scale = n * NPS \/ NPS = n * scale
  BY DEF IsScale
<1>3. n \in Nat \ {0}
  BY <1>1, <1>2
<1>4. CASE scale > NPS
  <2>1. scale = n * NPS
    <3>1. NPS # n * scale
      BY <1>1, <1>3, <1>4
    <3> QED
      BY <1>2, <3>1
  <2>2. scale \div NPS = n
    BY <1>1, <1>3, <2>1, DivisionOfMultiple
  <2>3. ParseFraction(scale, v) = v \div n
    BY <1>4, <2>2 DEF ParseFraction
  <2>4. (v * NPS) \div scale = v \div n
    BY <1>1, <1>3, <2>1, DivisionOfProduct
  <2>5. v \div n \in Nat /\ v = (v \div n) * n + (v % n) /\ v % n \in Nat
    BY <1>1, <1>3, Division
  <2>6. v \div n < NPS
    <3>1. PICK q \in Nat : q = v \div n
      BY <2>5
    <3>2. q * n <= v
      BY <1>1, <1>3, <2>5, <3>1
    <3>3. q * n < NPS * n
      BY <1>1, <1>3, <2>1, <3>2
    <3>4. q < NPS
      BY <1>1, <1>3, <3>3
    <3> QED
      BY <3>1, <3>4
  <2> QED
    BY <1>1, <2>3, <2>4, <2>5, <2>6
<1>5. CASE ~(scale > NPS)
  <2>1. PICK m \in Nat \ {0} : NPS = m * scale
    <3>1. CASE NPS = n * scale
      BY <1>3, <3>1
    <3>2. CASE scale = n * NPS
      <4>1. n = 1
        BY <1>1, <1>3, <1>5, <3>2
      <4>2. NPS = 1 * scale
        BY <1>1, <3>2, <4>1
      <4> QED
        BY <4>2
    <3> QED
      BY <1>2, <3>1, <3>2
  <2>2. NPS \div scale = m
    BY <2>1, DivisionOfMultiple
  <2>3. ParseFraction(scale, v) = v * m
    BY <1>5, <2>2 DEF ParseFraction
  <2>4. v * NPS = (v * m) * scale /\ v * m \in Nat
    BY <1>1, <2>1
  <2>5. (v * NPS) \div scale = v * m
    BY <2>4, DivisionOfMultiple
  <2>6. v * m < NPS
    BY <1>1, <2>1
  <2> QED
    BY <1>1, <2>3, <2>4, <2>5, <2>6
<1> QED
  BY <1>4, <1>5

(***************************************************************************)
(* parseModTime reads from a text the instant it means, told as a number   *)
(* of nanoseconds towards zero: also before the epoch, where the second is *)
(* the one below, and when the whole part is "-0".                         *)
(***************************************************************************)
THEOREM ParsedTimeIsMeant ==
  ASSUME NEW text, IsText(text)
  PROVE  ParseModTime(text) = Meaning(text) /\ ParseModTime(text) \in Times
<1>1. NPS \in Nat \ {0, 1} /\ ZeroTime \in Times
  BY TimeAssumption DEF ZeroTime, Times
<1>2. CASE IsUnixSeconds(text)
  <2> DEFINE fraction == IF text.point THEN ParseFraction(text.scale, text.v) ELSE 0
             whole == text.whole
             time == IF text.neg THEN TimeUnix(-whole, -fraction) ELSE TimeUnix(whole, fraction)
  <2>1. /\ text.kind = "unix" /\ text.neg \in BOOLEAN /\ whole \in Nat /\ text.whole <= MaxInt
        /\ ~(text.point /\ text.scale = 1)
    BY <1>2 DEF IsUnixSeconds, IsText
  <2>2. ParseModTime(text) = time
    BY <1>2, <2>1 DEF ParseModTime, ParseUnixSeconds
  <2>3. /\ fraction \in 0..(NPS - 1)
        /\ fraction = IF text.point THEN (text.v * NPS) \div text.scale ELSE 0
    BY <1>1, <2>1, FractionIsMeant DEF IsText
  <2>4. Nanoseconds(text) = IF text.neg THEN -(whole * NPS + fraction) ELSE whole * NPS + fraction
    BY <2>3 DEF Nanoseconds
  <2>5. Meaning(text) = [sec |-> Nanoseconds(text) \div NPS, ns |-> Nanoseconds(text) % NPS]
    BY <2>1 DEF Meaning
  <2> HIDE DEF fraction, whole
  <2>6. CASE ~text.neg
    <3>1. Nanoseconds(text) = whole * NPS + fraction
      BY <2>4, <2>6
    <3>2. Nanoseconds(text) \div NPS = whole /\ Nanoseconds(text) % NPS = fraction
      <4>1. whole \in Int /\ fraction \in Nat /\ fraction < NPS
        BY <1>1, <2>1, <2>3
      <4> QED
        BY <1>1, <3>1, <4>1, DivisionOfSum
    <3>3. TimeUnix(whole, fraction) = [sec |-> whole, ns |-> fraction]
      BY <1>1, <2>3 DEF TimeUnix
    <3> QED
      BY <2>1, <2>2, <2>3, <2>5, <2>6, <3>2, <3>3 DEF Times
  <2>7. CASE text.neg /\ fraction = 0
    <3>1. Nanoseconds(text) = (-whole) * NPS + 0
      BY <1>1, <2>1, <2>4, <2>7
    <3>2. Nanoseconds(text) \div NPS = -whole /\ Nanoseconds(text) % NPS = 0
      BY <1>1, <2>1, <3>1, DivisionOfSum
    <3>3. TimeUnix(-whole, -fraction) = [sec |-> -whole, ns |-> 0]
      BY <2>7 DEF TimeUnix
    <3> QED
      BY <1>1, <2>1, <2>2, <2>5, <2>7, <3>2, <3>3 DEF Times
  <2>8. CASE text.neg /\ fraction # 0
    <3>1. -whole - 1 \in Int /\ NPS - fraction \in Nat /\ NPS - fraction < NPS /\ -fraction < 0
      BY <1>1, <2>1, <2>3, <2>8
    <3>2. Nanoseconds(text) = (-whole - 1) * NPS + (NPS - fraction)
      BY <1>1, <2>1, <2>3, <2>4, <2>8
    <3>3. Nanoseconds(text) \div NPS = -whole - 1 /\ Nanoseconds(text) % NPS = NPS - fraction
      BY <1>1, <3>1, <3>2, DivisionOfSum
    <3>4. TimeUnix(-whole, -fraction) = [sec |-> -whole - 1, ns |-> -fraction + NPS]
      BY <3>1 DEF TimeUnix
    <3>5. -fraction + NPS = NPS - fraction
      BY <1>1, <2>3
    <3> QED
      BY <1>1, <2>2, <2>5, <2>8, <3>1, <3>3, <3>4, <3>5 DEF Times
  <2> QED
    BY <2>1, <2>6, <2>7, <2>8
<1>3. CASE ~IsUnixSeconds(text) /\ text.kind = "unix"
  <2>1. ~(text.whole <= MaxInt /\ ~(text.point /\ text.scale = 1))
    BY <1>3 DEF IsUnixSeconds, IsText
  <2>2. Meaning(text) = ZeroTime
    BY <1>3, <2>1 DEF Meaning
  <2>3. ParseModTime(text) = ZeroTime
    BY <1>3 DEF ParseModTime
  <2> QED
    BY <1>1, <2>2, <2>3
<1>4. CASE text.kind = "rfc3339"
  BY <1>4 DEF ParseModTime, Meaning, IsUnixSeconds, IsText
<1>5. CASE text.kind \notin {"unix", "rfc3339"}
  BY <1>1, <1>5 DEF ParseModTime, Meaning, IsUnixSeconds
<1> QED
  BY <1>2, <1>3, <1>4, <1>5

(* The digits that make a whole fraction are the nanoseconds. *)
LEMMA FullFraction ==
  ASSUME NEW v \in Int
  PROVE  ParseFraction(NPS, v) = v
<1>1. NPS \div NPS = 1
  BY TimeAssumption
<1>2. ~(NPS > NPS)
  BY TimeAssumption
<1> QED
  BY <1>1, <1>2 DEF ParseFraction

(***************************************************************************)
(* What Upload writes into x-amz-meta-mtime is read back as the same       *)
(* instant, before the epoch too: the recombination into a sign and a      *)
(* magnitude loses nothing.                                                *)
(***************************************************************************)
THEOREM ModTimeRoundTrips ==
  ASSUME NEW t \in Times, -MaxInt <= t.sec, t.sec <= MaxInt
  PROVE  ParseModTime(FormatModTime(t)) = t
<1> USE TimeAssumption
<1>1. /\ t.sec \in Int /\ t.ns \in Int /\ 0 <= t.ns /\ t.ns < NPS
      /\ t = [sec |-> t.sec, ns |-> t.ns]
  BY DEF Times
<1>2. CASE t.sec >= 0
  <2>1. FormatModTime(t) = Unix(FALSE, t.sec, TRUE, NPS, t.ns)
    <3>1. (t.sec < 0) = FALSE
      BY <1>1, <1>2
    <3> QED
      BY <3>1 DEF FormatModTime
  <2>2. IsUnixSeconds(Unix(FALSE, t.sec, TRUE, NPS, t.ns))
    BY <1>1, <1>2 DEF IsUnixSeconds, Unix
  <2>3. ParseFraction(NPS, t.ns) = t.ns
    BY <1>1, FullFraction
  <2>4. ParseUnixSeconds(Unix(FALSE, t.sec, TRUE, NPS, t.ns)) = TimeUnix(t.sec, t.ns)
    BY <2>3 DEF ParseUnixSeconds, Unix
  <2>5. TimeUnix(t.sec, t.ns) = t
    BY <1>1 DEF TimeUnix
  <2> QED
    BY <2>1, <2>2, <2>4, <2>5 DEF ParseModTime
<1>3. CASE t.sec < 0 /\ t.ns = 0
  <2>1. FormatModTime(t) = Unix(TRUE, -t.sec, TRUE, NPS, 0)
    <3>1. (t.sec < 0) = TRUE /\ (t.ns > 0) = FALSE
      BY <1>1, <1>3
    <3>2. FormatModTime(t) = Unix(TRUE, -t.sec, TRUE, NPS, t.ns)
      BY <3>1 DEF FormatModTime
    <3> QED
      BY <3>2, <1>3
  <2>2. IsUnixSeconds(Unix(TRUE, -t.sec, TRUE, NPS, 0))
    BY <1>1, <1>3 DEF IsUnixSeconds, Unix
  <2>3. ParseFraction(NPS, 0) = 0
    BY FullFraction
  <2>4. ParseUnixSeconds(Unix(TRUE, -t.sec, TRUE, NPS, 0)) = TimeUnix(-(-t.sec), -0)
    BY <2>3 DEF ParseUnixSeconds, Unix
  <2>5. TimeUnix(-(-t.sec), -0) = t
    BY <1>1, <1>3 DEF TimeUnix
  <2> QED
    BY <2>1, <2>2, <2>4, <2>5 DEF ParseModTime
<1>4. CASE t.sec < 0 /\ t.ns > 0
  <2> DEFINE whole == -(t.sec + 1)
             fraction == NPS - t.ns
  <2>1. FormatModTime(t) = Unix(TRUE, whole, TRUE, NPS, fraction)
    BY <1>1, <1>4 DEF FormatModTime
  <2>2. IsUnixSeconds(Unix(TRUE, whole, TRUE, NPS, fraction))
    BY <1>1, <1>4 DEF IsUnixSeconds, Unix
  <2>3. ParseFraction(NPS, fraction) = fraction
    BY <1>1, FullFraction
  <2>4. ParseUnixSeconds(Unix(TRUE, whole, TRUE, NPS, fraction)) = TimeUnix(-whole, -fraction)
    BY <2>3 DEF ParseUnixSeconds, Unix
  <2>5. TimeUnix(-whole, -fraction) = t
    BY <1>1, <1>4 DEF TimeUnix
  <2> QED
    BY <2>1, <2>2, <2>4, <2>5 DEF ParseModTime
<1> QED
  BY <1>1, <1>2, <1>3, <1>4

(***************************************************************************)
(* What the host shows and hands back in a RemoteInfoStruct is the time of *)
(* the object without what is finer than a tick; a time at or before the   *)
(* epoch of FILETIME comes back as none.                                   *)
(***************************************************************************)
THEOREM FileTimeRoundTrips ==
  ASSUME NEW t \in Times, t # ZeroTime
  PROVE  TimeFromFileTime(FileTime(t)) =
           IF FileTime(t) <= 0 THEN ZeroTime
           ELSE [sec |-> t.sec, ns |-> t.ns - (t.ns % (NPS \div TPS))]
<1> DEFINE tick == NPS \div TPS
           ticks == t.ns \div tick
           intervals == (t.sec - WindowsEpoch) * TPS + ticks
<1>1. /\ t.sec \in Int /\ t.ns \in Nat /\ t.ns < NPS
      /\ WindowsEpoch \in Int /\ TPS \in Nat /\ TPS > 0 /\ NPS \in Nat
  BY TimeAssumption DEF Times
<1>2. tick \in Nat /\ tick > 0 /\ NPS = tick * TPS
  BY TimeAssumption
<1>3. /\ ticks \in Nat
      /\ t.ns = ticks * tick + (t.ns % tick)
      /\ t.ns % tick \in Nat
  BY <1>1, <1>2, Division
<1>4. ticks < TPS
  <2>1. ticks * tick < TPS * tick
    BY <1>1, <1>2, <1>3
  <2>2. \A a \in Nat, b \in Nat : a * tick < b * tick => a < b
    BY <1>2
  <2> QED
    BY <1>1, <1>3, <2>1, <2>2
<1>5. t.sec - WindowsEpoch \in Int
  BY <1>1
<1>6. intervals \in Int /\ intervals \div TPS = t.sec - WindowsEpoch /\ intervals % TPS = ticks
  <2> HIDE DEF ticks
  <2>1. ticks \in Nat /\ ticks < TPS
    BY <1>3, <1>4
  <2> QED
    BY <1>1, <1>5, <2>1, DivisionOfSum
<1>7. FileTime(t) = IF intervals < 0 THEN NoFileTime ELSE intervals
  BY DEF FileTime
<1>8. CASE intervals <= 0
  BY <1>6, <1>7, <1>8 DEF TimeFromFileTime, NoFileTime
<1>9. CASE intervals > 0
  <2>1. FileTime(t) = intervals /\ ~(FileTime(t) <= 0) /\ intervals # NoFileTime
    BY <1>6, <1>7, <1>9 DEF NoFileTime
  <2>2. TimeFromFileTime(intervals) =
          [sec |-> (t.sec - WindowsEpoch) + WindowsEpoch, ns |-> ticks * tick]
    BY <1>6, <2>1 DEF TimeFromFileTime
  <2>3. (t.sec - WindowsEpoch) + WindowsEpoch = t.sec
    BY <1>1
  <2>4. ticks * tick = t.ns - (t.ns % tick)
    <3>1. ticks * tick \in Int
      BY <1>2, <1>3
    <3> QED
      BY <1>1, <1>3, <3>1
  <2> QED
    BY <2>1, <2>2, <2>3, <2>4
<1> QED
  BY <1>6, <1>8, <1>9

-----------------------------------------------------------------------------
(***************************************************************************)
(* The inductive invariant: every client was made for the key it is kept   *)
(* under, everything the host or the bucket holds as a time is one, and    *)
(* the metadata of an uploaded object is the form of its source's time.    *)
(***************************************************************************)
ClientsFit ==
  \A k \in DOMAIN clients :
    clients[k] = [endpoint |-> k[1], region |-> k[2], access |-> k[3],
                  secret |-> k[4], token |-> k[5], style |-> k[6]]

TimesTyped ==
  /\ FileTimes({local})
  /\ object.modified \in Times /\ IsText(object.text)
  /\ entry.modified \in Times /\ entry.time = FileTime(entry.modified)

SourceWritten ==
  object.source # NoTime =>
    FileTimes({object.source}) /\ object.text = FormatModTime(object.source)

LEMMA ZeroTimeIsTime == ZeroTime \in Times
BY TimeAssumption DEF ZeroTime, Times

(* A listed time comes back without what is finer than a tick, if at all. *)
LEMMA ListedTimeIsTicked ==
  ASSUME NEW t \in Times
  PROVE  TimeFromFileTime(FileTime(t)) = Ticked(t) /\ Ticked(t) \in Times
<1>1. CASE t = ZeroTime
  BY <1>1, ZeroTimeIsTime DEF FileTime, TimeFromFileTime, Ticked
<1>2. CASE t # ZeroTime
  <2>1. NPS \div TPS \in Nat /\ NPS \div TPS > 0
    BY TimeAssumption
  <2>2. t.ns \in Nat /\ t.sec \in Int /\ t.ns < NPS /\ NPS \in Nat
    BY TimeAssumption DEF Times
  <2>3. t.ns % (NPS \div TPS) \in Nat /\ t.ns % (NPS \div TPS) <= t.ns
    BY <2>1, <2>2
  <2>4. [sec |-> t.sec, ns |-> t.ns - (t.ns % (NPS \div TPS))] \in Times
    BY <2>2, <2>3 DEF Times
  <2>5. [t EXCEPT !.ns = t.ns - (t.ns % (NPS \div TPS))]
          = [sec |-> t.sec, ns |-> t.ns - (t.ns % (NPS \div TPS))]
    BY DEF Times
  <2> QED
    BY <1>2, <2>4, <2>5, FileTimeRoundTrips, ZeroTimeIsTime DEF Ticked
<1> QED
  BY <1>1, <1>2

(* What a file is stamped with is a time it can have. *)
LEMMA StampIsFileTime ==
  ASSUME NEW a \in Times, NEW b \in Times, NEW c \in Times, FirstUsable(a, b, c) # ZeroTime
  PROVE  FileTimes({FirstUsable(a, b, c)})
<1> DEFINE t == FirstUsable(a, b, c)
<1>1. t \in Times /\ Usable(t)
  BY DEF FirstUsable
<1>2. -MaxInt <= t.sec /\ t.sec <= MaxInt
  BY <1>1, TimeAssumption DEF Usable, Times
<1> QED
  BY <1>1, <1>2 DEF FileTimes

(* A request keeps the cache of clients sound. *)
LEMMA RequestKeepsClients ==
  ASSUME ClientsFit, NEW profile, Request(profile)
  PROVE  ClientsFit'
BY DEF ClientsFit, Request, ClientKey, Connect

(***************************************************************************)
(* A request goes out with the endpoint, the path style and the            *)
(* credentials of the profile as the service has it now (store.go:115-137).*)
(***************************************************************************)
THEOREM RequestsFit == Spec => []RequestFits
<1>1. Init => ClientsFit
  BY DEF Init, ClientsFit
<1>2. ClientsFit /\ [Next]_vars => ClientsFit'
  <2> SUFFICES ASSUME ClientsFit, [Next]_vars PROVE ClientsFit'
    OBVIOUS
  <2>1. CASE UNCHANGED clients
    BY <2>1 DEF ClientsFit
  <2>2. CASE Request(config)
    BY <2>2, RequestKeepsClients
  <2> QED
    BY <2>1, <2>2 DEF Next, vars, ListRoot, List, Enter, Leave, Get, Put, Delete, OtherStores,
                      Reload, EditLocal
<1>3. ClientsFit => RequestFits
  BY DEF ClientsFit, RequestFits, Client, ClientKey, Connect
<1> QED
  BY <1>1, <1>2, <1>3, PTL DEF Spec

-----------------------------------------------------------------------------
LEMMA NoTimes ==
  /\ IsText(NoText) /\ NoEntry.modified = ZeroTime /\ NoEntry.time = FileTime(ZeroTime)
  /\ NoObject.modified = ZeroTime /\ NoObject.text = NoText /\ NoObject.source = NoTime
BY DEF NoText, IsText, NoEntry, NoObject, FileTime

LEMMA TimesInit == Init => TimesTyped /\ SourceWritten
<1> SUFFICES ASSUME Init PROVE TimesTyped /\ SourceWritten
  OBVIOUS
<1>1. FileTimes({local})
  BY RoundtripAssumption DEF Init, FileTimes
<1>2. object = NoObject /\ entry = NoEntry
  BY DEF Init
<1> QED
  BY <1>1, <1>2, NoTimes, ZeroTimeIsTime DEF TimesTyped, SourceWritten

(* What the host downloads is stamped with a time. *)
LEMMA GetKeepsTimes ==
  ASSUME TimesTyped, NEW withInfo \in BOOLEAN, NEW stampFails \in BOOLEAN, Get(withInfo, stampFails)
  PROVE  FileTimes({local})'
<1> DEFINE listed == IF withInfo THEN TimeFromFileTime(entry.time) ELSE ZeroTime
<1>1. listed \in Times
  BY ZeroTimeIsTime, ListedTimeIsTicked DEF TimesTyped
<1>2. Stamped(listed) # ZeroTime => FileTimes({Stamped(listed)})
  BY <1>1, StampIsFileTime, ParsedTimeIsMeant DEF Stamped, TimesTyped
<1>3. (local' = Stamped(listed) /\ Stamped(listed) # ZeroTime) \/ local' \in LocalTimes
  BY DEF Get
<1>4. \A t \in LocalTimes : FileTimes({t})
  BY RoundtripAssumption DEF FileTimes
<1> HIDE DEF listed
<1>5. FileTimes({local'})
  BY <1>2, <1>3, <1>4
<1> QED
  BY <1>5 DEF FileTimes

(* What the plugin uploads is a time and is told in its metadata. *)
LEMMA FormattedIsText ==
  ASSUME NEW t \in Times
  PROVE  IsText(FormatModTime(t))
<1>1. NPS \in Nat \ {0, 1} /\ IsScale(NPS)
  BY TimeAssumption DEF IsScale
<1>2. t.sec \in Int /\ t.ns \in Nat /\ t.ns < NPS
  BY <1>1 DEF Times
<1>3. CASE t.sec < 0 /\ t.ns > 0
  <2>1. FormatModTime(t) = Unix(t.sec < 0, -(t.sec + 1), TRUE, NPS, NPS - t.ns)
    BY <1>3 DEF FormatModTime
  <2>2. -(t.sec + 1) \in Nat /\ NPS - t.ns \in 0..(NPS - 1)
    BY <1>1, <1>2, <1>3
  <2> QED
    BY <1>1, <2>1, <2>2 DEF Unix, IsText
<1>4. CASE ~(t.sec < 0 /\ t.ns > 0)
  <2>1. FormatModTime(t) = Unix(t.sec < 0, IF t.sec < 0 THEN -t.sec ELSE t.sec, TRUE, NPS, t.ns)
    BY <1>4 DEF FormatModTime
  <2>2. (IF t.sec < 0 THEN -t.sec ELSE t.sec) \in Nat /\ t.ns \in 0..(NPS - 1)
    BY <1>1, <1>2
  <2> QED
    BY <1>1, <2>1, <2>2 DEF Unix, IsText
<1> QED
  BY <1>3, <1>4

LEMMA PutKeepsTimes ==
  ASSUME TimesTyped, NEW name, Put(name)
  PROVE  /\ object'.modified \in Times /\ IsText(object'.text)
         /\ FileTimes({object'.source}) /\ object'.text = FormatModTime(object'.source)
<1>1. /\ object'.modified = Now /\ object'.text = FormatModTime(local) /\ object'.source = local
  BY DEF Put
<1>2. local \in Times
  BY DEF TimesTyped, FileTimes
<1> QED
  BY <1>1, <1>2, FormattedIsText, RoundtripAssumption DEF TimesTyped

(* An entry's time comes from a time. *)
LEMMA ListKeepsTimes ==
  ASSUME TimesTyped, List \/ ListRoot \/ Enter \/ Leave
  PROVE  entry'.modified \in Times /\ entry'.time = FileTime(entry'.modified)
<1>1. NoEntry.modified \in Times /\ NoEntry.time = FileTime(NoEntry.modified)
  BY NoTimes, ZeroTimeIsTime
<1>2. ASSUME NEW name, NEW dir, NEW time \in Times, NEW key, NEW prefix,
             entry' = FillFindData(name, dir, time, key, prefix)
      PROVE  entry'.modified \in Times /\ entry'.time = FileTime(entry'.modified)
  BY <1>2 DEF FillFindData
<1>3. CASE List
  <2>1. ZeroTime \in Times /\ object.modified \in Times
    BY ZeroTimeIsTime DEF TimesTyped
  <2>2. \/ entry' = NoEntry
        \/ \E name, dir, key, prefix :
             entry' = FillFindData(name, dir, IF dir THEN ZeroTime ELSE object.modified, key, prefix)
    BY <1>3, Zenon DEF List
  <2>3. \A dir : (IF dir THEN ZeroTime ELSE object.modified) \in Times
    BY <2>1
  <2> QED
    BY <1>1, <1>2, <2>2, <2>3
<1>4. CASE ListRoot
  BY <1>2, <1>4, ZeroTimeIsTime DEF ListRoot
<1>5. CASE Enter \/ Leave
  BY <1>1, <1>5 DEF Enter, Leave
<1> QED
  BY <1>3, <1>4, <1>5

LEMMA TimesStep == TimesTyped /\ SourceWritten /\ [Next]_vars => TimesTyped' /\ SourceWritten'
<1> SUFFICES ASSUME TimesTyped, SourceWritten, [Next]_vars
             PROVE  TimesTyped' /\ SourceWritten'
  OBVIOUS
<1>1. CASE ListRoot \/ List \/ Enter \/ Leave
  <2>1. local' = local /\ object' = object
    BY <1>1 DEF ListRoot, List, Enter, Leave
  <2> QED
    BY <1>1, <2>1, ListKeepsTimes DEF TimesTyped, SourceWritten, FileTimes
<1>2. ASSUME NEW withInfo \in BOOLEAN, NEW stampFails \in BOOLEAN, Get(withInfo, stampFails)
      PROVE  TimesTyped' /\ SourceWritten'
  <2>1. object' = object /\ entry' = entry
    BY <1>2 DEF Get
  <2>2. FileTimes({local})'
    BY <1>2, GetKeepsTimes
  <2> QED
    BY <2>1, <2>2 DEF TimesTyped, SourceWritten, FileTimes
<1>3. ASSUME NEW name \in NewNames \cup {entry.name}, Put(name) PROVE TimesTyped' /\ SourceWritten'
  <2>1. local' = local /\ entry' = entry
    BY <1>3 DEF Put
  <2> QED
    BY <1>3, <2>1, PutKeepsTimes DEF TimesTyped, SourceWritten, FileTimes
<1>4. CASE Delete
  <2>1. local' = local /\ entry' = entry /\ object' \in {object, NoObject}
    BY <1>4 DEF Delete
  <2>2. CASE object' = object
    BY <2>1, <2>2 DEF TimesTyped, SourceWritten, FileTimes
  <2>3. CASE object' = NoObject
    BY <2>1, <2>3, NoTimes, ZeroTimeIsTime DEF TimesTyped, SourceWritten, FileTimes
  <2> QED
    BY <2>1, <2>2, <2>3
<1>5. ASSUME NEW stored \in Foreign, OtherStores(stored) PROVE TimesTyped' /\ SourceWritten'
  <2>1. /\ local' = local /\ entry' = entry
        /\ object'.modified = stored.modified /\ object'.text = stored.text
        /\ object'.source = NoTime
    BY <1>5 DEF OtherStores
  <2> QED
    BY <2>1, RoundtripAssumption DEF TimesTyped, SourceWritten, FileTimes
<1>6. CASE Reload \/ UNCHANGED vars
  BY <1>6 DEF Reload, vars, TimesTyped, SourceWritten, FileTimes
<1>7. CASE EditLocal
  BY <1>7, RoundtripAssumption DEF EditLocal, TimesTyped, SourceWritten, FileTimes
<1> QED
  BY <1>1, <1>2, <1>3, <1>4, <1>5, <1>6, <1>7 DEF Next

(***************************************************************************)
(* A file that was uploaded and comes back has the time it had, to the     *)
(* nanosecond: formatModTime and parseModTime between them lose nothing,   *)
(* and nothing the listing or the service says comes first.                *)
(***************************************************************************)
THEOREM UploadsKeepTheirTime == Spec => RoundTripKeepsTime
<1> DEFINE Keeps ==
      \A withInfo \in BOOLEAN :
        Get(withInfo, FALSE) /\ object.source # NoTime /\ Usable(object.source) => local' = object.source
<1>1. TimesTyped /\ SourceWritten /\ [Next]_vars => [Keeps]_vars
  <2> SUFFICES ASSUME SourceWritten, NEW withInfo \in BOOLEAN, Get(withInfo, FALSE),
                      object.source # NoTime, Usable(object.source)
               PROVE  local' = object.source
    OBVIOUS
  <2> DEFINE listed == IF withInfo THEN TimeFromFileTime(entry.time) ELSE ZeroTime
  <2>1. object.source \in Times /\ -MaxInt <= object.source.sec /\ object.source.sec <= MaxInt
    BY DEF SourceWritten, FileTimes
  <2>2. ParseModTime(object.text) = object.source
    BY <2>1, ModTimeRoundTrips DEF SourceWritten
  <2>3. Stamped(listed) = object.source
    BY <2>2 DEF Stamped, FirstUsable
  <2>4. object.source # ZeroTime
    BY DEF Usable
  <2>5. IF Stamped(listed) # ZeroTime THEN local' = Stamped(listed) ELSE local' \in LocalTimes
    BY DEF Get
  <2> QED
    BY <2>3, <2>4, <2>5
<1> QED
  BY <1>1, TimesInit, TimesStep, PTL DEF Spec, RoundTripKeepsTime

(***************************************************************************)
(* A file of another client gets the time its metadata means; when there   *)
(* is none that a file can have, the object's own, and the listed one, cut *)
(* to the host's ticks, only after that.                                   *)
(***************************************************************************)
THEOREM BestTimesWin == Spec => BestTimeWins
<1> DEFINE Best(withInfo) ==
             CASE Usable(Meaning(object.text)) -> local' = Meaning(object.text)
               [] ~Usable(Meaning(object.text)) /\ Usable(object.modified) -> local' = object.modified
               [] OTHER -> withInfo /\ Usable(Ticked(entry.modified)) => local' = Ticked(entry.modified)
           Wins == \A withInfo \in BOOLEAN : Get(withInfo, FALSE) /\ object.source = NoTime => Best(withInfo)
<1>1. ASSUME TimesTyped, NEW withInfo \in BOOLEAN, Get(withInfo, FALSE) PROVE Best(withInfo)
  <2> DEFINE listed == IF withInfo THEN TimeFromFileTime(entry.time) ELSE ZeroTime
  <2>1. ParseModTime(object.text) = Meaning(object.text)
    BY <1>1, ParsedTimeIsMeant DEF TimesTyped
  <2>2. withInfo => listed = Ticked(entry.modified)
    BY <1>1, ListedTimeIsTicked DEF TimesTyped
  <2> HIDE DEF listed
  <2>3. Stamped(listed) # ZeroTime => local' = Stamped(listed)
    BY <1>1 DEF Get, listed
  <2>4. Stamped(listed) = FirstUsable(Meaning(object.text), object.modified, listed)
    BY <2>1 DEF Stamped
  <2>5. \A t : Usable(t) => t # ZeroTime
    BY DEF Usable
  <2>6. CASE Usable(Meaning(object.text))
    BY <2>3, <2>4, <2>5, <2>6 DEF FirstUsable
  <2>7. CASE ~Usable(Meaning(object.text)) /\ Usable(object.modified)
    BY <2>3, <2>4, <2>5, <2>7 DEF FirstUsable
  <2>8. CASE ~Usable(Meaning(object.text)) /\ ~Usable(object.modified)
    <3>1. withInfo /\ Usable(Ticked(entry.modified)) => local' = Ticked(entry.modified)
      BY <2>2, <2>3, <2>4, <2>5, <2>8 DEF FirstUsable
    <3> QED
      BY <2>8, <3>1
  <2> QED
    BY <2>6, <2>7, <2>8
<1>2. TimesTyped /\ [Next]_vars => [Wins]_vars
  BY <1>1
<1> QED
  BY <1>2, TimesInit, TimesStep, PTL DEF Spec, BestTimeWins

-----------------------------------------------------------------------------
(* Paths: sequences of characters.                                         *)

Strings == Seq(Characters)

LEMMA SeparatorsAre ==
  Slash \in Characters /\ Backslash \in Characters /\ Slash # Backslash
BY PathAssumption DEF Separators, Slash, Backslash

(* A place that is before all others is the first. *)
LEMMA MinIs ==
  ASSUME NEW S, S \subseteq Nat, NEW m \in S, \A s \in S : m <= s
  PROVE  Min(S) = m
<1>1. \A x \in S : (\A s \in S : x <= s) <=> x = m
  OBVIOUS
<1> QED
  BY <1>1, Zenon DEF Min

LEMMA MaxIs ==
  ASSUME NEW S, S \subseteq Nat, NEW m \in S, \A s \in S : s <= m
  PROVE  Max(S) = m
<1>1. \A x \in S : (\A s \in S : s <= x) <=> x = m
  OBVIOUS
<1> QED
  BY <1>1, Zenon DEF Max

LEMMA MinExists ==
  ASSUME NEW S, S \subseteq Nat, S # {}
  PROVE  Min(S) \in S /\ \A s \in S : Min(S) <= s
<1>1. PICK m \in S : \A s \in S : <<s, m>> \notin OpToRel(<, Nat)
  BY NatLessThanWellFounded, WFMin
<1>2. \A s \in S : ~(s < m)
  BY <1>1 DEF OpToRel
<1>3. \A s \in S : m <= s
  BY <1>2
<1> QED
  BY <1>3, MinIs

(* Trim leaves alone what neither begins nor ends with a slash. *)
LEMMA TrimNothing ==
  ASSUME NEW s \in Strings, s # <<>>, s[1] # Slash, s[Len(s)] # Slash
  PROVE  Trim(s) = s
<1> DEFINE kept == {i \in DOMAIN s : s[i] # Slash}
<1>1. Len(s) \in Nat \ {0} /\ DOMAIN s = 1..Len(s)
  BY EmptySeq, LenProperties DEF Strings
<1>2. kept \subseteq Nat /\ 1 \in kept /\ Len(s) \in kept /\ \A i \in kept : 1 <= i /\ i <= Len(s)
  BY <1>1
<1>3. Min(kept) = 1 /\ Max(kept) = Len(s) /\ kept # {}
  BY <1>2, MinIs, MaxIs
<1> HIDE DEF kept
<1>4. Trim(s) = SubSeq(s, 1, Len(s))
  BY <1>3 DEF Trim, kept
<1> QED
  BY <1>4, SubSeqFull DEF Strings

LEMMA MaxExists ==
  ASSUME NEW n \in Nat, NEW S, S \subseteq 1..n, S # {}
  PROVE  Max(S) \in S /\ \A s \in S : s <= Max(S)
<1> DEFINE Left == {n - s : s \in S}
<1>0. \A s \in S : s \in Nat /\ n - s \in Nat
  OBVIOUS
<1>1a. Left \subseteq Nat
  BY <1>0
<1>1b. PICK t : t \in S
  OBVIOUS
<1>1c. n - t \in Left
  BY <1>1b
<1>1. Left \subseteq Nat /\ Left # {}
  BY <1>1a, <1>1c
<1>2. Min(Left) \in Left /\ \A l \in Left : Min(Left) <= l
  BY <1>1, MinExists
<1>3. PICK m \in S : n - m = Min(Left)
  BY <1>2
<1> HIDE DEF Left
<1>4. \A s \in S : n - s \in Left
  BY DEF Left
<1>5. \A s \in S : s <= m
  BY <1>2, <1>3, <1>4
<1>6. S \subseteq Nat
  OBVIOUS
<1> QED
  BY <1>5, <1>6, MaxIs

(* Parts of strings are strings. *)
LEMMA PartIsString ==
  ASSUME NEW s \in Strings, NEW m \in Nat \ {0}, NEW n \in Int, n <= Len(s)
  PROVE  /\ SubSeq(s, m, n) \in Strings
         /\ Len(SubSeq(s, m, n)) = IF m <= n THEN n - m + 1 ELSE 0
         /\ \A i \in 1..(n - m + 1) : SubSeq(s, m, n)[i] = s[m + i - 1]
<1>1. Len(s) \in Nat /\ \A i \in 1..Len(s) : s[i] \in Characters
  BY LenProperties, ElementOfSeq DEF Strings
<1>2. \A i \in m..n : s[i] \in Characters
  BY <1>1
<1> QED
  BY <1>1, <1>2, SubSeqProperties DEF Strings

LEMMA TrimIsString ==
  ASSUME NEW s \in Strings
  PROVE  Trim(s) \in Strings
<1> DEFINE kept == {i \in DOMAIN s : s[i] # Slash}
<1>1. CASE kept = {}
  BY <1>1, EmptySeq DEF Trim, Strings
<1>2. CASE kept # {}
  <2>1. Len(s) \in Nat /\ kept \subseteq 1..Len(s)
    BY LenProperties DEF Strings
  <2>2. Min(kept) \in kept /\ Max(kept) \in kept
    BY <1>2, <2>1, MinExists, MaxExists
  <2>3. Min(kept) \in Nat \ {0} /\ Max(kept) \in Int /\ Max(kept) <= Len(s)
    BY <2>1, <2>2
  <2>4. SubSeq(s, Min(kept), Max(kept)) \in Strings
    BY <2>3, PartIsString
  <2> QED
    BY <1>2, <2>4 DEF Trim
<1> QED
  BY <1>1, <1>2

(* The host's separators become slashes. *)
Slashed(sep, s) == [i \in DOMAIN s |-> IF s[i] = sep THEN Slash ELSE s[i]]

LEMMA SlashedIsString ==
  ASSUME NEW sep \in Separators, NEW s \in Strings
  PROVE  /\ Slashed(sep, s) \in Strings /\ Len(Slashed(sep, s)) = Len(s)
         /\ \A i \in 1..Len(s) : Slashed(sep, s)[i] = IF s[i] = sep THEN Slash ELSE s[i]
<1>1. Len(s) \in Nat /\ DOMAIN s = 1..Len(s) /\ \A i \in 1..Len(s) : s[i] \in Characters
  BY LenProperties, ElementOfSeq DEF Strings
<1>2. Slashed(sep, s) \in [1..Len(s) -> Characters]
  BY <1>1, SeparatorsAre DEF Slashed
<1>3. Slashed(sep, s) \in Strings
  BY <1>1, <1>2, SeqDef DEF Strings
<1>4. Len(Slashed(sep, s)) = Len(s)
  BY <1>1, <1>2, <1>3, LenProperties DEF Strings
<1> QED
  BY <1>1, <1>3, <1>4 DEF Slashed

LEMMA SlashedConcat ==
  ASSUME NEW sep \in Separators, NEW s \in Strings, NEW t \in Strings
  PROVE  Slashed(sep, s \o t) = Slashed(sep, s) \o Slashed(sep, t)
<1> DEFINE left == Slashed(sep, s \o t)
           right == Slashed(sep, s) \o Slashed(sep, t)
<1>1. /\ s \o t \in Strings /\ Len(s \o t) = Len(s) + Len(t) /\ Len(s) \in Nat /\ Len(t) \in Nat
      /\ \A i \in 1..(Len(s) + Len(t)) : (s \o t)[i] = IF i <= Len(s) THEN s[i] ELSE t[i - Len(s)]
  BY ConcatProperties, LenProperties DEF Strings
<1>2. /\ left \in Strings /\ Len(left) = Len(s) + Len(t)
      /\ \A i \in 1..(Len(s) + Len(t)) : left[i] = IF (s \o t)[i] = sep THEN Slash ELSE (s \o t)[i]
  <2> DEFINE whole == s \o t
  <2>1. whole \in Strings /\ Len(whole) = Len(s) + Len(t)
    BY <1>1
  <2> HIDE DEF whole
  <2>2. /\ Slashed(sep, whole) \in Strings /\ Len(Slashed(sep, whole)) = Len(whole)
        /\ \A i \in 1..Len(whole) : Slashed(sep, whole)[i] = IF whole[i] = sep THEN Slash ELSE whole[i]
    BY <2>1, SlashedIsString
  <2>3. /\ Slashed(sep, whole) \in Strings /\ Len(Slashed(sep, whole)) = Len(s) + Len(t)
        /\ \A i \in 1..(Len(s) + Len(t)) : Slashed(sep, whole)[i] = IF whole[i] = sep THEN Slash ELSE whole[i]
    BY <2>1, <2>2
  <2> QED
    BY <2>3 DEF whole
<1>3. /\ right \in Strings /\ Len(right) = Len(s) + Len(t)
      /\ \A i \in 1..(Len(s) + Len(t)) :
           right[i] = IF i <= Len(s) THEN Slashed(sep, s)[i] ELSE Slashed(sep, t)[i - Len(s)]
  <2>1. Slashed(sep, s) \in Strings /\ Len(Slashed(sep, s)) = Len(s)
    BY SlashedIsString
  <2>2. Slashed(sep, t) \in Strings /\ Len(Slashed(sep, t)) = Len(t)
    BY SlashedIsString
  <2> DEFINE p == Slashed(sep, s)
             q == Slashed(sep, t)
  <2>3. p \in Seq(Characters) /\ q \in Seq(Characters) /\ Len(p) = Len(s) /\ Len(q) = Len(t)
    BY <2>1, <2>2 DEF Strings
  <2> HIDE DEF p, q
  <2>4. /\ p \o q \in Seq(Characters) /\ Len(p \o q) = Len(p) + Len(q)
        /\ \A i \in 1..(Len(p) + Len(q)) : (p \o q)[i] = IF i <= Len(p) THEN p[i] ELSE q[i - Len(p)]
    BY <2>3, ConcatProperties
  <2>5. /\ p \o q \in Seq(Characters) /\ Len(p \o q) = Len(s) + Len(t)
        /\ \A i \in 1..(Len(s) + Len(t)) : (p \o q)[i] = IF i <= Len(s) THEN p[i] ELSE q[i - Len(s)]
    BY <2>3, <2>4
  <2> QED
    BY <2>5 DEF p, q, Strings
<1>4. \A i \in 1..(Len(s) + Len(t)) : left[i] = right[i]
  <2> SUFFICES ASSUME NEW i \in 1..(Len(s) + Len(t)) PROVE left[i] = right[i]
    OBVIOUS
  <2> HIDE DEF left, right
  <2>1. CASE i <= Len(s)
    <3>1. i \in 1..Len(s) /\ (s \o t)[i] = s[i]
      BY <1>1, <2>1
    <3>2. Slashed(sep, s)[i] = IF s[i] = sep THEN Slash ELSE s[i]
      BY <3>1, SlashedIsString
    <3> QED
      BY <1>2, <1>3, <2>1, <3>1, <3>2
  <2>2. CASE ~(i <= Len(s))
    <3>1. i - Len(s) \in 1..Len(t) /\ (s \o t)[i] = t[i - Len(s)]
      BY <1>1, <2>2
    <3>2. Slashed(sep, t)[i - Len(s)] = IF t[i - Len(s)] = sep THEN Slash ELSE t[i - Len(s)]
      BY <3>1, SlashedIsString
    <3> QED
      BY <1>2, <1>3, <2>2, <3>1, <3>2
  <2> QED
    BY <2>1, <2>2
<1> HIDE DEF left, right
<1>5. left = right
  BY <1>2, <1>3, <1>4, SeqEqual DEF Strings
<1> QED
  BY <1>5 DEF left, right

LEMMA OneIsString ==
  ASSUME NEW c \in Characters
  PROVE  <<c>> \in Strings /\ Len(<<c>>) = 1 /\ <<c>>[1] = c
BY DEF Strings

LEMMA ConcatIsString ==
  ASSUME NEW s \in Strings, NEW t \in Strings
  PROVE  /\ s \o t \in Strings /\ Len(s \o t) = Len(s) + Len(t)
         /\ Len(s) \in Nat /\ Len(t) \in Nat
         /\ \A i \in 1..(Len(s) + Len(t)) : (s \o t)[i] = IF i <= Len(s) THEN s[i] ELSE t[i - Len(s)]
BY ConcatProperties, LenProperties DEF Strings

(* A path that begins with a separator, and the rest of it. *)
LEMMA HeadAndRest ==
  ASSUME NEW c \in Characters, NEW s \in Strings
  PROVE  /\ <<c>> \o s \in Strings /\ <<c>> \o s # <<>>
         /\ Head(<<c>> \o s) = c /\ Tail(<<c>> \o s) = s
         /\ s # <<>> => Len(<<c>> \o s) > 1
<1> DEFINE whole == <<c>> \o s
<1>1. /\ whole \in Strings /\ Len(whole) = 1 + Len(s) /\ Len(s) \in Nat
      /\ \A i \in 1..(1 + Len(s)) : whole[i] = IF i <= 1 THEN <<c>>[1] ELSE s[i - 1]
  <2> DEFINE one == <<c>>
  <2>1. one \in Strings /\ Len(one) = 1
    BY OneIsString
  <2> HIDE DEF one
  <2>2. /\ one \o s \in Strings /\ Len(one \o s) = Len(one) + Len(s) /\ Len(s) \in Nat
        /\ \A i \in 1..(Len(one) + Len(s)) : (one \o s)[i] = IF i <= Len(one) THEN one[i] ELSE s[i - Len(one)]
    BY <2>1, ConcatIsString
  <2>3. /\ one \o s \in Strings /\ Len(one \o s) = 1 + Len(s) /\ Len(s) \in Nat
        /\ \A i \in 1..(1 + Len(s)) : (one \o s)[i] = IF i <= 1 THEN one[i] ELSE s[i - 1]
    BY <2>1, <2>2
  <2>4. \A i \in 1..(1 + Len(s)) : i <= 1 => i = 1
    BY <2>3
  <2>5. \A i \in 1..(1 + Len(s)) : (one \o s)[i] = IF i <= 1 THEN one[1] ELSE s[i - 1]
    BY <2>3, <2>4
  <2> QED
    BY <2>3, <2>5 DEF one
<1>2. whole[1] = c /\ \A i \in 1..Len(s) : whole[i + 1] = s[i]
  <2>1. <<c>>[1] = c
    BY OneIsString
  <2> QED
    BY <1>1, <2>1
<1>3. whole # <<>>
  BY <1>1, EmptySeq DEF Strings
<1> HIDE DEF whole
<1>4. /\ Tail(whole) \in Strings /\ Len(Tail(whole)) = Len(s)
      /\ \A i \in 1..Len(s) : Tail(whole)[i] = whole[i + 1]
  BY <1>1, <1>3, HeadTailProperties DEF Strings
<1>5. Tail(whole) = s
  BY <1>2, <1>4, SeqEqual DEF Strings
<1>6. Head(whole) = c
  BY <1>1, <1>2, <1>3 DEF Strings
<1>7. s # <<>> => Len(s) > 0
  BY EmptySeq DEF Strings
<1> QED
  BY <1>1, <1>3, <1>5, <1>6, <1>7 DEF whole

(* What a path's separator separates. *)
FirstPart(sep, rest) ==
  IF Places(rest, {sep}) = {} THEN rest ELSE SubSeq(rest, 1, Min(Places(rest, {sep})) - 1)
Below(sep, rest) == SubSeq(rest, Len(FirstPart(sep, rest)) + 2, Len(rest))

LEMMA ParseSplits ==
  ASSUME NEW sep \in Separators, NEW rest \in Strings, rest # <<>>
  PROVE  ParseRemote(<<sep>> \o rest) =
           IF Places(rest, Separators \ {sep}) # {} \/ FirstPart(sep, rest) = <<>>
           THEN PathError
           ELSE [ok |-> TRUE, profile |-> FirstPart(sep, rest),
                 relative |-> Trim(Slashed(sep, Below(sep, rest)))]
<1> DEFINE path == <<sep>> \o rest
<1>1. sep \in Characters
  BY PathAssumption
<1>2. Head(path) = sep /\ Tail(path) = rest /\ Len(path) > 1
  BY <1>1, HeadAndRest
<1> HIDE DEF path
<1>3. path \notin {<<>>, <<Slash>>, <<Backslash>>}
  <2>1. Len(<<>>) = 0 /\ Len(<<Slash>>) = 1 /\ Len(<<Backslash>>) = 1
    BY SeparatorsAre, OneIsString, EmptySeq
  <2> QED
    BY <1>2, <2>1
<1>4. ParseRemote(path) =
        IF sep \notin Separators \/ Places(rest, Separators \ {sep}) # {} \/ FirstPart(sep, rest) = <<>>
        THEN PathError
        ELSE [ok |-> TRUE, profile |-> FirstPart(sep, rest),
              relative |-> Trim(Slashed(sep, Below(sep, rest)))]
  BY <1>2, <1>3, Zenon DEF ParseRemote, FirstPart, Below, Slashed
<1> QED
  BY <1>4 DEF path

(***************************************************************************)
(* The names of the host that the model's paths are made of: not empty,    *)
(* and without the separator that the host does not use.  The first and    *)
(* the last character are none, so Trim takes nothing away.                *)
(***************************************************************************)
PathsBelow(sep) ==
  {b \in Strings : /\ b # <<>> /\ b[1] \notin Separators /\ b[Len(b)] \notin Separators
                   /\ Places(b, Separators \ {sep}) = {}}

(* A path of the profile has nothing below it. *)
LEMMA ParseProfile ==
  ASSUME NEW sep \in Separators
  PROVE  ParseRemote(<<sep>> \o Profile) = [ok |-> TRUE, profile |-> Profile, relative |-> <<>>]
<1>1. Profile \in Strings /\ Profile # <<>> /\ Len(Profile) \in Nat
  BY NamesAssumption, LenProperties DEF Strings
<1>2. Places(Profile, {sep}) = {} /\ Places(Profile, Separators \ {sep}) = {}
  BY NamesAssumption DEF Places
<1>3. FirstPart(sep, Profile) = Profile
  BY <1>2 DEF FirstPart
<1>4. Below(sep, Profile) = <<>>
  BY <1>1, <1>3, SubSeqEmpty DEF Below
<1>5. Trim(Slashed(sep, <<>>)) = <<>>
  <2>1. Slashed(sep, <<>>) \in Strings /\ Len(Slashed(sep, <<>>)) = 0
    BY SlashedIsString, EmptySeq DEF Strings
  <2>2. DOMAIN Slashed(sep, <<>>) = {}
    BY <2>1, LenProperties DEF Strings
  <2> QED
    BY <2>2 DEF Trim
<1> QED
  BY <1>1, <1>2, <1>3, <1>4, <1>5, ParseSplits

(* The profile ends at the first separator. *)
LEMMA RestSplits ==
  ASSUME NEW sep \in Separators, NEW b \in Strings
  PROVE  LET rest == Profile \o (<<sep>> \o b)
         IN  /\ rest \in Strings /\ rest # <<>>
             /\ Places(rest, Separators \ {sep}) = {} <=> Places(b, Separators \ {sep}) = {}
             /\ FirstPart(sep, rest) = Profile
             /\ Below(sep, rest) = b
<1> DEFINE n == Len(Profile)
           tail == <<sep>> \o b
           rest == Profile \o tail
<1>1. /\ Profile \in Strings /\ Profile # <<>> /\ n \in Nat \ {0}
      /\ \A i \in 1..n : Profile[i] \notin Separators
  BY NamesAssumption, LenProperties, EmptySeq DEF Strings, Places
<1>2. /\ tail \in Strings /\ Len(tail) = 1 + Len(b) /\ tail[1] = sep /\ Len(b) \in Nat
      /\ \A i \in 1..Len(b) : tail[i + 1] = b[i]
  <2>1. sep \in Characters
    BY PathAssumption
  <2>2. tail \in Strings /\ tail # <<>> /\ Head(tail) = sep /\ Tail(tail) = b
    BY <2>1, HeadAndRest
  <2>3. Len(tail) = 1 + Len(b) /\ Len(b) \in Nat
    BY <2>1, OneIsString, ConcatIsString
  <2> HIDE DEF tail
  <2>4. \A i \in 1..Len(b) : b[i] = tail[i + 1]
    BY <2>2, HeadTailProperties DEF Strings
  <2>5. tail[1] = sep
    BY <2>2, <2>3 DEF Strings
  <2> QED
    BY <2>2, <2>3, <2>4, <2>5
<1> HIDE DEF tail
<1>3. /\ rest \in Strings /\ Len(rest) = n + 1 + Len(b)
      /\ \A i \in 1..n : rest[i] = Profile[i]
      /\ \A i \in 1..(1 + Len(b)) : rest[n + i] = tail[i]
  <2>1. /\ rest \in Strings /\ Len(rest) = n + Len(tail)
        /\ \A i \in 1..(n + Len(tail)) : rest[i] = IF i <= n THEN Profile[i] ELSE tail[i - n]
    BY <1>1, <1>2, ConcatIsString
  <2>2. \A i \in 1..n : i \in 1..(n + Len(tail)) /\ i <= n
    BY <1>1, <1>2
  <2>3. \A i \in 1..(1 + Len(b)) : n + i \in 1..(n + Len(tail)) /\ ~(n + i <= n) /\ (n + i) - n = i
    BY <1>1, <1>2
  <2> HIDE DEF rest, n
  <2> QED
    BY <1>1, <1>2, <2>1, <2>2, <2>3
<1>4. rest[n + 1] = sep /\ \A i \in 1..Len(b) : rest[n + 1 + i] = b[i]
  <2>1. 1 \in 1..(1 + Len(b)) /\ \A i \in 1..Len(b) : i + 1 \in 1..(1 + Len(b)) /\ n + (i + 1) = n + 1 + i
    BY <1>1, <1>2
  <2> HIDE DEF rest, n
  <2> QED
    BY <1>2, <1>3, <2>1
<1>5. DOMAIN rest = 1..(n + 1 + Len(b)) /\ DOMAIN b = 1..Len(b)
  BY <1>3, LenProperties DEF Strings
<1> HIDE DEF rest, n
<1>6. Min(Places(rest, {sep})) = n + 1 /\ Places(rest, {sep}) # {}
  <2>1. n + 1 \in Places(rest, {sep}) /\ Places(rest, {sep}) \subseteq Nat
    BY <1>1, <1>2, <1>4, <1>5 DEF Places
  <2>2. \A i \in Places(rest, {sep}) : n + 1 <= i
    <3>1. \A i \in 1..n : rest[i] # sep
      BY <1>1, <1>3
    <3> QED
      BY <1>1, <1>5, <3>1 DEF Places
  <2> QED
    BY <2>1, <2>2, MinIs
<1>7. FirstPart(sep, rest) = Profile
  <2>1. (n + 1) - 1 = n
    BY <1>1
  <2>2. FirstPart(sep, rest) = SubSeq(rest, 1, n)
    BY <1>6, <2>1 DEF FirstPart
  <2>3. /\ SubSeq(rest, 1, n) \in Strings /\ Len(SubSeq(rest, 1, n)) = n
        /\ \A i \in 1..n : SubSeq(rest, 1, n)[i] = rest[i]
    <3>1. /\ SubSeq(rest, 1, n) \in Strings
          /\ Len(SubSeq(rest, 1, n)) = IF 1 <= n THEN n - 1 + 1 ELSE 0
          /\ \A i \in 1..(n - 1 + 1) : SubSeq(rest, 1, n)[i] = rest[1 + i - 1]
      BY <1>1, <1>2, <1>3, PartIsString
    <3>2. n - 1 + 1 = n /\ \A i \in 1..n : 1 + i - 1 = i
      BY <1>1
    <3> QED
      BY <1>1, <3>1, <3>2
  <2>4. Len(Profile) = n
    BY DEF n
  <2> QED
    BY <1>1, <1>3, <2>2, <2>3, <2>4, SeqEqual DEF Strings
<1>8. Below(sep, rest) = b
  <2> DEFINE part == SubSeq(rest, n + 2, n + 1 + Len(b))
  <2>1. Below(sep, rest) = part
    BY <1>3, <1>7 DEF Below, n
  <2>2. /\ part \in Strings /\ Len(part) = Len(b)
        /\ \A i \in 1..Len(b) : part[i] = rest[n + 1 + i]
    <3>1. /\ part \in Strings
          /\ Len(part) = IF n + 2 <= n + 1 + Len(b) THEN n + 1 + Len(b) - (n + 2) + 1 ELSE 0
          /\ \A i \in 1..(n + 1 + Len(b) - (n + 2) + 1) : part[i] = rest[n + 2 + i - 1]
      BY <1>1, <1>2, <1>3, PartIsString
    <3>2. /\ n + 1 + Len(b) - (n + 2) + 1 = Len(b)
          /\ \A i \in 1..Len(b) : n + 2 + i - 1 = n + 1 + i
          /\ ~(n + 2 <= n + 1 + Len(b)) => Len(b) = 0
      BY <1>1, <1>2
    <3> HIDE DEF part
    <3> QED
      BY <3>1, <3>2
  <2> HIDE DEF part
  <2>3. part = b
    BY <1>4, <2>2, SeqEqual DEF Strings
  <2> QED
    BY <2>1, <2>3
<1>9. Places(rest, Separators \ {sep}) = {} <=> Places(b, Separators \ {sep}) = {}
  <2> DEFINE Other == Separators \ {sep}
  <2>1. \A i \in 1..(n + 1) : rest[i] \notin Other
    BY <1>1, <1>3, <1>4
  <2>2. \A i \in (n + 2)..(n + 1 + Len(b)) : i - (n + 1) \in 1..Len(b) /\ rest[i] = b[i - (n + 1)]
    <3> SUFFICES ASSUME NEW i \in (n + 2)..(n + 1 + Len(b))
                 PROVE  i - (n + 1) \in 1..Len(b) /\ rest[i] = b[i - (n + 1)]
      OBVIOUS
    <3>1. i - (n + 1) \in 1..Len(b) /\ n + 1 + (i - (n + 1)) = i
      BY <1>1, <1>2
    <3> QED
      BY <1>4, <3>1
  <2> HIDE DEF Other
  <2>3. \A i \in 1..Len(b) : n + 1 + i \in 1..(n + 1 + Len(b))
    BY <1>1, <1>2
  <2>4. \A i \in 1..(n + 1 + Len(b)) : i \in 1..(n + 1) \/ i \in (n + 2)..(n + 1 + Len(b))
    BY <1>1, <1>2
  <2>5. Places(rest, Other) = {} <=> \A i \in 1..(n + 1 + Len(b)) : rest[i] \notin Other
    BY <1>5 DEF Places
  <2>6. Places(b, Other) = {} <=> \A i \in 1..Len(b) : b[i] \notin Other
    BY <1>5 DEF Places
  <2>7. Places(rest, Other) = {} <=> Places(b, Other) = {}
    BY <1>4, <2>1, <2>2, <2>3, <2>4, <2>5, <2>6
  <2> QED
    BY <2>7 DEF Other
<1>10. rest # <<>>
  BY <1>1, <1>2, <1>3, EmptySeq
<1> QED
  BY <1>3, <1>7, <1>8, <1>9, <1>10 DEF rest, tail

LEMMA ParseBelow ==
  ASSUME NEW sep \in Separators, NEW b \in PathsBelow(sep)
  PROVE  ParseRemote(<<sep>> \o (Profile \o (<<sep>> \o b)))
           = [ok |-> TRUE, profile |-> Profile, relative |-> Trim(Slashed(sep, b))]
<1> DEFINE rest == Profile \o (<<sep>> \o b)
<1>1. b \in Strings /\ Places(b, Separators \ {sep}) = {}
  BY DEF PathsBelow
<1>2. /\ rest \in Strings /\ rest # <<>>
      /\ Places(rest, Separators \ {sep}) = {}
      /\ FirstPart(sep, rest) = Profile /\ Below(sep, rest) = b
  BY <1>1, RestSplits
<1> HIDE DEF rest
<1>3. Profile # <<>>
  BY NamesAssumption
<1>4. ParseRemote(<<sep>> \o rest) = [ok |-> TRUE, profile |-> Profile, relative |-> Trim(Slashed(sep, b))]
  BY <1>2, <1>3, ParseSplits
<1> QED
  BY <1>4 DEF rest

(* A plain name is such a path, and stays itself. *)
LEMMA PlainNames ==
  ASSUME NEW sep \in Separators, NEW n \in Strings \ {<<>>},
         Places(n, {Slash}) = {}, Places(n, {Backslash}) = {}
  PROVE  n \in PathsBelow(sep) /\ Slashed(sep, n) = n /\ Trim(n) = n
<1>1. Len(n) \in Nat \ {0} /\ DOMAIN n = 1..Len(n)
  BY EmptySeq, LenProperties DEF Strings
<1>2. \A i \in 1..Len(n) : n[i] \notin Separators
  BY <1>1 DEF Places, Separators
<1>3. 1 \in 1..Len(n) /\ Len(n) \in 1..Len(n)
  BY <1>1
<1>4. n \in PathsBelow(sep)
  BY <1>1, <1>2, <1>3 DEF PathsBelow, Places
<1>5. Slashed(sep, n) = n
  <2>1. \A i \in 1..Len(n) : Slashed(sep, n)[i] = n[i]
    BY <1>2, SlashedIsString
  <2> QED
    BY <2>1, SlashedIsString, SeqEqual DEF Strings
<1>6. Trim(n) = n
  BY <1>2, <1>3, TrimNothing DEF Separators
<1> QED
  BY <1>4, <1>5, <1>6

LEMMA SlashedBelow ==
  ASSUME NEW sep \in Separators, NEW b \in PathsBelow(sep)
  PROVE  /\ Slashed(sep, b) \in Strings /\ Slashed(sep, b) # <<>>
         /\ Slashed(sep, b)[Len(Slashed(sep, b))] # Slash
         /\ Trim(Slashed(sep, b)) = Slashed(sep, b)
<1>1. b \in Strings /\ b[1] \notin Separators /\ b[Len(b)] \notin Separators /\ b # <<>>
  BY DEF PathsBelow
<1>2. 1 \in 1..Len(b) /\ Len(b) \in 1..Len(b) /\ Len(b) # 0
  <2>1. Len(b) \in Nat \ {0}
    BY <1>1, EmptySeq DEF Strings
  <2> QED
    BY <2>1
<1>3. /\ Slashed(sep, b) \in Strings /\ Len(Slashed(sep, b)) = Len(b)
      /\ \A i \in 1..Len(b) : Slashed(sep, b)[i] = IF b[i] = sep THEN Slash ELSE b[i]
  BY <1>1, SlashedIsString
<1>4. Slashed(sep, b)[1] # Slash /\ Slashed(sep, b)[Len(b)] # Slash
  BY <1>1, <1>2, <1>3 DEF Separators
<1>5. Slashed(sep, b) # <<>>
  BY <1>2, <1>3, EmptySeq
<1> QED
  BY <1>3, <1>4, <1>5, TrimNothing

(* One level deeper. *)
LEMMA LevelBelow ==
  ASSUME NEW sep \in Separators, NEW b \in PathsBelow(sep), NEW n \in PathsBelow(sep)
  PROVE  /\ b \o (<<sep>> \o n) \in PathsBelow(sep)
         /\ Slashed(sep, b \o (<<sep>> \o n)) = Slashed(sep, b) \o (<<Slash>> \o Slashed(sep, n))
<1> DEFINE one == <<sep>>
           tail == one \o n
           whole == b \o tail
<1>1. /\ sep \in Characters /\ one \in Strings /\ Len(one) = 1 /\ one[1] = sep
  BY PathAssumption, OneIsString
<1>2. /\ b \in Strings /\ b[1] \notin Separators /\ b[Len(b)] \notin Separators
      /\ n \in Strings /\ n[1] \notin Separators /\ n[Len(n)] \notin Separators
      /\ Len(b) \in Nat \ {0} /\ Len(n) \in Nat \ {0}
      /\ DOMAIN b = 1..Len(b) /\ DOMAIN n = 1..Len(n)
      /\ \A i \in 1..Len(b) : b[i] \notin Separators \ {sep}
      /\ \A i \in 1..Len(n) : n[i] \notin Separators \ {sep}
  BY EmptySeq, LenProperties DEF PathsBelow, Strings, Places
<1> HIDE DEF one
<1>3. /\ tail \in Strings /\ Len(tail) = 1 + Len(n)
      /\ \A i \in 1..(1 + Len(n)) : tail[i] = IF i <= 1 THEN one[i] ELSE n[i - 1]
  <2>1. /\ tail \in Strings /\ Len(tail) = Len(one) + Len(n)
        /\ \A i \in 1..(Len(one) + Len(n)) : tail[i] = IF i <= Len(one) THEN one[i] ELSE n[i - Len(one)]
    BY <1>1, <1>2, ConcatIsString
  <2> QED
    BY <1>1, <2>1
<1>4. tail[Len(tail)] = n[Len(n)] /\ \A i \in 1..Len(tail) : tail[i] \notin Separators \ {sep}
  <2>1. 1 + Len(n) \in 1..(1 + Len(n)) /\ ~(1 + Len(n) <= 1) /\ (1 + Len(n)) - 1 = Len(n)
    BY <1>2
  <2>2. tail[1 + Len(n)] = n[Len(n)]
    BY <1>3, <2>1
  <2>3. \A i \in 1..(1 + Len(n)) : (i <= 1 => i = 1) /\ (~(i <= 1) => i - 1 \in 1..Len(n))
    BY <1>2
  <2>4. \A i \in 1..(1 + Len(n)) : tail[i] \notin Separators \ {sep}
    <3> SUFFICES ASSUME NEW i \in 1..(1 + Len(n)) PROVE tail[i] \notin Separators \ {sep}
      OBVIOUS
    <3>1. CASE i <= 1
      <4>1. tail[i] = one[i] /\ i = 1
        BY <1>3, <2>3, <3>1
      <4>2. tail[i] = sep
        BY <1>1, <4>1
      <4> QED
        BY <4>2
    <3>2. CASE ~(i <= 1)
      <4>1. tail[i] = n[i - 1] /\ i - 1 \in 1..Len(n)
        BY <1>3, <2>3, <3>2
      <4> QED
        BY <1>2, <4>1
    <3> QED
      BY <3>1, <3>2
  <2> QED
    BY <1>3, <2>2, <2>4
<1> HIDE DEF tail
<1>5. /\ whole \in Strings /\ Len(whole) = Len(b) + Len(tail)
      /\ \A i \in 1..(Len(b) + Len(tail)) : whole[i] = IF i <= Len(b) THEN b[i] ELSE tail[i - Len(b)]
  BY <1>2, <1>3, ConcatIsString
<1>6. /\ whole[1] = b[1] /\ whole[Len(whole)] = tail[Len(tail)]
      /\ \A i \in 1..Len(whole) : whole[i] \notin Separators \ {sep}
  <2>1. /\ 1 \in 1..(Len(b) + Len(tail)) /\ 1 <= Len(b)
        /\ Len(b) + Len(tail) \in 1..(Len(b) + Len(tail)) /\ ~(Len(b) + Len(tail) <= Len(b))
        /\ Len(b) + Len(tail) - Len(b) = Len(tail)
        /\ Len(tail) \in Nat
    BY <1>2, <1>3
  <2>2. \A i \in 1..(Len(b) + Len(tail)) :
           (i <= Len(b) => i \in 1..Len(b)) /\ (~(i <= Len(b)) => i - Len(b) \in 1..Len(tail))
    BY <1>2, <2>1
  <2> HIDE DEF whole
  <2>3. whole[1] = b[1] /\ whole[Len(whole)] = tail[Len(tail)]
    BY <1>5, <2>1
  <2>4. \A i \in 1..(Len(b) + Len(tail)) : whole[i] \notin Separators \ {sep}
    <3> SUFFICES ASSUME NEW i \in 1..(Len(b) + Len(tail)) PROVE whole[i] \notin Separators \ {sep}
      OBVIOUS
    <3>1. CASE i <= Len(b)
      BY <1>2, <1>5, <2>2, <3>1
    <3>2. CASE ~(i <= Len(b))
      BY <1>4, <1>5, <2>2, <3>2
    <3> QED
      BY <3>1, <3>2
  <2> QED
    BY <1>5, <2>3, <2>4
<1>7. whole \in PathsBelow(sep)
  <2> HIDE DEF whole
  <2>1. whole # <<>> /\ DOMAIN whole = 1..Len(whole)
    BY <1>2, <1>3, <1>5, EmptySeq, LenProperties DEF Strings
  <2> QED
    BY <1>2, <1>4, <1>5, <1>6, <2>1 DEF PathsBelow, Places
<1>8. Slashed(sep, one) = <<Slash>>
  <2>1. /\ Slashed(sep, one) \in Strings /\ Len(Slashed(sep, one)) = 1
        /\ \A i \in 1..1 : Slashed(sep, one)[i] = IF one[i] = sep THEN Slash ELSE one[i]
    BY <1>1, SlashedIsString
  <2>2. <<Slash>> \in Strings /\ Len(<<Slash>>) = 1 /\ <<Slash>>[1] = Slash
    BY SeparatorsAre, OneIsString
  <2>3. Slashed(sep, one)[1] = Slash
    BY <1>1, <2>1
  <2>4. \A i \in 1..1 : Slashed(sep, one)[i] = <<Slash>>[i]
    BY <2>2, <2>3
  <2> HIDE DEF Slashed
  <2> QED
    BY <2>1, <2>2, <2>4, SeqEqual DEF Strings
<1>9. Slashed(sep, tail) = <<Slash>> \o Slashed(sep, n)
  <2>1. Slashed(sep, one \o n) = Slashed(sep, one) \o Slashed(sep, n)
    BY <1>1, <1>2, SlashedConcat
  <2> HIDE DEF Slashed
  <2> QED
    BY <1>8, <2>1 DEF tail
<1>10. Slashed(sep, whole) = Slashed(sep, b) \o Slashed(sep, tail)
  BY <1>2, <1>3, SlashedConcat
<1> QED
  BY <1>7, <1>9, <1>10 DEF whole, tail, one

(* A prefix as the profile has it: empty, or a folder. *)
FolderPrefixes == {p \in Strings : p # <<>> => p[Len(p)] = Slash}

LEMMA NormalizedPrefix ==
  ASSUME NEW p \in Strings
  PROVE  NormalizePrefix(p) \in FolderPrefixes
<1>1. CASE Trim(p) = <<>>
  BY <1>1, EmptySeq DEF NormalizePrefix, FolderPrefixes, Strings
<1>2. CASE Trim(p) # <<>>
  <2>1. Trim(p) \in Strings /\ Len(Trim(p)) \in Nat
    BY TrimIsString, LenProperties DEF Strings
  <2>2. /\ Append(Trim(p), Slash) \in Strings /\ Len(Append(Trim(p), Slash)) = Len(Trim(p)) + 1
        /\ Append(Trim(p), Slash)[Len(Trim(p)) + 1] = Slash
    BY <2>1, SeparatorsAre, AppendProperties DEF Strings
  <2> QED
    BY <1>2, <2>2 DEF NormalizePrefix, FolderPrefixes
<1> QED
  BY <1>1, <1>2

LEMMA KeysAreStrings ==
  ASSUME NEW p \in Strings, NEW r \in Strings
  PROVE  ObjectKey(p, r) \in Strings /\ ListingPrefix(p, r) \in Strings
<1>1. ObjectKey(p, r) \in Strings
  BY TrimIsString, ConcatIsString DEF ObjectKey
<1>2. Append(ObjectKey(p, r), Slash) \in Strings
  BY <1>1, SeparatorsAre, AppendProperties DEF Strings
<1> QED
  BY <1>1, <1>2, Zenon DEF ListingPrefix

LEMMA ParseTyped ==
  ASSUME NEW remote \in Strings
  PROVE  ParseRemote(remote).relative \in Strings
<1>1. CASE remote \in {<<>>, <<Slash>>, <<Backslash>>}
  <2>1. ParseRemote(remote) = [ok |-> TRUE, profile |-> <<>>, relative |-> <<>>]
    BY <1>1, Zenon DEF ParseRemote
  <2> QED
    BY <2>1, EmptySeq DEF Strings
<1>2. CASE remote \notin {<<>>, <<Slash>>, <<Backslash>>}
  <2> DEFINE sep == Head(remote)
             rest == Tail(remote)
  <2>1. rest \in Strings
    BY <1>2, HeadTailProperties DEF Strings
  <2>2. CASE sep \notin Separators \/ Places(rest, Separators \ {sep}) # {} \/ FirstPart(sep, rest) = <<>>
    <3>1. ParseRemote(remote) = PathError
      BY <1>2, <2>2, Zenon DEF ParseRemote, FirstPart
    <3> QED
      BY <3>1, EmptySeq DEF PathError, Strings
  <2>3. CASE ~(sep \notin Separators \/ Places(rest, Separators \ {sep}) # {} \/ FirstPart(sep, rest) = <<>>)
    <3>1. ParseRemote(remote) = [ok |-> TRUE, profile |-> FirstPart(sep, rest),
                                 relative |-> Trim(Slashed(sep, Below(sep, rest)))]
      BY <1>2, <2>3, Zenon DEF ParseRemote, FirstPart, Below, Slashed
    <3> HIDE DEF sep, rest
    <3>2. FirstPart(sep, rest) \in Strings
      <4> DEFINE places == Places(rest, {sep})
      <4>1. CASE places = {}
        BY <2>1, <4>1 DEF FirstPart
      <4>2. CASE places # {}
        <5>1. places \subseteq 1..Len(rest) /\ Len(rest) \in Nat
          BY <2>1, LenProperties DEF Places, Strings
        <5> HIDE DEF places
        <5>2. Min(places) \in 1..Len(rest)
          <6>1. places \subseteq Nat
            BY <5>1
          <6>2. Min(places) \in places
            BY <4>2, <6>1, MinExists
          <6> QED
            BY <5>1, <6>2
        <5>3. Min(places) - 1 \in Int /\ Min(places) - 1 <= Len(rest)
          BY <5>1, <5>2
        <5>4. SubSeq(rest, 1, Min(places) - 1) \in Strings
          BY <2>1, <5>3, PartIsString
        <5> QED
          BY <4>2, <5>4 DEF FirstPart, places
      <4> QED
        BY <4>1, <4>2
    <3>3. Below(sep, rest) \in Strings
      <4>1. Len(FirstPart(sep, rest)) + 2 \in Nat \ {0} /\ Len(rest) \in Int
        BY <2>1, <3>2, LenProperties DEF Strings
      <4> QED
        BY <2>1, <4>1, PartIsString DEF Below
    <3>4. Trim(Slashed(sep, Below(sep, rest))) \in Strings
      BY <2>3, <3>3, SlashedIsString, TrimIsString
    <3> QED
      BY <3>1, <3>4
  <2> QED
    BY <2>2, <2>3
<1> QED
  BY <1>1, <1>2

LEMMA NameIsPlain ==
  ASSUME NEW prefix \in Strings, NEW key \in Strings
  PROVE  NameUnder(prefix, key) \in Strings /\ Places(NameUnder(prefix, key), {Slash}) = {}
<1> DEFINE rest == SubSeq(key, Len(prefix) + 1, Len(key))
           places == Places(rest, {Slash})
<1>1. rest \in Strings /\ Len(rest) \in Nat /\ DOMAIN rest = 1..Len(rest)
  <2>1. Len(prefix) + 1 \in Nat \ {0} /\ Len(key) \in Int
    BY LenProperties DEF Strings
  <2>2. rest \in Strings
    BY <2>1, PartIsString
  <2> HIDE DEF rest
  <2> QED
    BY <2>2, LenProperties DEF Strings
<1>2. NameUnder(prefix, key) = IF places = {} THEN rest ELSE SubSeq(rest, 1, Min(places) - 1)
  BY DEF NameUnder
<1> HIDE DEF rest
<1>3. CASE places = {}
  BY <1>1, <1>2, <1>3
<1>4. CASE places # {}
  <2>1. places \subseteq 1..Len(rest) /\ \A i \in 1..Len(rest) : rest[i] = Slash => i \in places
    BY <1>1 DEF Places
  <2> HIDE DEF places
  <2>2. Min(places) \in places /\ \A i \in places : Min(places) <= i
    <3>1. places \subseteq Nat
      BY <1>1, <2>1
    <3> QED
      BY <1>4, <3>1, MinExists
  <2>3. PICK m \in 1..Len(rest) : m = Min(places)
    BY <2>1, <2>2
  <2>4. /\ SubSeq(rest, 1, m - 1) \in Strings /\ Len(SubSeq(rest, 1, m - 1)) = m - 1
        /\ \A i \in 1..(m - 1) : SubSeq(rest, 1, m - 1)[i] = rest[i]
    <3>1. m - 1 \in Int /\ m - 1 <= Len(rest) /\ 1 \in Nat \ {0}
      BY <1>1, <2>3
    <3>2. /\ SubSeq(rest, 1, m - 1) \in Strings
          /\ Len(SubSeq(rest, 1, m - 1)) = IF 1 <= m - 1 THEN m - 1 - 1 + 1 ELSE 0
          /\ \A i \in 1..(m - 1 - 1 + 1) : SubSeq(rest, 1, m - 1)[i] = rest[1 + i - 1]
      BY <1>1, <3>1, PartIsString
    <3>3. /\ m - 1 - 1 + 1 = m - 1 /\ \A i \in 1..(m - 1) : 1 + i - 1 = i
          /\ ~(1 <= m - 1) => m - 1 = 0
      BY <1>1, <2>3
    <3> QED
      BY <3>2, <3>3
  <2>5. \A i \in 1..(m - 1) : i \in 1..Len(rest) /\ i \notin places
    <3> SUFFICES ASSUME NEW i \in 1..(m - 1) PROVE i \in 1..Len(rest) /\ i \notin places
      OBVIOUS
    <3>1. i \in 1..Len(rest) /\ ~(m <= i)
      BY <1>1, <2>3
    <3> QED
      BY <2>2, <2>3, <3>1
  <2>6. \A i \in 1..(m - 1) : rest[i] # Slash
    BY <2>1, <2>5
  <2>7. Places(SubSeq(rest, 1, m - 1), {Slash}) = {}
    <3>1. DOMAIN SubSeq(rest, 1, m - 1) = 1..(m - 1)
      BY <2>4, LenProperties DEF Strings
    <3> QED
      BY <2>4, <2>6, <3>1 DEF Places
  <2> QED
    BY <1>2, <1>4, <2>3, <2>4, <2>7
<1> QED
  BY <1>3, <1>4

(* cFileName keeps a name that does not fill it. *)
LEMMA CutNames ==
  ASSUME NEW n \in Strings
  PROVE  CutName(n) \in Strings /\ (Len(CutName(n)) < MaxName => CutName(n) = n)
<1>1. Len(n) \in Nat /\ MaxName \in Nat \ {0}
  BY LenProperties, NamesAssumption DEF Strings
<1>2. CASE Len(n) <= MaxName
  <2>1. Min({Len(n), MaxName}) = Len(n)
    <3> DEFINE both == {Len(n), MaxName}
    <3>1. both \subseteq Nat /\ Len(n) \in both /\ \A m \in both : Len(n) <= m
      BY <1>1, <1>2
    <3> HIDE DEF both
    <3>2. Min(both) = Len(n)
      BY <3>1, MinIs
    <3> QED
      BY <3>2 DEF both
  <2> QED
    BY <2>1, SubSeqFull DEF CutName, Strings
<1>3. CASE ~(Len(n) <= MaxName)
  <2>1. Min({Len(n), MaxName}) = MaxName
    <3> DEFINE both == {Len(n), MaxName}
    <3>1. both \subseteq Nat /\ MaxName \in both /\ \A m \in both : MaxName <= m
      BY <1>1, <1>3
    <3> HIDE DEF both
    <3>2. Min(both) = MaxName
      BY <3>1, MinIs
    <3> QED
      BY <3>2 DEF both
  <2>2. MaxName \in Int /\ MaxName <= Len(n) /\ 1 \in Nat \ {0}
    BY <1>1, <1>3
  <2>3. SubSeq(n, 1, MaxName) \in Strings /\ Len(SubSeq(n, 1, MaxName)) = IF 1 <= MaxName THEN MaxName - 1 + 1 ELSE 0
    BY <2>2, PartIsString
  <2>4. Len(SubSeq(n, 1, MaxName)) = MaxName
    BY <1>1, <2>3
  <2> QED
    BY <1>1, <2>1, <2>3, <2>4 DEF CutName
<1> QED
  BY <1>2, <1>3

-----------------------------------------------------------------------------
(* The folders of the profile that plain names lead to. *)
Folders(sep) ==
  {<<sep>> \o Profile} \cup {<<sep>> \o (Profile \o (<<sep>> \o b)) : b \in PathsBelow(sep)}

(* Concatenation under a name that the provers take for any operator. *)
Joined(s, t) == s \o t

LEMMA JoinedAssociative ==
  ASSUME NEW s \in Strings, NEW t \in Strings, NEW u \in Strings
  PROVE  Joined(s, t) \in Strings /\ Joined(Joined(s, t), u) = Joined(s, Joined(t, u))
<1>1. s \o t \in Strings
  BY ConcatIsString
<1>2. (s \o t) \o u = s \o (t \o u)
  BY ConcatAssociative DEF Strings
<1> QED
  BY <1>1, <1>2 DEF Joined

(* A plain name leads from a folder to the key it was listed under, and is *)
(* itself a folder's name.                                                 *)
LEMMA FolderOpens ==
  ASSUME NEW sep \in Separators, NEW f \in Folders(sep), NEW p \in FolderPrefixes,
         NEW n \in Strings \ {<<>>}, Places(n, {Slash}) = {}, Places(n, {Backslash}) = {}
  PROVE  /\ f \o <<sep>> \o n \in Folders(sep)
         /\ ParseRemote(f \o <<sep>> \o n).ok
         /\ ParseRemote(f \o <<sep>> \o n).profile = Profile
         /\ ObjectKey(p, ParseRemote(f \o <<sep>> \o n).relative)
              = ListingPrefix(p, ParseRemote(f).relative) \o n
<1> DEFINE one == <<sep>>
<1>1. /\ one \in Strings /\ Profile \in Strings /\ n \in Strings
      /\ p \in Strings /\ <<Slash>> \in Strings
  BY PathAssumption, NamesAssumption, SeparatorsAre, OneIsString DEF FolderPrefixes, Strings
<1>2. n \in PathsBelow(sep) /\ Slashed(sep, n) = n /\ Trim(n) = n
  BY PlainNames
<1>3. CASE f = one \o Profile
  <2> DEFINE path == one \o (Profile \o (one \o n))
  <2>1. f \o one \o n = path
    <3> HIDE DEF one
    <3>1. Joined(Joined(Joined(one, Profile), one), n) = Joined(one, Joined(Profile, Joined(one, n)))
      BY <1>1, JoinedAssociative
    <3> QED
      BY <1>3, <3>1 DEF Joined
  <2>2. ParseRemote(path) = [ok |-> TRUE, profile |-> Profile, relative |-> n]
    BY <1>2, ParseBelow
  <2>3. path \in Folders(sep)
    BY <1>2 DEF Folders
  <2>4. ParseRemote(f).relative = <<>>
    BY <1>3, ParseProfile
  <2>5. ListingPrefix(p, <<>>) = p
    <3>1. Trim(<<>>) = <<>>
      <4>1. DOMAIN <<>> = {}
        OBVIOUS
      <4> QED
        BY <4>1, Zenon DEF Trim
    <3>2. ObjectKey(p, <<>>) = p
      BY <1>1, <3>1, ConcatEmptySeq DEF ObjectKey, Strings
    <3>3. p # <<>> => Last(p) = Slash
      BY DEF FolderPrefixes, Last
    <3> QED
      BY <3>2, <3>3 DEF ListingPrefix
  <2>6. ObjectKey(p, n) = p \o n
    BY <1>2 DEF ObjectKey
  <2> HIDE DEF path
  <2>7. /\ f \o one \o n \in Folders(sep)
        /\ ParseRemote(f \o one \o n).ok /\ ParseRemote(f \o one \o n).profile = Profile
        /\ ObjectKey(p, ParseRemote(f \o one \o n).relative) = ListingPrefix(p, ParseRemote(f).relative) \o n
    <3>1. ParseRemote(path).ok /\ ParseRemote(path).profile = Profile /\ ParseRemote(path).relative = n
      BY <2>2
    <3> QED
      BY <2>1, <2>3, <2>4, <2>5, <2>6, <3>1, Zenon
  <2> QED
    BY <2>7
<1>4. CASE \E b \in PathsBelow(sep) : f = one \o (Profile \o (one \o b))
  <2> PICK b \in PathsBelow(sep) : f = one \o (Profile \o (one \o b))
    BY <1>4
  <2> DEFINE c == b \o (one \o n)
             path == one \o (Profile \o (one \o c))
             r == Slashed(sep, b)
  <2>1. /\ r \in Strings /\ r # <<>> /\ r[Len(r)] # Slash /\ Trim(r) = r
        /\ b \in Strings
    BY SlashedBelow DEF PathsBelow
  <2>2. c \in PathsBelow(sep) /\ Slashed(sep, c) = r \o (<<Slash>> \o n)
    BY <1>2, LevelBelow
  <2>3. Trim(Slashed(sep, c)) = Slashed(sep, c) /\ Trim(Slashed(sep, c)) # <<>>
    BY <2>2, SlashedBelow
  <2>4. f \o one \o n = path
    <3> HIDE DEF one
    <3>1. Joined(Joined(Joined(one, Joined(Profile, Joined(one, b))), one), n)
            = Joined(one, Joined(Profile, Joined(one, Joined(b, Joined(one, n)))))
      <4>1. one \in Strings /\ Profile \in Strings /\ b \in Strings /\ n \in Strings
        BY <1>1, <2>1
      <4>2. Joined(Joined(one, b), Joined(one, n)) = Joined(one, Joined(b, Joined(one, n)))
        BY <4>1, JoinedAssociative
      <4> DEFINE ob == Joined(one, b)
                 on == Joined(one, n)
      <4>3. ob \in Strings /\ on \in Strings
        BY <4>1, JoinedAssociative
      <4>4. Joined(Joined(Joined(one, Joined(Profile, ob)), one), n)
              = Joined(one, Joined(Profile, Joined(ob, Joined(one, n))))
        <5> HIDE DEF ob
        <5> QED
          BY <4>1, <4>3, JoinedAssociative
      <4> QED
        BY <4>2, <4>4
    <3> QED
      BY <3>1 DEF Joined
  <2>5. ParseRemote(path) = [ok |-> TRUE, profile |-> Profile, relative |-> r \o (<<Slash>> \o n)]
    <3> HIDE DEF c, r
    <3> QED
      BY <2>2, <2>3, ParseBelow
  <2>6. ParseRemote(f).relative = r
    <3>1. ParseRemote(f) = [ok |-> TRUE, profile |-> Profile, relative |-> Trim(r)]
      BY ParseBelow
    <3> HIDE DEF r
    <3> QED
      BY <2>1, <3>1
  <2>7. path \in Folders(sep)
    <3> HIDE DEF c
    <3> QED
      BY <2>2 DEF Folders
  <2> HIDE DEF path, c, r
  <2>8. ObjectKey(p, r \o (<<Slash>> \o n)) = p \o (r \o (<<Slash>> \o n))
    BY <2>2, <2>3 DEF ObjectKey
  <2>9. ListingPrefix(p, r) = (p \o r) \o <<Slash>>
    <3> DEFINE key == p \o r
    <3>1. ObjectKey(p, r) = key
      BY <2>1 DEF ObjectKey
    <3>2. key \in Strings /\ key # <<>> /\ key[Len(key)] = r[Len(r)]
      <4>1. /\ key \in Strings /\ Len(key) = Len(p) + Len(r)
            /\ \A i \in 1..(Len(p) + Len(r)) : key[i] = IF i <= Len(p) THEN p[i] ELSE r[i - Len(p)]
        BY <1>1, <2>1, ConcatIsString
      <4>2. Len(p) \in Nat /\ Len(r) \in Nat \ {0}
        BY <1>1, <2>1, EmptySeq, LenProperties DEF Strings
      <4>3. /\ Len(p) + Len(r) \in 1..(Len(p) + Len(r)) /\ ~(Len(p) + Len(r) <= Len(p))
            /\ Len(p) + Len(r) - Len(p) = Len(r) /\ Len(p) + Len(r) # 0
        BY <4>2
      <4> HIDE DEF key
      <4>4. key # <<>>
        BY <4>1, <4>3, EmptySeq DEF Strings
      <4> QED
        BY <4>1, <4>3, <4>4
    <3> HIDE DEF key
    <3>3. ListingPrefix(p, r) = Append(key, Slash)
      BY <2>1, <3>1, <3>2 DEF ListingPrefix, Last
    <3>4. Append(key, Slash) = key \o <<Slash>>
      BY <3>2, SeparatorsAre, AppendIsConcat DEF Strings
    <3> QED
      BY <3>3, <3>4 DEF key
  <2>10. ((p \o r) \o <<Slash>>) \o n = p \o (r \o (<<Slash>> \o n))
    <3> DEFINE slash == <<Slash>>
    <3>1. slash \in Strings
      BY <1>1
    <3> HIDE DEF slash
    <3>2. Joined(Joined(Joined(p, r), slash), n) = Joined(p, Joined(r, Joined(slash, n)))
      BY <1>1, <2>1, <3>1, JoinedAssociative
    <3> QED
      BY <3>2 DEF Joined, slash
  <2> DEFINE key == r \o (<<Slash>> \o n)
  <2>11. ParseRemote(path).relative = key /\ ParseRemote(path).ok /\ ParseRemote(path).profile = Profile
    BY <2>5
  <2>12. ObjectKey(p, key) = ListingPrefix(p, r) \o n
    BY <2>8, <2>9, <2>10
  <2> HIDE DEF key
  <2>13. /\ f \o one \o n \in Folders(sep)
        /\ ParseRemote(f \o one \o n).ok /\ ParseRemote(f \o one \o n).profile = Profile
        /\ ObjectKey(p, ParseRemote(f \o one \o n).relative) = ListingPrefix(p, ParseRemote(f).relative) \o n
    BY <2>4, <2>6, <2>7, <2>11, <2>12
  <2> QED
    BY <2>13
<1> QED
  BY <1>3, <1>4 DEF Folders

(***************************************************************************)
(* The inductive invariant: everything that is put together to a path or a *)
(* key is a string; the prefix is a folder's; the path of the folder is    *)
(* made of plain names as long as it was reached by them; and what was     *)
(* listed there is told by the prefix it was listed with and its name.     *)
(***************************************************************************)
EntryListed ==
  \E name \in Strings \ {<<>>} :
    /\ Places(name, {Slash}) = {}
    /\ entry.name = CutName(name)
    /\ entry.prefix \in FolderPrefixes
    /\ entry.key = ListingPrefix(entry.prefix, ParseRemote(folder).relative) \o name

PathsTyped ==
  /\ separator \in Separators
  /\ object.key \in Strings
  /\ config.prefix \in FolderPrefixes
  /\ folder \in Strings /\ entry.name \in Strings

PathsInv ==
  /\ PathsTyped
  /\ plain /\ folder # <<>> => folder \in Folders(separator)
  /\ entry # NoEntry /\ folder = <<>> => entry.name = CutName(Profile)
  /\ entry # NoEntry /\ folder # <<>> => EntryListed

LEMMA NoNames ==
  /\ <<>> \in Strings /\ NoObject.key = <<>> /\ NoEntry.name = <<>> /\ NoEntry.dir = FALSE
  /\ Profile \in Strings
BY EmptySeq, NamesAssumption DEF Strings, NoObject, NoEntry

LEMMA ValidatedPrefixes ==
  ASSUME NEW p \in Profiles
  PROVE  Validated(p).prefix \in FolderPrefixes
<1>1. Validated(p).prefix = NormalizePrefix(p.prefix) /\ p.prefix \in Strings
  BY NamesAssumption DEF Validated, Strings
<1> QED
  BY <1>1, NormalizedPrefix

LEMMA PathsInit == Init => PathsInv
BY NoNames, ValidatedPrefixes DEF Init, PathsInv, PathsTyped

(* The path of a name, and what it resolves to, are strings. *)
LEMMA PathsAreStrings ==
  ASSUME PathsTyped, NEW name \in Strings
  PROVE  PathOf(name) \in Strings /\ FolderPath \in Strings /\ Resolve(PathOf(name)) \in Strings
<1> DEFINE one == <<separator>>
<1>1. one \in Strings
  BY PathAssumption, OneIsString DEF PathsTyped
<1> HIDE DEF one
<1>2. folder \o one \in Strings
  BY <1>1, ConcatIsString DEF PathsTyped
<1>3. (folder \o one) \o name \in Strings
  <2> DEFINE before == folder \o one
  <2>1. before \in Strings
    BY <1>2
  <2> HIDE DEF before
  <2>2. before \o name \in Strings
    BY <2>1, ConcatIsString
  <2> QED
    BY <2>2 DEF before
<1>4. PathOf(name) \in Strings
  BY <1>3 DEF PathOf, one
<1>5. FolderPath \in Strings
  BY <1>1 DEF FolderPath, one, PathsTyped
<1>6. Resolve(PathOf(name)) \in Strings
  BY <1>4, ParseTyped, NoNames, Zenon DEF Resolve
<1> QED
  BY <1>4, <1>5, <1>6

(* Nothing is listed in the root but the profile. *)
LEMMA ListsAFolder ==
  ASSUME PathsTyped, List
  PROVE  folder # <<>>
<1>1. SUFFICES ASSUME folder = <<>> PROVE FALSE
  OBVIOUS
<1>2. FolderPath = <<separator>> /\ <<separator>> \in {<<>>, <<Slash>>, <<Backslash>>}
  BY <1>1 DEF FolderPath, PathsTyped, Separators
<1>3. ParseRemote(FolderPath) = [ok |-> TRUE, profile |-> <<>>, relative |-> <<>>]
  BY <1>2, Zenon DEF ParseRemote
<1>4. ParseRemote(FolderPath).profile = Profile
  BY DEF List
<1> QED
  BY <1>3, <1>4, NamesAssumption

LEMMA ListKeepsPaths ==
  ASSUME PathsInv, List
  PROVE  PathsInv'
<1> DEFINE prefix == ListingPrefix(config.prefix, ParseRemote(FolderPath).relative)
           name == NameUnder(prefix, object.key)
<1>1. PathsTyped /\ folder # <<>> /\ FolderPath = folder
  BY ListsAFolder DEF PathsInv, FolderPath
<1>2. /\ separator' = separator /\ config' = config /\ object' = object /\ folder' = folder /\ plain' = plain
      /\ \/ entry' = NoEntry
         \/ /\ name # <<>>
            /\ \E dir, time : entry' = FillFindData(name, dir, time, prefix \o name, config.prefix)
  BY Zenon DEF List
<1>3. prefix \in Strings
  <2>1. ParseRemote(FolderPath).relative \in Strings
    BY <1>1, ParseTyped DEF PathsTyped
  <2> QED
    BY <1>1, <2>1, KeysAreStrings DEF PathsTyped, FolderPrefixes
<1>4. prefix = ListingPrefix(config.prefix, ParseRemote(folder).relative)
  BY <1>1
<1> HIDE DEF prefix
<1>5. name \in Strings /\ Places(name, {Slash}) = {}
  BY <1>1, <1>3, NameIsPlain DEF PathsTyped
<1> HIDE DEF name
<1>6. CASE entry' = NoEntry
  <2>1. PathsTyped'
    BY <1>1, <1>2, <1>6, NoNames DEF PathsTyped
  <2> QED
    BY <1>1, <1>2, <1>6, <2>1 DEF PathsInv
<1>7. CASE name # <<>> /\ \E dir, time : entry' = FillFindData(name, dir, time, prefix \o name, config.prefix)
  <2>1. /\ entry'.name = CutName(name) /\ entry'.key = prefix \o name /\ entry'.prefix = config.prefix
    BY <1>7 DEF FillFindData
  <2>2. EntryListed'
    <3>1. /\ name \in Strings \ {<<>>} /\ Places(name, {Slash}) = {}
          /\ entry'.name = CutName(name) /\ entry'.prefix \in FolderPrefixes
          /\ entry'.key = ListingPrefix(entry'.prefix, ParseRemote(folder').relative) \o name
      BY <1>1, <1>2, <1>4, <1>5, <1>7, <2>1, Zenon DEF PathsTyped
    <3> QED
      BY <3>1, Zenon DEF EntryListed
  <2>3. PathsTyped'
    <3>1. entry'.name \in Strings
      BY <1>5, <2>1, CutNames
    <3> QED
      BY <1>1, <1>2, <3>1 DEF PathsTyped
  <2> QED
    BY <1>1, <1>2, <2>2, <2>3 DEF PathsInv
<1> QED
  BY <1>2, <1>6, <1>7

LEMMA ListRootKeepsPaths ==
  ASSUME PathsInv, ListRoot
  PROVE  PathsInv'
<1>1. /\ separator' = separator /\ config' = config /\ object' = object /\ folder' = folder /\ plain' = plain
      /\ folder = <<>> /\ entry'.name = CutName(Profile)
  BY DEF ListRoot, FillFindData
<1>2. CutName(Profile) \in Strings
  BY NoNames, CutNames
<1> QED
  BY <1>1, <1>2 DEF PathsInv, PathsTyped

(* A listed name that leads on is one that was listed whole. *)
LEMMA ListedPlainly ==
  ASSUME PathsInv, EntryListed, Plain(entry.name)
  PROVE  /\ entry.name \in Strings \ {<<>>}
         /\ Places(entry.name, {Slash}) = {} /\ Places(entry.name, {Backslash}) = {}
         /\ entry.prefix \in FolderPrefixes
         /\ entry.key = ListingPrefix(entry.prefix, ParseRemote(folder).relative) \o entry.name
<1>1. PICK name \in Strings \ {<<>>} :
             /\ Places(name, {Slash}) = {}
             /\ entry.name = CutName(name)
             /\ entry.prefix \in FolderPrefixes
             /\ entry.key = ListingPrefix(entry.prefix, ParseRemote(folder).relative) \o name
  BY DEF EntryListed
<1>2. Len(entry.name) < MaxName /\ Places(entry.name, {Backslash}) = {}
  BY DEF Plain
<1>3. entry.name = name
  BY <1>1, <1>2, CutNames
<1> QED
  BY <1>1, <1>2, <1>3

LEMMA EnterKeepsPaths ==
  ASSUME PathsInv, Enter
  PROVE  PathsInv'
<1>1. /\ separator' = separator /\ config' = config /\ object' = object /\ entry' = NoEntry
      /\ folder' = folder \o <<separator>> \o entry.name
      /\ plain' => plain /\ Plain(entry.name)
      /\ entry # NoEntry
  BY NoNames DEF Enter, PathOf
<1>2. PathsTyped /\ folder' \in Strings
  <2>1. PathOf(entry.name) \in Strings
    BY PathsAreStrings DEF PathsInv, PathsTyped
  <2> QED
    BY <1>1, <2>1 DEF PathOf, PathsInv
<1>3. PathsTyped'
  BY <1>1, <1>2, NoNames DEF PathsTyped
<1>4. ASSUME plain' PROVE folder' \in Folders(separator)
  <2>1. plain /\ Plain(entry.name)
    BY <1>1, <1>4
  <2>2. CASE folder = <<>>
    <3>1. entry.name = CutName(Profile) /\ Len(entry.name) < MaxName
      BY <1>1, <2>1, <2>2 DEF PathsInv, Plain
    <3>2. entry.name = Profile
      BY <3>1, NoNames, CutNames
    <3>3. <<separator>> \in Strings
      BY <1>2, PathAssumption, OneIsString DEF PathsTyped
    <3>4. <<>> \o <<separator>> = <<separator>>
      BY <3>3, ConcatEmptySeq DEF Strings
    <3>5. folder' = <<separator>> \o Profile
      BY <1>1, <2>2, <3>2, <3>4
    <3> QED
      BY <3>5 DEF Folders
  <2>3. CASE folder # <<>>
    <3>1. EntryListed /\ folder \in Folders(separator)
      BY <1>1, <2>1, <2>3 DEF PathsInv
    <3>2. /\ entry.name \in Strings \ {<<>>}
          /\ Places(entry.name, {Slash}) = {} /\ Places(entry.name, {Backslash}) = {}
          /\ entry.prefix \in FolderPrefixes
      BY <2>1, <3>1, ListedPlainly
    <3>3. separator \in Separators
      BY <1>2 DEF PathsTyped
    <3>4. folder \o <<separator>> \o entry.name \in Folders(separator)
      BY <3>1, <3>2, <3>3, FolderOpens
    <3> QED
      BY <1>1, <3>4
  <2> QED
    BY <2>2, <2>3
<1> QED
  BY <1>1, <1>3, <1>4 DEF PathsInv

LEMMA PutKeepsPaths ==
  ASSUME PathsInv, NEW name \in NewNames \cup {entry.name}, Put(name)
  PROVE  PathsInv'
<1>1. name \in Strings /\ PathsTyped
  BY NamesAssumption DEF PathsInv, PathsTyped, Strings
<1>2. /\ separator' = separator /\ config' = config /\ folder' = folder /\ plain' = plain /\ entry' = entry
      /\ object'.key = ObjectKey(config.prefix, Resolve(PathOf(name)))
  BY DEF Put
<1>3. object'.key \in Strings
  <2>1. Resolve(PathOf(name)) \in Strings /\ config.prefix \in Strings
    BY <1>1, PathsAreStrings DEF PathsTyped, FolderPrefixes
  <2> QED
    BY <1>2, <2>1, KeysAreStrings
<1> QED
  BY <1>1, <1>2, <1>3 DEF PathsInv, PathsTyped, EntryListed

LEMMA PathsStep == PathsInv /\ [Next]_vars => PathsInv'
<1> SUFFICES ASSUME PathsInv, [Next]_vars PROVE PathsInv'
  OBVIOUS
<1>1. CASE ListRoot
  BY <1>1, ListRootKeepsPaths
<1>2. CASE List
  BY <1>2, ListKeepsPaths
<1>3. CASE Enter
  BY <1>3, EnterKeepsPaths
<1>4. CASE Leave
  BY <1>4, NoNames DEF Leave, PathsInv, PathsTyped
<1>5. ASSUME NEW withInfo \in BOOLEAN, NEW stampFails \in BOOLEAN, Get(withInfo, stampFails) PROVE PathsInv'
  BY <1>5 DEF Get, PathsInv, PathsTyped, EntryListed
<1>6. ASSUME NEW name \in NewNames \cup {entry.name}, Put(name) PROVE PathsInv'
  BY <1>6, PutKeepsPaths
<1>7. CASE Delete
  <2>1. /\ separator' = separator /\ config' = config /\ folder' = folder /\ plain' = plain /\ entry' = entry
        /\ object' \in {object, NoObject}
    BY <1>7 DEF Delete
  <2>2. object'.key \in Strings
    BY <2>1, NoNames DEF PathsInv, PathsTyped
  <2> QED
    BY <2>1, <2>2 DEF PathsInv, PathsTyped, EntryListed
<1>8. ASSUME NEW stored \in Foreign, OtherStores(stored) PROVE PathsInv'
  <2>1. /\ separator' = separator /\ config' = config /\ folder' = folder /\ plain' = plain /\ entry' = entry
        /\ object'.key = stored.key
    BY <1>8 DEF OtherStores
  <2>2. object'.key \in Strings
    BY <2>1, NamesAssumption DEF Strings
  <2> QED
    BY <2>1, <2>2 DEF PathsInv, PathsTyped, EntryListed
<1>9. CASE Reload
  <2>1. /\ separator' = separator /\ object' = object /\ folder' = folder /\ plain' = plain /\ entry' = entry
        /\ config'.prefix \in FolderPrefixes
    BY <1>9, ValidatedPrefixes DEF Reload
  <2> QED
    BY <2>1 DEF PathsInv, PathsTyped, EntryListed
<1>10. CASE EditLocal \/ UNCHANGED vars
  <2>1. /\ separator' = separator /\ object' = object /\ folder' = folder /\ plain' = plain /\ entry' = entry
        /\ config' = config
    BY <1>10 DEF EditLocal, vars
  <2> QED
    BY <2>1 DEF PathsInv, PathsTyped, EntryListed
<1> QED
  BY <1>1, <1>2, <1>3, <1>4, <1>5, <1>6, <1>7, <1>8, <1>9, <1>10 DEF Next

(***************************************************************************)
(* Whatever passes between the host and the bucket has its type: paths,    *)
(* names, prefixes and keys are strings, times are times, and metadata is  *)
(* a text that parseModTime can be given.                                  *)
(***************************************************************************)
THEOREM TypeCorrect == Spec => [](PathsTyped /\ TimesTyped)
<1>1. PathsInv => PathsTyped
  BY DEF PathsInv
<1> QED
  BY <1>1, PathsInit, PathsStep, TimesInit, TimesStep, PTL DEF Spec

(***************************************************************************)
(* What the host shows under a plain name, it gets, replaces and deletes   *)
(* under that name, and a folder's name lists that folder: for every       *)
(* profile, prefix, key and depth of folders, ListingPrefix and ObjectKey  *)
(* agree through cFileName, the host's separators and ParseRemote.         *)
(***************************************************************************)
THEOREM ListedNamesOpen == Spec => []ListedNameOpens
<1>1. PathsInv => ListedNameOpens
  <2> SUFFICES ASSUME PathsInv, entry # NoEntry, folder # <<>>, config.prefix = entry.prefix,
                      plain, Plain(entry.name)
               PROVE  /\ ParseRemote(PathOf(entry.name)).ok
                      /\ ParseRemote(PathOf(entry.name)).profile = Profile
                      /\ ObjectKey(config.prefix, ParseRemote(PathOf(entry.name)).relative) = entry.key
    BY DEF ListedNameOpens
  <2>1. EntryListed /\ folder \in Folders(separator) /\ separator \in Separators
    BY DEF PathsInv, PathsTyped
  <2>2. /\ entry.name \in Strings \ {<<>>}
        /\ Places(entry.name, {Slash}) = {} /\ Places(entry.name, {Backslash}) = {}
        /\ entry.prefix \in FolderPrefixes
        /\ entry.key = ListingPrefix(entry.prefix, ParseRemote(folder).relative) \o entry.name
    BY <2>1, ListedPlainly
  <2> DEFINE path == folder \o <<separator>> \o entry.name
  <2>3. /\ ParseRemote(path).ok /\ ParseRemote(path).profile = Profile
        /\ ObjectKey(entry.prefix, ParseRemote(path).relative)
             = ListingPrefix(entry.prefix, ParseRemote(folder).relative) \o entry.name
    BY <2>1, <2>2, FolderOpens
  <2> HIDE DEF path
  <2>4. PathOf(entry.name) = path
    BY DEF PathOf, path
  <2> QED
    BY <2>2, <2>3, <2>4
<1> QED
  BY <1>1, PathsInit, PathsStep, PTL DEF Spec
=============================================================================
