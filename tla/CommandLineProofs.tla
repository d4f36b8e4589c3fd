--------------------------- MODULE CommandLineProofs ---------------------------
(***************************************************************************)
(* What the command line reports of files and exits with, for any files    *)
(* and any arguments.                                                      *)
(***************************************************************************)
EXTENDS CommandLineProps, AntReaderProofs

-------------------------------------------------------------------------------
\* The lines of a file

\* What is known of a line by its kind.
KnownLine(line) ==
  /\ line.kind = "header" => line \in Headers /\ line \in Header
  /\ line.kind \notin {"header", "trailer"} => line \in Lines
  /\ line.kind \in DataKinds => line \in DataRecords

Held(F) == F \in Seq(Range(F)) /\ \A i \in 1 .. Len(F) : KnownLine(F[i])

LEMMA FileIsHeld ==
  ASSUME NEW path \in DOMAIN Contents, Contents[path] # None
  PROVE  Held(Contents[path])
  <1>1. PICK F : F = Contents[path] OBVIOUS
  <1>2. /\ F \in Seq(Range(F))
        /\ \A line \in Range(F) : line \in Headers \union Lines \/ line.kind = "trailer"
    BY <1>1, FilesAssumption
  <1>3. ASSUME NEW i \in 1 .. Len(F) PROVE KnownLine(F[i])
    <2>1. PICK line : line = F[i] OBVIOUS
    <2>2. line \in Range(F) BY <1>2, <2>1 DEF Range
    <2>3. CASE line \in Headers
      <3>1. line \in Header BY <2>3, ConstantsAssumption
      <3>2. line.kind = "header" BY <3>1 DEF Header
      <3> QED BY <2>1, <2>3, <3>1, <3>2 DEF KnownLine, DataKinds, PlainKinds
    <2>4. CASE line \in Lines
      <3>1. line \in DataRecords \/ line \in OtherLines BY <2>4, ConstantsAssumption
      <3>2. line.kind # "header"
        BY <3>1 DEF DataRecords, Evidence, OriginalChunk, OriginalSource, PlainRecord, OtherLines,
                    PlainKinds
      <3> QED BY <2>1, <2>4, <3>2, LineKinds DEF KnownLine
    <2>5. CASE line.kind = "trailer" BY <2>1, <2>5 DEF KnownLine, DataKinds, PlainKinds
    <2> QED BY <1>2, <2>2, <2>3, <2>4, <2>5
  <1> QED BY <1>1, <1>2, <1>3 DEF Held

LEMMA SameFirst ==
  ASSUME NEW s, NEW t, NEW n \in Nat, SameUpTo(s, t, n), NEW d, AreFirst(d, s, n)
  PROVE  AreFirst(d, t, n)
  <1>1. ASSUME NEW i \in 0 .. n PROVE KnownUpTo(s, i) = KnownUpTo(t, i)
    <2>1. KnownAmong(s, i) = KnownAmong(t, i) BY DEF KnownAmong, SameUpTo
    <2> QED BY <2>1 DEF KnownUpTo, KnownAmong
  <1>2. \A i \in 1 .. n : s[i] = t[i] /\ i \in 0 .. n BY DEF SameUpTo
  <1>3. n \in 0 .. n OBVIOUS
  <1> QED BY <1>1, <1>2, <1>3 DEF AreFirst

-------------------------------------------------------------------------------
\* A file of which k lines were read and none refused

\* The first is the manifest of a stream this build reads, the others are read on
\* from.
Judged(F, k) ==
  /\ k \in 1 .. Len(F)
  /\ F[1].kind = "header" /\ HeaderAccepted(F[1])
  /\ version = F[1].version
  /\ \A i \in 2 .. k : Readable(F[i], Carries)

\* The hasher was fed these, and the others are to come.
Placed(F, k) ==
  /\ Len(hashed) = k /\ \A i \in 1 .. k : hashed[i] = F[i]
  /\ transit \in Seq(Range(F)) /\ Len(transit) = Len(F) - k
  /\ \A j \in 1 .. Len(transit) : transit[j] = F[k + j]

\* The records among them were handed out and counted, and are well grouped.
Handed(F, k) ==
  /\ AreFirst(delivered, F, k)
  /\ WellGrouped(delivered, Carries)
  /\ counts = Tally(hashed)

Reading(F, k) == Judged(F, k) /\ Placed(F, k) /\ Handed(F, k)

LEMMA CarriesWhat ==
  ASSUME NEW F, NEW k, Judged(F, k)
  PROVE  ContractCarries = Carries /\ Carries = CarriesOriginals(F[1].version)
  BY DEF Judged, HeaderAccepted, ContractCarries, Carries, CarriesOriginals

\* The archive does not end before.
LEMMA EndsLater ==
  ASSUME NEW F, Held(F), NEW k, Judged(F, k), NEW n \in DOMAIN F, EndsArchive(F, n)
  PROVE  k \in Nat /\ n \in Nat /\ k < n /\ n <= Len(F) /\ Len(F) \in Nat
  <1>1. n \in 1 .. Len(F) /\ Len(F) \in Nat /\ k \in 1 .. Len(F) BY DEF Held, Judged
  <1>2. n > 1 /\ F[n].kind = "trailer" BY DEF EndsArchive
  <1>3. ~Readable(F[n], Carries) BY <1>2 DEF Readable, DataKinds, PlainKinds
  <1>4. n \notin 2 .. k BY <1>3 DEF Judged
  <1> QED BY <1>1, <1>2, <1>4

\* The line that comes next is one an archive may go on with, or its trailer.
LEMMA EndsOrGoesOn ==
  ASSUME NEW F, Held(F), NEW k, Judged(F, k), NEW n \in DOMAIN F, EndsArchive(F, n)
  PROVE  /\ k + 1 \in 1 .. Len(F) /\ k + 1 <= n
         /\ n # k + 1 => Readable(F[k + 1], Carries) /\ F[k + 1].kind # "trailer"
         /\ n = k + 1 => F[k + 1].kind = "trailer"
  <1>1. k \in Nat /\ n \in Nat /\ k < n /\ n <= Len(F) /\ Len(F) \in Nat BY EndsLater
  <1>2. 1 <= k BY <1>1 DEF Judged
  <1>3. ASSUME n # k + 1 PROVE Readable(F[k + 1], Carries)
    <2>1. k + 1 \in 2 .. (n - 1) BY <1>1, <1>2, <1>3
    <2>2. Readable(F[k + 1], CarriesOriginals(F[1].version)) BY <2>1 DEF EndsArchive
    <2> QED BY <2>2, CarriesWhat
  <1>4. Readable(F[k + 1], Carries) => F[k + 1].kind # "trailer"
    BY DEF Readable, DataKinds, PlainKinds
  <1>5. n = k + 1 => F[k + 1].kind = "trailer" BY DEF EndsArchive
  <1> QED BY <1>1, <1>3, <1>4, <1>5

\* A line that is neither spoils the file.
LEMMA UnreadableSpoils ==
  ASSUME NEW F, Held(F), NEW k, Judged(F, k),
         k = Len(F) \/ (F[k + 1].kind # "trailer" /\ ~Readable(F[k + 1], Carries))
  PROVE  ~IsWholeArchive(F)
  <1> SUFFICES ASSUME NEW n \in DOMAIN F, EndsArchive(F, n) PROVE FALSE BY DEF IsWholeArchive
  <1>1. k \in Nat /\ n \in Nat /\ k < n /\ n <= Len(F) /\ Len(F) \in Nat BY EndsLater
  <1> QED BY <1>1, EndsOrGoesOn

\* So does a record that is out of its place.
LEMMA MisplacedSpoils ==
  ASSUME NEW F, Held(F), NEW k, Judged(F, k), Handed(F, k), delivered \in Seq(DataRecords),
         NEW r, r = F[k + 1], r.kind \in DataKinds,
         ~InPlace(Append(delivered, r), Len(Append(delivered, r)), ContractCarries)
  PROVE  ~IsWholeArchive(F)
  <1> SUFFICES ASSUME NEW n \in DOMAIN F, EndsArchive(F, n) PROVE FALSE BY DEF IsWholeArchive
  <1>1. k \in Nat /\ n \in Nat /\ k < n /\ n <= Len(F) /\ Len(F) \in Nat BY EndsLater
  <1>2. n # k + 1 BY EndsOrGoesOn DEF DataKinds, PlainKinds
  <1>3. PICK b : b = SubSeq(F, 1, n - 1) OBVIOUS
  <1>4. PICK S : S = Range(F) OBVIOUS
  <1>5. F \in Seq(S) BY <1>4 DEF Held
  <1>6. b \in Seq(S) /\ Len(b) = n - 1 /\ \A i \in 1 .. n - 1 : b[i] = F[i]
    BY <1>1, <1>3, <1>5
  <1>7. DataIn(b)
    <2> SUFFICES ASSUME NEW i \in DOMAIN b, b[i].kind \in DataKinds PROVE b[i] \in DataRecords
      BY DEF DataIn
    <2>1. i \in 1 .. n - 1 /\ i \in 1 .. Len(F) BY <1>1, <1>6
    <2> QED BY <1>6, <2>1 DEF Held, KnownLine
  <1>8. PICK d, c : d = delivered /\ c = ContractCarries OBVIOUS
  <1>9. AreFirst(d, b, k)
    <2>1. SameUpTo(F, b, k) BY <1>1, <1>6 DEF SameUpTo
    <2>2. AreFirst(d, F, k) BY <1>8 DEF Handed
    <2> QED BY <1>1, <2>1, <2>2, SameFirst
  <1>10. k + 1 <= Len(b) /\ r = b[k + 1]
    <2>1. k + 1 \in 1 .. n - 1 BY <1>1, <1>2
    <2> QED BY <1>6, <2>1
  <1>11. ~WellGrouped(Known(b), c)
    BY <1>1, <1>6, <1>7, <1>8, <1>9, <1>10, IllGrouped
  <1>12. c = CarriesOriginals(F[1].version) BY <1>8, CarriesWhat
  <1> QED BY <1>3, <1>11, <1>12 DEF EndsArchive

\* A trailer is accepted exactly if the file is whole.
LEMMA TrailerTells ==
  ASSUME RestOK, SlotsInv, OpenGroup, NEW F, Held(F), NEW k, Reading(F, k),
         k # Len(F), F[k + 1].kind = "trailer"
  PROVE  TrailerMatches(F[k + 1]) <=> IsWholeArchive(F)
  <1>1. k \in Nat /\ k \in 1 .. Len(F) /\ Len(F) \in Nat /\ k + 1 \in DOMAIN F /\ (k + 1) - 1 = k
    BY DEF Reading, Judged, Held
  <1>2. PICK S : S = Range(F) OBVIOUS
  <1>3. F \in Seq(S) BY <1>2 DEF Held
  <1>4. PICK b : b = SubSeq(F, 1, k) OBVIOUS
  <1>5. b \in Seq(S) /\ Len(b) = k /\ \A i \in 1 .. k : b[i] = F[i]
    BY <1>1, <1>3, <1>4
  <1>6. hashed = b
    <2>1. PICK h : h = hashed OBVIOUS
    <2>2. h \in Seq(StreamLines) /\ Len(h) = k /\ \A i \in 1 .. k : h[i] = F[i]
      BY <2>1 DEF RestOK, Reading, Placed
    <2>3. h = b BY <1>5, <2>2
    <2> QED BY <2>1, <2>3
  <1>7. DataIn(b)
    <2> SUFFICES ASSUME NEW i \in DOMAIN b, b[i].kind \in DataKinds PROVE b[i] \in DataRecords
      BY DEF DataIn
    <2>1. i \in 1 .. k /\ i \in 1 .. Len(F) BY <1>1, <1>5
    <2> QED BY <1>5, <2>1 DEF Held, KnownLine
  <1>8. Known(b) = delivered
    <2>1. PICK d \in Seq(DataRecords) : d = delivered BY DEF RestOK
    <2>2. SameUpTo(F, b, k) BY <1>1, <1>5 DEF SameUpTo
    <2>3. AreFirst(d, F, k) BY <2>1 DEF Reading, Handed
    <2>4. AreFirst(d, b, k) BY <1>1, <2>2, <2>3, SameFirst
    <2> QED BY <1>1, <1>5, <1>7, <2>1, <2>4, FirstRecords
  <1>9. original = None <=> Complete(Known(b)) BY <1>8, NoneOpenIsComplete
  <1>10. counts = Tally(b) BY <1>6 DEF Reading, Handed
  <1>11. TrailerMatches(F[k + 1]) <=>
           Complete(Known(b)) /\ F[k + 1].sha256 = Digest(b) /\ F[k + 1].counts = Tally(b)
    BY <1>6, <1>9, <1>10 DEF TrailerMatches
  <1>12. CarriesOriginals(F[1].version) = Carries BY CarriesWhat DEF Reading
  <1>13. WellGrouped(Known(b), Carries) BY <1>8 DEF Reading, Handed
  <1>14. EndsArchive(F, k + 1) <=>
           Complete(Known(b)) /\ F[k + 1].sha256 = Digest(b) /\ F[k + 1].counts = Tally(b)
    <2>1. /\ k + 1 > 1 /\ F[1].kind = "header" /\ HeaderAccepted(F[1])
          /\ \A i \in 2 .. k : Readable(F[i], Carries)
      BY <1>1 DEF Reading, Judged
    <2>2. SubSeq(F, 1, (k + 1) - 1) = b BY <1>1, <1>4
    <2> QED BY <1>1, <1>12, <1>13, <2>1, <2>2 DEF EndsArchive
  <1>15. IsWholeArchive(F) <=> EndsArchive(F, k + 1)
    BY <1>1, EndsOrGoesOn DEF IsWholeArchive, Reading
  <1> QED BY <1>11, <1>14, <1>15

-------------------------------------------------------------------------------
\* A file while it is read

\* What the reader makes of the file: refused is not whole, and the end is
\* reached of a whole one only, and of every one.
Judgement(F) ==
  /\ phase = "closed" => transit = F /\ counts = ZeroCounts /\ delivered = <<>>
  /\ phase = "refused" => ~IsWholeArchive(F)
  /\ phase = "reading" => Reading(F, Len(hashed))
  /\ phase = "stopped" => (outcome = "end" <=> IsWholeArchive(F))

LEMMA NextInFile ==
  ASSUME NEW F, Held(F), NEW k, Reading(F, k)
  PROVE  /\ k \in Nat /\ k >= 1 /\ k <= Len(F) /\ Len(F) \in Nat
         /\ transit = <<>> => k = Len(F)
         /\ transit # <<>> => k + 1 \in 1 .. Len(F) /\ Head(transit) = F[k + 1]
  <1>1. k \in 1 .. Len(F) /\ Len(F) \in Nat BY DEF Held, Reading, Judged
  <1>2. PICK t : t = transit OBVIOUS
  <1>3. t \in Seq(Range(F)) /\ Len(t) = Len(F) - k /\ \A j \in 1 .. Len(t) : t[j] = F[k + j]
    BY <1>2 DEF Reading, Placed
  <1>4. t = <<>> => k = Len(F) BY <1>1, <1>3
  <1>5. ASSUME t # <<>> PROVE k + 1 \in 1 .. Len(F) /\ Head(t) = F[k + 1]
    <2>1. 1 \in 1 .. Len(t) /\ Head(t) = t[1] BY <1>3, <1>5
    <2> QED BY <1>1, <1>3, <2>1
  <1> QED BY <1>1, <1>2, <1>4, <1>5

\* One line further.
LEMMA GoesOn ==
  ASSUME NEW F, Held(F), NEW k, Reading(F, k), hashed \in Seq(StreamLines),
         NEW line \in StreamLines, transit # <<>>, line = Head(transit), transit' = Tail(transit),
         hashed' = Append(hashed, line), version' = version, Readable(line, Carries),
         AreFirst(delivered', F, k + 1), WellGrouped(delivered', ContractCarries),
         counts' = Tally(hashed')
  PROVE  Reading(F, Len(hashed))'
  <1>1. /\ k \in Nat /\ k >= 1 /\ k <= Len(F) /\ Len(F) \in Nat
        /\ k + 1 \in 1 .. Len(F) /\ line = F[k + 1]
    BY NextInFile
  <1>2. /\ Judged(F, k) /\ Len(hashed) = k /\ \A i \in 1 .. k : hashed[i] = F[i]
        /\ transit \in Seq(Range(F)) /\ Len(transit) = Len(F) - k
        /\ \A j \in 1 .. Len(transit) : transit[j] = F[k + j]
    BY DEF Reading, Placed
  <1>3. Carries' = Carries BY DEF Carries
  <1>4. Judged(F, k + 1)'
    <2>1. \A i \in 2 .. k + 1 : i = k + 1 \/ i \in 2 .. k BY <1>1
    <2>2. \A i \in 2 .. k + 1 : Readable(F[i], Carries') BY <1>1, <1>2, <1>3, <2>1 DEF Judged
    <2> QED BY <1>1, <1>2, <2>2 DEF Judged
  <1>5. Len(hashed') = k + 1 /\ \A i \in 1 .. k + 1 : hashed'[i] = F[i]
    <2>1. /\ Len(hashed') = k + 1 /\ hashed'[k + 1] = line
          /\ \A i \in 1 .. k : hashed'[i] = hashed[i]
      BY <1>2
    <2>2. \A i \in 1 .. k + 1 : i = k + 1 \/ i \in 1 .. k BY <1>1
    <2> QED BY <1>1, <1>2, <2>1, <2>2
  <1>6. /\ transit' \in Seq(Range(F)) /\ Len(transit') = Len(F) - (k + 1)
        /\ \A j \in 1 .. Len(transit') : transit'[j] = F[(k + 1) + j]
    <2>1. /\ transit' \in Seq(Range(F)) /\ Len(transit') = Len(transit) - 1
          /\ \A j \in 1 .. Len(transit') : transit'[j] = transit[j + 1]
      BY <1>2
    <2>2. ASSUME NEW j \in 1 .. Len(transit') PROVE transit'[j] = F[(k + 1) + j]
      <3>1. j + 1 \in 1 .. Len(transit) /\ j \in Nat BY <1>1, <1>2, <2>1
      <3>2. k + (j + 1) = (k + 1) + j BY <1>1, <3>1
      <3> QED BY <1>2, <2>1, <3>1, <3>2
    <2> QED BY <1>1, <1>2, <2>1, <2>2
  <1>7. Placed(F, k + 1)' BY <1>5, <1>6 DEF Placed
  <1>8. Handed(F, k + 1)' BY <1>2, <1>3, CarriesWhat DEF Handed
  <1> QED BY <1>4, <1>5, <1>7, <1>8 DEF Reading

LEMMA DeliveredGoesOn ==
  ASSUME RestOK, SlotsInv, OpenGroup, phase = "reading", NEW F, Held(F), NEW k, Reading(F, k),
         NEW line \in Lines, transit # <<>>, line = Head(transit), transit' = Tail(transit),
         DeliverStep(line)
  PROVE  phase' = "reading" /\ Reading(F, Len(hashed))'
  <1>1. Accepts(line) /\ Deliver(line) /\ line \in DataRecords /\ line.kind \in DataKinds
    BY DeliveredAccepted
  <1>2. InPlace(Append(delivered, line), Len(Append(delivered, line)), ContractCarries)
    BY <1>1, AcceptsIsInPlace
  <1>3. /\ phase' = "reading" /\ version' = version /\ ~TooLong(line)
        /\ hashed' = Append(hashed, line) /\ delivered' = Append(delivered, line)
        /\ counts' = [counts EXCEPT ![line.kind] = @ + 1]
    BY <1>1 DEF Deliver, Hash, Take, Count, opened
  <1>4. /\ hashed \in Seq(StreamLines) /\ delivered \in Seq(DataRecords) /\ line \in StreamLines
        /\ counts = Tally(hashed) /\ AreFirst(delivered, F, k) /\ WellGrouped(delivered, ContractCarries)
    BY LineKinds, CarriesWhat DEF RestOK, Reading, Handed
  <1>5. counts' = Tally(hashed') BY <1>1, <1>3, <1>4, TallyAppend
  <1>6. k \in Nat /\ Len(F) \in Nat /\ k + 1 <= Len(F) /\ line = F[k + 1] BY NextInFile
  <1>7. PICK d, c : d = delivered /\ c = ContractCarries OBVIOUS
  <1>8. WellGrouped(Append(d, line), c) BY <1>1, <1>2, <1>4, <1>7, StaysGrouped
  <1>9. AreFirst(Append(d, line), F, k + 1) BY <1>1, <1>4, <1>6, <1>7, FirstOne DEF Held
  <1>10. Readable(line, Carries) BY <1>1, <1>3 DEF Readable, TooLong
  <1> QED BY <1>3, <1>4, <1>5, <1>7, <1>8, <1>9, <1>10, GoesOn

LEMMA SkippedGoesOn ==
  ASSUME RestOK, phase = "reading", NEW F, Held(F), NEW k, Reading(F, k),
         NEW line \in Lines, transit # <<>>, line = Head(transit), transit' = Tail(transit),
         SkipUnknown(line)
  PROVE  phase' = "reading" /\ Reading(F, Len(hashed))'
  <1>1. /\ phase' = "reading" /\ version' = version /\ delivered' = delivered /\ counts' = counts
        /\ line.kind = "unknown" /\ hashed' = Append(hashed, line)
    BY DEF SkipUnknown, Hash, Take, opened
  <1>2. line.kind \notin DataKinds /\ Readable(line, Carries)
    BY <1>1 DEF Readable, DataKinds, PlainKinds
  <1>3. /\ hashed \in Seq(StreamLines) /\ line \in StreamLines
        /\ counts = Tally(hashed) /\ AreFirst(delivered, F, k) /\ WellGrouped(delivered, ContractCarries)
    BY LineKinds, CarriesWhat DEF RestOK, Reading, Handed
  <1>4. counts' = Tally(hashed') BY <1>1, <1>2, <1>3, TallyAppend
  <1>5. k \in Nat /\ line = F[k + 1] BY NextInFile
  <1>6. AreFirst(delivered', F, k + 1) BY <1>1, <1>2, <1>3, <1>5, FirstNoMore
  <1> QED BY <1>1, <1>2, <1>3, <1>4, <1>6, GoesOn

\* A line that ends the reading says whether the file is whole.
LEMMA EndTells ==
  ASSUME ~PersistentCaller, RestOK, SlotsInv, OpenGroup, phase = "reading",
         NEW F, Held(F), NEW k, Reading(F, k),
         NEW line, transit # <<>>, line = Head(transit), ReadNext(line),
         ~DeliverStep(line), ~SkipUnknown(line)
  PROVE  phase' = "stopped" /\ (outcome' = "end" <=> IsWholeArchive(F))
  <1>1. /\ k \in Nat /\ Len(F) \in Nat /\ k + 1 \in 1 .. Len(F) /\ line = F[k + 1] /\ k # Len(F)
        /\ Judged(F, k)
    BY NextInFile DEF Reading
  <1>2. KnownLine(line) BY <1>1 DEF Held
  <1>3. CASE line.kind \notin {"trailer", "header"} /\ ReadLine(line)
    <2>1. line \in Lines BY <1>2, <1>3 DEF KnownLine
    <2>2. CASE RefuseStep(line)
      <3>1. ~Accepts(line) /\ Refuse(line) /\ line \in DataRecords /\ line.kind \in DataKinds
        BY <2>1, <2>2, RefusedNotAccepted
      <3>2. ~InPlace(Append(delivered, line), Len(Append(delivered, line)), ContractCarries)
        BY <3>1, AcceptsIsInPlace
      <3>3. delivered \in Seq(DataRecords) /\ Handed(F, k) BY DEF RestOK, Reading
      <3>4. ~IsWholeArchive(F) BY <1>1, <3>1, <3>2, <3>3, MisplacedSpoils
      <3> QED BY <3>1, <3>4 DEF Refuse, ReturnLast
    <2>3. CASE RefuseLine(line) \/ FailRead(line)
      <3>1. phase' = "stopped" /\ outcome' = "error" BY <2>3 DEF RefuseLine, FailRead, ReturnLast
      <3>2. ~Readable(line, Carries)
        BY <2>3 DEF RefuseLine, FailRead, Readable, TooLong, DataKinds, PlainKinds
      <3>3. ~IsWholeArchive(F) BY <1>1, <1>3, <3>2, UnreadableSpoils
      <3> QED BY <3>1, <3>3
    <2> QED BY <1>3, <2>2, <2>3, ReadSteps
  <1>4. CASE line.kind = "header" /\ RefuseLine([kind |-> "manifest"])
    <2>1. phase' = "stopped" /\ outcome' = "error" BY <1>4 DEF RefuseLine, ReturnLast
    <2>2. ~Readable(line, Carries) BY <1>4 DEF Readable, DataKinds, PlainKinds
    <2>3. ~IsWholeArchive(F) BY <1>1, <1>4, <2>2, UnreadableSpoils
    <2> QED BY <2>1, <2>3
  <1>5. CASE line.kind = "trailer" /\ (AcceptTrailer(line) \/ RefuseTrailer(line))
    <2>1. TrailerMatches(line) <=> IsWholeArchive(F) BY <1>1, <1>5, TrailerTells
    <2> QED BY <1>5, <2>1 DEF AcceptTrailer, RefuseTrailer, ReturnLast
  <1> QED BY <1>3, <1>4, <1>5 DEF ReadNext

LEMMA JudgesOn ==
  ASSUME ~PersistentCaller, IInv, GroupInv, phase = "reading", NEW F, Held(F), Judgement(F),
         IF transit = <<>>
         THEN EndOfStream
         ELSE ReadNext(Head(transit)) /\ transit' = Tail(transit)
  PROVE  Judgement(F)' /\ IInv' /\ GroupInv' /\ phase' \in {"reading", "stopped"}
  <1>1. RestOK /\ SlotsInv /\ OpenGroup BY DEF IInv, GroupInv
  <1>2. PICK k : k = Len(hashed) OBVIOUS
  <1>3. Reading(F, k) BY <1>2 DEF Judgement
  <1>4. CASE transit = <<>>
    <2>1. ~IsWholeArchive(F) BY <1>3, <1>4, NextInFile, UnreadableSpoils DEF Reading
    <2>2. phase' = "stopped" /\ outcome' = "error" BY <1>4 DEF EndOfStream
    <2>3. IInv' /\ GroupInv' BY <1>4, ReaderStep DEF Next, NextRecord
    <2> QED BY <2>1, <2>2, <2>3 DEF Judgement
  <1>5. CASE transit # <<>>
    <2>1. PICK line : line = Head(transit) OBVIOUS
    <2>2. ReadNext(line) /\ transit' = Tail(transit) BY <1>5, <2>1
    <2>3. k + 1 \in 1 .. Len(F) /\ line = F[k + 1] BY <1>3, <1>5, <2>1, NextInFile
    <2>4. KnownLine(line) BY <2>3 DEF Held
    <2>5. IInv' /\ GroupInv' BY <2>2, <2>4, ReadNextStep DEF KnownLine
    <2>6. DeliverStep(line) \/ SkipUnknown(line) => line \in Lines
      <3>1. ASSUME DeliverStep(line) \/ SkipUnknown(line)
            PROVE  line.kind \in DataKinds \union {"unknown"}
        BY <3>1 DEF DeliverStep, AcceptChunk, CompleteOriginal, AcceptSource, ReadPlain,
                    ReadPrimary, AcceptDerivative, IsPrimary, IsDerivative, SkipUnknown, DataKinds
      <3> QED BY <2>4, <3>1 DEF KnownLine, DataKinds, PlainKinds
    <2>7. CASE DeliverStep(line) \/ SkipUnknown(line)
      <3>1. phase' = "reading" /\ Reading(F, Len(hashed))'
        BY <1>1, <1>3, <1>5, <2>1, <2>2, <2>6, <2>7, DeliveredGoesOn, SkippedGoesOn
      <3> QED BY <2>5, <3>1 DEF Judgement
    <2>8. CASE ~DeliverStep(line) /\ ~SkipUnknown(line)
      <3>1. phase' = "stopped" /\ (outcome' = "end" <=> IsWholeArchive(F))
        BY <1>1, <1>3, <1>5, <2>1, <2>2, <2>8, EndTells
      <3> QED BY <2>5, <3>1 DEF Judgement
    <2> QED BY <2>7, <2>8
  <1> QED BY <1>4, <1>5

-------------------------------------------------------------------------------
\* A reader for every file

LEMMA FreshStarts == FreshReader => (IInv /\ GroupInv)'
  <1>1. FreshReader => Init' BY DEF FreshReader, Init
  <1> QED BY <1>1, InitIInv, InitGroup, PTL

LEMMA FreshJudges ==
  ASSUME NEW F, FreshReader, transit' = F
  PROVE  Judgement(F)'
  BY DEF FreshReader, Judgement

LEMMA OpenReads ==
  ASSUME IInv, NEW F, Held(F), Judgement(F), phase = "closed",
         transit # <<>>, Head(transit).kind = "header", Open(Head(transit)), transit' = Tail(transit)
  PROVE  Reading(F, Len(hashed))'
  <1>1. transit = F /\ counts = ZeroCounts /\ delivered = <<>> BY DEF Judgement
  <1>2. F \in Seq(Range(F)) /\ F # <<>> /\ Head(F) = F[1] /\ 1 \in 1 .. Len(F) /\ Len(F) \in Nat
    BY <1>1 DEF Held
  <1>3. /\ hashed' = <<F[1]>> /\ version' = F[1].version /\ counts' = ZeroCounts
        /\ delivered' = <<>> /\ HeaderAccepted(F[1]) /\ F[1].kind = "header" /\ transit' = Tail(F)
    BY <1>1, <1>2 DEF Open
  <1>4. Len(hashed') = 1 /\ \A i \in 1 .. 1 : hashed'[i] = F[i] BY <1>3
  <1>5. /\ Tail(F) \in Seq(Range(F)) /\ Len(Tail(F)) = Len(F) - 1
        /\ \A j \in 1 .. Len(Tail(F)) : Tail(F)[j] = F[1 + j]
    BY <1>2
  <1>6. Judged(F, 1)' BY <1>2, <1>3 DEF Judged
  <1>7. Placed(F, 1)' BY <1>3, <1>4, <1>5 DEF Placed
  <1>8. Handed(F, 1)'
    <2>1. F[1] \in Header /\ F[1].kind \notin DataKinds
      BY <1>2, <1>3 DEF Held, KnownLine, DataKinds, PlainKinds
    <2>2. AreFirst(<<>>, F, 1)
      <3>1. F[0 + 1].kind \notin DataKinds BY <2>1
      <3>2. AreFirst(<<>>, F, 0 + 1) BY <3>1, FirstNone, FirstNoMore
      <3> QED BY <3>2
    <2>3. counts' = Tally(hashed') BY <1>3, <2>1, TallyHeader
    <2>4. WellGrouped(<<>>, Carries') BY DEF WellGrouped
    <2> QED BY <1>3, <2>2, <2>3, <2>4 DEF Handed
  <1> QED BY <1>4, <1>6, <1>7, <1>8 DEF Reading

LEMMA NewJudges ==
  ASSUME ~PersistentCaller, IInv, GroupInv, NEW F, Held(F), Judgement(F), NewReader
  PROVE  Judgement(F)' /\ IInv' /\ GroupInv'
  <1>1. transit = F /\ phase = "closed" BY DEF NewReader, Judgement
  <1>2. F # <<>> => F[1] = Head(F) /\ KnownLine(F[1])
    <2> HAVE F # <<>>
    <2>1. F[1] = Head(F) /\ 1 \in 1 .. Len(F) BY DEF Held
    <2> QED BY <2>1 DEF Held
  <1>3. CASE transit # <<>> /\ Head(transit).kind = "header" /\ Open(Head(transit))
    <2>1. Head(transit) \in Headers BY <1>1, <1>2, <1>3 DEF KnownLine
    <2>2. IInv' /\ GroupInv' BY <1>3, <2>1, ReaderStep DEF Next, New
    <2>3. phase' = "reading" BY <1>3 DEF Open
    <2>4. transit' = Tail(transit) BY <1>3 DEF NewReader
    <2>5. Reading(F, Len(hashed))' BY <1>1, <1>3, <2>4, OpenReads
    <2> QED BY <2>2, <2>3, <2>5 DEF Judgement
  <1>4. CASE transit # <<>> /\ Head(transit).kind = "header" /\ RefuseHeader(Head(transit))
    <2>1. Head(transit) \in Headers BY <1>1, <1>2, <1>4 DEF KnownLine
    <2>2. IInv' /\ GroupInv' BY <1>4, <2>1, ReaderStep DEF Next, New
    <2>3. phase' = "refused" /\ ~HeaderAccepted(F[1]) BY <1>1, <1>2, <1>4 DEF RefuseHeader
    <2>4. ~IsWholeArchive(F) BY <2>3 DEF IsWholeArchive, EndsArchive
    <2> QED BY <2>2, <2>3, <2>4 DEF Judgement
  <1>5. CASE (transit # <<>> => Head(transit).kind # "header") /\ RefuseEmptyStream
    <2>1. IInv' /\ GroupInv' BY <1>5, ReaderStep DEF Next, New
    <2>2. phase' = "refused" BY <1>5 DEF RefuseEmptyStream
    <2>3. ~IsWholeArchive(F)
      <3>1. F # <<>> => F[1].kind # "header" BY <1>1, <1>2, <1>5
      <3>2. F = <<>> => DOMAIN F = {} OBVIOUS
      <3> QED BY <3>1, <3>2 DEF IsWholeArchive, EndsArchive
    <2> QED BY <2>1, <2>2, <2>3 DEF Judgement
  <1> QED BY <1>3, <1>4, <1>5 DEF NewReader

-------------------------------------------------------------------------------
\* The reports of the files so far, and the code that goes with them

LEMMA MaxIs ==
  ASSUME NEW S \in SUBSET Nat, NEW m \in S, \A n \in S : n <= m
  PROVE  Max(S) = m
  <1>1. \E x \in S : \A y \in S : x >= y OBVIOUS
  <1>2. Max(S) \in S /\ \A y \in S : Max(S) >= y BY <1>1 DEF Max
  <1>3. Max(S) \in Nat /\ m \in Nat /\ Max(S) >= m /\ Max(S) <= m BY <1>2
  <1> QED BY <1>3

LEMMA CodesAre ==
  ASSUME NEW path
  PROVE  CodeOf(path) \in {EX_OK, EX_DATAERR, EX_NOINPUT} /\ CodeOf(path) \in Nat
  BY DEF CodeOf, EX_OK, EX_DATAERR, EX_NOINPUT

\* The codes of the first n files.
Codes(n) == {CodeOf(args.paths[i]) : i \in 1 .. n}

Reported(n) ==
  /\ \E S : reports \in Seq(S)
  /\ Len(reports) = n
  /\ \A i \in 1 .. n :
       reports[i].path = args.paths[i] /\ reports[i].code = CodeOf(args.paths[i])
  /\ rc \in {EX_OK} \union Codes(n)
  /\ \A code \in Codes(n) : code <= rc

LEMMA WorseIs ==
  ASSUME rc \in Nat, NEW code \in Nat
  PROVE  Worse(code) \in {rc, code} /\ rc <= Worse(code) /\ code <= Worse(code)
  <1>1. CASE rc <= code
    <2>1. Max({rc, code}) = code BY <1>1, MaxIs
    <2> QED BY <1>1, <2>1 DEF Worse
  <1>2. CASE ~(rc <= code)
    <2>1. Max({rc, code}) = rc BY <1>2, MaxIs
    <2> QED BY <1>2, <2>1 DEF Worse
  <1> QED BY <1>1, <1>2

\* One report more.
LEMMA ReportedOne ==
  ASSUME NEW n \in Nat, Reported(n), NEW report, reports' = Append(reports, report),
         report.path = args.paths[n + 1], report.code = CodeOf(args.paths[n + 1]),
         args' = args, rc' \in {rc, report.code}, rc <= rc', report.code <= rc'
  PROVE  Reported(n + 1)'
  <1>1. PICK S : reports \in Seq(S) BY DEF Reported
  <1>2. PICK s, T : s = reports /\ T = S \union {report} OBVIOUS
  <1>3. s \in Seq(T) /\ report \in T /\ Len(s) = n BY <1>1, <1>2 DEF Reported
  <1>4. PICK t : t = Append(s, report) OBVIOUS
  <1>5. /\ t \in Seq(T) /\ Len(t) = n + 1 /\ t[n + 1] = report
        /\ \A i \in 1 .. n : t[i] = s[i]
    BY <1>3, <1>4
  <1>6. reports' = t BY <1>2, <1>4
  <1>7. \A i \in 1 .. n + 1 : i = n + 1 \/ i \in 1 .. n OBVIOUS
  <1>8. \A i \in 1 .. n + 1 :
          t[i].path = args.paths[i] /\ t[i].code = CodeOf(args.paths[i])
    BY <1>2, <1>5, <1>7 DEF Reported
  <1>9. Codes(n + 1) = Codes(n) \union {CodeOf(args.paths[n + 1])}
    BY <1>7 DEF Codes
  <1>10. rc' \in {EX_OK} \union Codes(n + 1) BY <1>9 DEF Reported
  <1>11. rc \in Nat /\ rc' \in Nat /\ Codes(n) \subseteq Nat
    <2>1. Codes(n) \subseteq Nat /\ Codes(n + 1) \subseteq Nat BY CodesAre DEF Codes
    <2> QED BY <1>10, <2>1 DEF Reported, EX_OK
  <1>12. \A code \in Codes(n + 1) : code <= rc'
    <2>1. \A code \in Codes(n) : code <= rc /\ code \in Nat BY <1>11 DEF Reported
    <2> QED BY <1>9, <1>11, <2>1
  <1>13. Codes(n + 1)' = Codes(n + 1) BY DEF Codes
  <1> QED BY <1>5, <1>6, <1>8, <1>10, <1>12, <1>13 DEF Reported

\* All of them.
ReportedAll == args \in CommandLines /\ Len(args.paths) # 0 /\ Reported(Len(args.paths))

AsPromised ==
  /\ Len(reports) = Len(args.paths)
  /\ \A i \in DOMAIN reports :
       reports[i].path = args.paths[i] /\ reports[i].code = CodeOf(args.paths[i])
  /\ rc = Max({CodeOf(args.paths[i]) : i \in DOMAIN args.paths})

LEMMA AllReported == ReportedAll => AsPromised
  <1> SUFFICES ASSUME ReportedAll PROVE AsPromised OBVIOUS
  <1>0. args \in CommandLines /\ Len(args.paths) # 0 /\ Reported(Len(args.paths))
    BY DEF ReportedAll
  <1>1. PICK n, p : n = Len(args.paths) /\ p = args.paths OBVIOUS
  <1>2. p \in Seq(DOMAIN Contents) BY <1>0, <1>1, FilesAssumption
  <1>3. n \in Nat /\ DOMAIN p = 1 .. n /\ 1 \in 1 .. n BY <1>0, <1>1, <1>2
  <1>4. DOMAIN reports = 1 .. n BY <1>0, <1>1 DEF Reported
  <1>5. {CodeOf(p[i]) : i \in DOMAIN p} = Codes(n) BY <1>1, <1>3 DEF Codes
  <1>6. Codes(n) \subseteq Nat /\ CodeOf(p[1]) \in Codes(n) BY <1>1, <1>3, CodesAre DEF Codes
  <1>7. rc \in Codes(n)
    <2>1. CASE rc = EX_OK
      <3>1. CodeOf(p[1]) <= 0 BY <1>0, <1>1, <1>3, <1>6, <2>1 DEF Reported, EX_OK
      <3>2. CodeOf(p[1]) = 0 BY <1>6, <3>1
      <3> QED BY <1>6, <2>1, <3>2 DEF EX_OK
    <2> QED BY <1>0, <1>1, <2>1 DEF Reported
  <1>8. \A code \in Codes(n) : code <= rc BY <1>0, <1>1 DEF Reported
  <1>9. rc = Max(Codes(n)) BY <1>6, <1>7, <1>8, MaxIs
  <1> QED BY <1>0, <1>1, <1>4, <1>5, <1>9 DEF Reported, AsPromised

-------------------------------------------------------------------------------
\* The invariant

FileJudged == \E F : F = Contents[Path] /\ F # None /\ Held(F) /\ Judgement(F)

CommandInv ==
  /\ args \in CommandLines
  /\ step \in {"main", "open", "read", "exited"}
  /\ step = "main" => reports = <<>> /\ rc = EX_OK
  /\ step \in {"open", "read"} =>
       Understood /\ file \in 1 .. Len(args.paths) /\ Reported(file - 1)
  /\ step = "read" => FileJudged
  /\ ExitIsMostSevere

InvCommand == IInv /\ GroupInv /\ CommandInv

LEMMA PathIs ==
  ASSUME CommandInv, step \in {"open", "read"}
  PROVE  /\ Path \in DOMAIN Contents
         /\ Len(args.paths) \in Nat /\ Len(args.paths) # 0
         /\ file \in Nat /\ 1 <= file /\ file <= Len(args.paths) /\ file - 1 \in Nat
  <1>1. PICK p : p = args.paths OBVIOUS
  <1>2. p \in Seq(DOMAIN Contents) BY <1>1, FilesAssumption DEF CommandInv
  <1>3. file \in 1 .. Len(p) BY <1>1 DEF CommandInv
  <1> QED BY <1>1, <1>2, <1>3 DEF Path

\* A file is reported, and the next one is opened or the program exits.
LEMMA NextFile ==
  ASSUME CommandInv, step \in {"open", "read"}, NEW report, Report(report),
         report.path = Path, report.code = CodeOf(Path), args' = args,
         rc' \in {rc, report.code}, rc <= rc', report.code <= rc'
  PROVE  CommandInv'
  <1>1. PICK n, total : n = file - 1 /\ total = Len(args.paths) OBVIOUS
  <1>2. /\ n \in Nat /\ total \in Nat /\ total # 0
        /\ file = n + 1 /\ n + 1 <= total
    BY <1>1, PathIs
  <1>3. Reported(n) BY <1>1 DEF CommandInv
  <1>4. Path = args.paths[n + 1] BY <1>2 DEF Path
  <1>5. Reported(n + 1)' BY <1>2, <1>3, <1>4, ReportedOne DEF Report
  <1>6. args \in CommandLines /\ Understood /\ Understood' BY DEF CommandInv, Understood
  <1>7. CASE n + 1 < total
    <2>1. step' = "open" /\ file' = n + 2 BY <1>1, <1>2, <1>7 DEF Report
    <2>2. file' - 1 = n + 1 /\ file' \in 1 .. total BY <1>2, <1>7, <2>1
    <2>3. Reported(file - 1)' BY <1>5, <2>2 DEF Reported, Codes
    <2> QED BY <1>1, <1>6, <2>1, <2>2, <2>3 DEF CommandInv, ExitIsMostSevere
  <1>8. CASE ~(n + 1 < total)
    <2>1. step' = "exited" /\ n + 1 = total BY <1>1, <1>2, <1>8 DEF Report
    <2>2. Reported(Len(args.paths))' BY <1>1, <1>5, <2>1 DEF Reported, Codes
    <2>3. ReportedAll' BY <1>1, <1>2, <1>6, <2>2 DEF ReportedAll
    <2>4. AsPromised' BY <2>3, AllReported, PTL
    <2>5. ExitIsMostSevere' BY <1>6, <2>4 DEF ExitIsMostSevere, AsPromised
    <2> QED BY <1>6, <2>1, <2>5 DEF CommandInv
  <1> QED BY <1>7, <1>8

LEMMA CannotGoOn ==
  ASSUME CommandInv, step \in {"open", "read"}, args' = args, NEW code, Fail(code),
         code = CodeOf(Path)
  PROVE  CommandInv'
  <1>1. PICK report : report = [path |-> Path, code |-> code, line |-> lineNo] OBVIOUS
  <1>2. Report(report) /\ report.path = Path /\ report.code = code /\ rc' = Worse(code)
    BY <1>1 DEF Fail
  <1>3. code \in Nat BY CodesAre
  <1>4. rc \in Nat
    <2>1. Reported(file - 1) BY DEF CommandInv
    <2>2. Codes(file - 1) \subseteq Nat BY CodesAre DEF Codes
    <2> QED BY <2>1, <2>2 DEF Reported, EX_OK
  <1>5. Worse(code) \in {rc, code} /\ rc <= Worse(code) /\ code <= Worse(code)
    BY <1>3, <1>4, WorseIs
  <1> QED BY <1>2, <1>5, NextFile

\* The file is read on.
LEMMA ReadsOn ==
  ASSUME CommandInv, step = "read", NEW F, F = Contents[Path], F # None, Held(F), Judgement(F)',
         UNCHANGED <<args, step, file, reports, rc>>
  PROVE  CommandInv'
  <1>1. Path' = Path BY DEF Path
  <1>2. FileJudged' BY <1>1 DEF FileJudged
  <1>3. Reported(file - 1) /\ file' = file BY DEF CommandInv
  <1>4. Reported(file - 1)' BY <1>3 DEF Reported, Codes
  <1> QED BY <1>2, <1>4 DEF CommandInv, ExitIsMostSevere, Understood

LEMMA JudgedStays ==
  ASSUME FileJudged, UNCHANGED <<vars, args, file, transit>>
  PROVE  FileJudged'
  <1>1. PICK F : F = Contents[Path] /\ F # None /\ Held(F) /\ Judgement(F) BY DEF FileJudged
  <1>2. Path' = Path BY DEF Path
  <1>3. Judgement(F)'
    BY <1>1 DEF vars, Judgement, Reading, Judged, Placed, Handed, Carries
  <1> QED BY <1>1, <1>2, <1>3 DEF FileJudged

-------------------------------------------------------------------------------
\* The steps

LEMMA InitCommandInv == InitCommand => InvCommand
  <1> SUFFICES ASSUME InitCommand PROVE InvCommand OBVIOUS
  <1>1. IInv /\ GroupInv BY InitIInv, InitGroup DEF InitCommand
  <1>2. CommandInv BY DEF InitCommand, CommandInv, ExitIsMostSevere
  <1> QED BY <1>1, <1>2 DEF InvCommand

LEMMA NextCommandInv ==
  ASSUME ~PersistentCaller, InvCommand, [NextCommand]_allVars
  PROVE  InvCommand'
  <1>1. IInv /\ GroupInv /\ CommandInv BY DEF InvCommand
  <1>2. ASSUME UNCHANGED vars PROVE IInv' /\ GroupInv' BY <1>1, <1>2, ReaderStep
  <1>3. CASE UNCHANGED allVars
    <2>1. UNCHANGED <<vars, args, step, file, transit, reports, rc>>
      BY <1>3 DEF allVars, cliVars
    <2>2. step = "read" => FileJudged' BY <1>1, <2>1, JudgedStays DEF CommandInv
    <2>3. CommandInv'
      BY <1>1, <2>1, <2>2 DEF CommandInv, ExitIsMostSevere, Understood, Reported, Codes
    <2> QED BY <1>2, <2>1, <2>3 DEF InvCommand
  <1>4. CASE Usage
    <2>1. CommandInv'
      BY <1>1, <1>4 DEF Usage, CommandInv, ExitIsMostSevere, Understood
    <2> QED BY <1>2, <1>4, <2>1 DEF Usage, InvCommand
  <1>5. CASE Start
    <2>1. /\ step' = "open" /\ file' = 1 /\ Understood
          /\ args' = args /\ reports' = <<>> /\ rc' = EX_OK /\ args \in CommandLines
      BY <1>1, <1>5 DEF Start, CommandInv
    <2>2. PICK p : p = args.paths OBVIOUS
    <2>3. 1 \in 1 .. Len(args.paths)
      <3>1. p \in Seq(DOMAIN Contents) BY <2>1, <2>2, FilesAssumption
      <3>2. Len(p) >= 1 \/ Len(p) = 1 BY <2>1, <2>2 DEF Understood
      <3>3. Len(p) \in Nat BY <3>1
      <3> QED BY <2>2, <3>2, <3>3
    <2>4. Reported(file - 1)'
      <3>1. file' - 1 = 0 BY <2>1
      <3>2. <<>> \in Seq({}) /\ Len(<<>>) = 0 /\ 1 .. 0 = {} OBVIOUS
      <3> QED BY <2>1, <3>1, <3>2 DEF Reported, Codes
    <2>5. CommandInv' BY <2>1, <2>3, <2>4 DEF CommandInv, ExitIsMostSevere, Understood
    <2> QED BY <1>2, <1>5, <2>5 DEF Start, InvCommand
  <1>6. CASE OpenFile
    <2>1. Path \in DOMAIN Contents /\ Contents[Path] # None
      BY <1>1, <1>6, PathIs DEF OpenFile
    <2>2. PICK F : F = Contents[Path] OBVIOUS
    <2>3. Held(F) BY <2>1, <2>2, FileIsHeld
    <2>4. Judgement(F)' BY <1>6, <2>2, FreshJudges DEF OpenFile
    <2>5. Path' = Path BY <1>6 DEF OpenFile, Path
    <2>6. FileJudged' BY <2>1, <2>2, <2>3, <2>4, <2>5 DEF FileJudged
    <2>7. CommandInv'
      BY <1>1, <1>6, <2>6
      DEF OpenFile, CommandInv, ExitIsMostSevere, Understood, Reported, Codes
    <2>8. IInv' /\ GroupInv' BY <1>6, FreshStarts DEF OpenFile
    <2> QED BY <2>7, <2>8 DEF InvCommand
  <1>7. CASE CannotOpen
    <2>1. CodeOf(Path) = EX_NOINPUT BY <1>7 DEF CannotOpen, CodeOf
    <2>2. CommandInv' BY <1>1, <1>7, <2>1, CannotGoOn DEF CannotOpen
    <2> QED BY <1>2, <1>7, <2>2 DEF CannotOpen, InvCommand
  <1>8. CASE NewReader
    <2>1. PICK F : F = Contents[Path] /\ F # None /\ Held(F) /\ Judgement(F)
      BY <1>1, <1>8 DEF NewReader, CommandInv, FileJudged
    <2>2. Judgement(F)' /\ IInv' /\ GroupInv' BY <1>1, <1>8, <2>1, NewJudges
    <2>3. CommandInv' BY <1>1, <1>8, <2>1, <2>2, ReadsOn DEF NewReader
    <2> QED BY <2>2, <2>3 DEF InvCommand
  <1>9. CASE ReadOn
    <2>1. PICK F : F = Contents[Path] /\ F # None /\ Held(F) /\ Judgement(F)
      BY <1>1, <1>9 DEF ReadOn, CommandInv, FileJudged
    <2>2. /\ phase = "reading"
          /\ IF transit = <<>>
             THEN EndOfStream
             ELSE ReadNext(Head(transit)) /\ transit' = Tail(transit)
      BY <1>9 DEF ReadOn
    <2>3. Judgement(F)' /\ IInv' /\ GroupInv' BY <1>1, <2>1, <2>2, JudgesOn
    <2>4. CommandInv' BY <1>1, <1>9, <2>1, <2>3, ReadsOn DEF ReadOn
    <2> QED BY <2>3, <2>4 DEF InvCommand
  <1>10. CASE ReportGood
    <2>1. PICK F : F = Contents[Path] /\ F # None /\ Judgement(F)
      BY <1>1, <1>10 DEF ReportGood, CommandInv, FileJudged
    <2>2. CodeOf(Path) = EX_OK BY <1>10, <2>1 DEF ReportGood, Judgement, CodeOf
    <2>3. PICK report :
            /\ report.path = Path /\ report.code = EX_OK
            /\ Report(report)
      BY <1>10 DEF ReportGood
    <2>4. args' = args /\ rc' = rc /\ step \in {"open", "read"} BY <1>10 DEF ReportGood
    <2>5. rc <= rc' /\ EX_OK <= rc'
      <3>1. Reported(file - 1) BY <1>1, <2>4 DEF CommandInv
      <3>2. Codes(file - 1) \subseteq Nat BY CodesAre DEF Codes
      <3>3. rc \in Nat BY <3>1, <3>2 DEF Reported, EX_OK
      <3> QED BY <2>4, <3>3 DEF EX_OK
    <2>6. CommandInv' BY <1>1, <2>2, <2>3, <2>4, <2>5, NextFile
    <2> QED BY <1>2, <1>10, <2>6 DEF ReportGood, InvCommand
  <1>11. CASE ReportBad
    <2>1. PICK F : F = Contents[Path] /\ F # None /\ Judgement(F)
      BY <1>1, <1>11 DEF ReportBad, CommandInv, FileJudged
    <2>2. ~IsWholeArchive(F) BY <1>11, <2>1 DEF ReportBad, Judgement
    <2>3. CodeOf(Path) = EX_DATAERR BY <2>1, <2>2 DEF CodeOf
    <2>4. CommandInv' BY <1>1, <1>11, <2>3, CannotGoOn DEF ReportBad
    <2> QED BY <1>2, <1>11, <2>4 DEF ReportBad, InvCommand
  <1>12. CASE Exited BY <1>3, <1>12 DEF Exited
  <1> QED
    BY <1>3, <1>4, <1>5, <1>6, <1>7, <1>8, <1>9, <1>10, <1>11, <1>12 DEF NextCommand

\* For any files, whatever lines they hold, and for any arguments: a run that was
\* understood reports every file, in order and each as if it were alone, and exits
\* with the most severe code of them all; one that was not opens no file and exits
\* with EX_USAGE.  The program stops reading a file at its first error.
\* (main.rs: main, validate_cmd, read_all.)
THEOREM ExitAlways == ~PersistentCaller => (CommandSpec => []ExitIsMostSevere)
  <1> SUFFICES ASSUME ~PersistentCaller PROVE CommandSpec => []ExitIsMostSevere OBVIOUS
  <1>1. InvCommand /\ [NextCommand]_allVars => InvCommand' BY NextCommandInv
  <1>2. InvCommand => ExitIsMostSevere BY DEF InvCommand, CommandInv
  <1> QED BY <1>1, <1>2, InitCommandInv, PTL DEF CommandSpec
===============================================================================
