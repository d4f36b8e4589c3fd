----------------------------- MODULE OriginalGroups -----------------------------
(***************************************************************************)
(* The order and the contents a sequence of data records must have in a    *)
(* stream, said of the whole sequence and without any reader state: every  *)
(* chunk, source reference and derivative belongs to the group of the last *)
(* record before it that is none of these; that record is the primary      *)
(* Evidence, and its group is its chunks, which are exactly its original,  *)
(* then its source references in id order, then its derivatives in slot    *)
(* order.  A 0.x stream has no groups.                                     *)
(***************************************************************************)
EXTENDS AntRecords

IsChunk(r) == r.kind = "original_chunk"
IsSource(r) == r.kind = "original_source"
IsFollower(r) == IsChunk(r) \/ IsSource(r) \/ IsDerivative(r)

\* The place of a follower in its group.
Rank(r) == IF IsChunk(r) THEN 1 ELSE IF IsSource(r) THEN 2 ELSE 3

\* j is where the group that i belongs to starts.
IsHeadOf(s, j, i) ==
  /\ ~IsFollower(s[j])
  /\ \A k \in (j + 1) .. (i - 1) : IsFollower(s[k])

\* Chunk i of the group of head h, of which there are only chunks so far.
ChunkInPlace(s, h, i) ==
  LET r == s[i]
      first == Len(s[h + 1].raw)
      end == r.byteOffset + Len(r.raw)
      blob == s[h].blob
  IN /\ \A k \in (h + 1) .. i : IsChunk(s[k])
     /\ r.evidenceId = s[h].id
     /\ r.assetId = blob.assetId
     /\ r.index = i - h - 1
     /\ r.byteOffset = (i - h - 1) * first
     /\ r.decodes
     /\ r.raw # <<>>
     /\ r.sha256 = Digest(r.raw)
     /\ Len(r.raw) <= first
     /\ end <= blob.byteLength
     /\ Len(r.raw) < first => end = blob.byteLength
     /\ end = blob.byteLength =>
          blob.sha256 = Digest([p \in 1 .. end |->
            s[h + 1 + ((p - 1) \div first)].raw[((p - 1) % first) + 1]])

SourceInPlace(s, h, i) ==
  /\ s[i].wellFormed
  /\ SourceBinds(s[i], s[h].id, s[h].blob)
  /\ \A j \in (h + 1) .. (i - 1) : IsSource(s[j]) => s[j].referenceId < s[i].referenceId

DerivativeInPlace(s, h, i) ==
  LET d == s[i].derivation
  IN /\ s[i].blob = None
     /\ d.wellFormed
     /\ d.text = s[i].content
     /\ DerivationBinds(d, s[h].id, s[h].blob)
     /\ \A j \in (h + 1) .. (i - 1) :
          IsDerivative(s[j]) => SlotLess(SlotOf(s[j].derivation), SlotOf(d))

FollowerInPlace(s, h, i) ==
  /\ IsPrimary(s[h])
  /\ i - 1 > h => Rank(s[i - 1]) <= Rank(s[i])
  /\ IsChunk(s[i]) => ChunkInPlace(s, h, i)
  /\ IsSource(s[i]) => SourceInPlace(s, h, i)
  /\ IsDerivative(s[i]) => DerivativeInPlace(s, h, i)

PrimaryInPlace(r) ==
  /\ r.blob.wellFormed
  /\ r.blob.byteLength = 0 => r.blob.sha256 = Digest(<<>>)

\* The first i records of s end in an original some bytes of which are missing.
EndsInOriginal(s, i) ==
  \E h \in 1 .. i :
    /\ IsPrimary(s[h])
    /\ \A k \in (h + 1) .. i : IsChunk(s[k])
    /\ s[h].blob.byteLength #
         (IF i = h THEN 0 ELSE s[i].byteOffset + Len(s[i].raw))

\* Record i may stand where it does after the records before it.
InPlace(s, i, carries) ==
  /\ IsFollower(s[i]) =>
       \E h \in 1 .. (i - 1) : IsHeadOf(s, h, i) /\ FollowerInPlace(s, h, i)
  /\ IsPrimary(s[i]) => PrimaryInPlace(s[i])
  /\ ~IsChunk(s[i]) => ~EndsInOriginal(s, i - 1)
  /\ IsFollower(s[i]) \/ IsPrimary(s[i]) => carries

WellGrouped(s, carries) == \A i \in DOMAIN s : InPlace(s, i, carries)

\* No original is cut short by the end of the records.
Complete(s) == ~EndsInOriginal(s, Len(s))

-------------------------------------------------------------------------------
\* The data records among the lines of a stream

\* How many of the first n lines are records of a known kind.
KnownUpTo(lines, n) == Cardinality({i \in 1 .. n : lines[i].kind \in DataKinds})

\* Where among `lines` the k-th record of a known kind stands.
KnownPlaceOf(lines, k) ==
  CHOOSE i \in DOMAIN lines : lines[i].kind \in DataKinds /\ KnownUpTo(lines, i) = k

\* The records a reader of this build hands out.
Known(lines) ==
  [k \in 1 .. KnownUpTo(lines, Len(lines)) |-> lines[KnownPlaceOf(lines, k)]]
===============================================================================
