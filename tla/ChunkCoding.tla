------------------------------ MODULE ChunkCoding ------------------------------
(***************************************************************************)
(* The length of a chunk of an original in base64, and the guard that      *)
(* looks at that length before the chunk is decoded.                       *)
(***************************************************************************)
EXTENDS Integers

CONSTANT ChunkMaxBytes    \* ORIGINAL_CHUNK_MAX_BYTES

ASSUME ChunkCodingAssumption == ChunkMaxBytes \in Nat \ {0}

VARIABLE chunkLength      \* the length of a chunk, in bytes

\* Whole groups of three bytes, the last one padded.
Encoded(length) == 4 * ((length + 2) \div 3)

\* Mutant of DecodeAdmits: without the slack.
DecodeAdmitsNoSlack(encoded) == (encoded \div 4) * 3 <= ChunkMaxBytes

DecodeAdmits(encoded) == (encoded \div 4) * 3 <= ChunkMaxBytes + 3

\* What a chunk may be is decoded.
LegitimateAdmitted(length) == length <= ChunkMaxBytes => DecodeAdmits(Encoded(length))

\* What is longer by a whole group of base64 is not.
OversizeRefused(length) == length > ChunkMaxBytes + 3 => ~DecodeAdmits(Encoded(length))

InitChunk == chunkLength = 0

\* Chunks beyond twice the maximum are not looked at.
Lengthen ==
  /\ chunkLength < 2 * ChunkMaxBytes
  /\ chunkLength' = chunkLength + 1

ChunkSpec == InitChunk /\ [][Lengthen]_chunkLength

\* A chunk is admitted for decoding if it is not longer than a chunk may be,
\* and not if it is longer by a whole group of base64 (OriginalChunk::decode).
GuardAdmitsLegitimate == LegitimateAdmitted(chunkLength) /\ OversizeRefused(chunkLength)
===============================================================================
