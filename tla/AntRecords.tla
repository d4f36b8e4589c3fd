------------------------------ MODULE AntRecords ------------------------------
(***************************************************************************)
(* The lines of a `.ant` stream: the manifest, the data records, the       *)
(* trailer, and the lines a reader cannot decode.                          *)
(*                                                                         *)
(* Only the fields that the container rules read are kept.  A SHA-256      *)
(* digest is modelled as a collision-free function of what it digests, the *)
(* content itself: two digests are equal exactly when the bytes are.       *)
(* Reference ids and job ids are ordered strings in the code; here they    *)
(* are positive naturals, of which only the order matters.                 *)
(***************************************************************************)
EXTENDS Naturals, Sequences, FiniteSets

CONSTANTS
  None,         \* Rust's Option::None
  EvidenceIds,  \* ids of Evidence records
  AssetIds,     \* ids of stored originals
  Bytes,        \* the bytes an original is made of
  Texts         \* the `content` of Evidence records

\* FORMAT_MAJOR / FORMAT_MINOR and ORIGINALS_FORMAT_MAJOR / _MINOR.
FormatMajor == 0
FormatMinor == 7
OriginalsMajor == 1
OriginalsMinor == 0

PlainKinds ==
  {"schema_type", "vertex", "edge", "observation", "belief", "vector",
   "vertex_tombstone", "edge_tombstone", "contradiction_case",
   "relationship_proposal", "ontology_revision"}

\* The kinds the trailer counts, DATA_KIND_COUNT_KEYS.
DataKinds == PlainKinds \union {"evidence", "original_chunk", "original_source"}

Counts == [DataKinds -> Nat]
ZeroCounts == [k \in DataKinds |-> 0]

Digest(content) == content

-------------------------------------------------------------------------------

\* SourceBlob.  `wellFormed` is the outcome of SourceBlob::validate.
SourceBlob ==
  [assetId : AssetIds, byteLength : Nat, sha256 : Seq(Bytes),
   wellFormed : BOOLEAN]

\* Derivation: the binding to the primary's original, the slot
\* (jobId, segment.index), and the text it names.
Derivation ==
  [primary : EvidenceIds, assetId : AssetIds, byteLength : Nat,
   sha256 : Seq(Bytes), jobId : Nat \ {0}, index : Nat, text : Texts,
   wellFormed : BOOLEAN]

Evidence ==
  [kind : {"evidence"}, id : EvidenceIds, content : Texts,
   blob : SourceBlob \union {None}, derivation : Derivation \union {None}]

\* OriginalChunk.  `decodes` is whether OriginalChunk::decode accepts `bytes`;
\* `raw` is what it then returns.
OriginalChunk ==
  [kind : {"original_chunk"}, evidenceId : EvidenceIds, assetId : AssetIds,
   index : Nat, byteOffset : Nat, decodes : BOOLEAN, raw : Seq(Bytes),
   sha256 : Seq(Bytes)]

OriginalSource ==
  [kind : {"original_source"}, evidenceId : EvidenceIds, assetId : AssetIds,
   byteLength : Nat, sha256 : Seq(Bytes), referenceId : Nat \ {0},
   wellFormed : BOOLEAN]

\* A record the original rules do not look into.  `oversized` is whether its
\* line is longer than V1_DATA_LINE_MAX_BYTES.
PlainRecord == [kind : PlainKinds, oversized : BOOLEAN]

DataRecords == Evidence \union OriginalChunk \union OriginalSource \union PlainRecord

\* What decode_line refuses, or the transport does not deliver: a record of a
\* kind this build does not know, a line that is not a record, a second
\* manifest, a failed read.
OtherLines == [kind : {"unknown", "malformed", "manifest", "io_error"}]

-------------------------------------------------------------------------------

\* The first line.  `length` is its length and `decoded` the bound
\* decoded_json_bytes_bound gives for it; `record` is what it decodes to;
\* `version` is FormatVersion::parse of manifest.version.
FormatVersion == [major : Nat, minor : Nat]

Header ==
  [kind : {"header"}, length : Nat, decoded : Nat, record : {"malformed", "data", "manifest"},
   antares : BOOLEAN, version : FormatVersion \union {None}]

ReadableByCurrent(v) == v.major = FormatMajor \/ v.major = OriginalsMajor

CarriesOriginals(v) == v.major >= OriginalsMajor

KnownMinor(v) == IF v.major = OriginalsMajor THEN OriginalsMinor ELSE FormatMinor

\* A trailer, as the digest of the lines after it sees it: what it says is a
\* function of the lines before it.
TrailerLine == [kind |-> "trailer"]

StreamLines == Header \union DataRecords \union OtherLines \union {TrailerLine}

\* How many records of each kind there are, as a trailer counts them.
Tally(lines) ==
  [k \in DataKinds |-> Cardinality({i \in DOMAIN lines : lines[i].kind = k})]

-------------------------------------------------------------------------------

\* SourceReference::binds and Derivation::binds: `claim` names exactly the
\* original `blob` of the Evidence `named`.
BindsBlob(claim, blob) ==
  /\ claim.assetId = blob.assetId
  /\ claim.sha256 = blob.sha256
  /\ claim.byteLength = blob.byteLength

SourceBinds(source, evidenceId, blob) ==
  source.evidenceId = evidenceId /\ BindsBlob(source, blob)

DerivationBinds(derivation, evidenceId, blob) ==
  derivation.primary = evidenceId /\ BindsBlob(derivation, blob)

\* The order of the slots (jobId, segment.index) of derivatives.
Slot == (Nat \ {0}) \X Nat
SlotOf(derivation) == <<derivation.jobId, derivation.index>>
SlotLess(a, b) == a[1] < b[1] \/ (a[1] = b[1] /\ a[2] < b[2])

IsDerivative(r) == r.kind = "evidence" /\ r.derivation # None
IsPrimary(r) == r.kind = "evidence" /\ r.derivation = None /\ r.blob # None
===============================================================================
