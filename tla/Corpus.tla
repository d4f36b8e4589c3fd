-------------------------------- MODULE Corpus --------------------------------
(***************************************************************************)
(* The conformance corpus: the archives gen_conformance writes, and what   *)
(* it says every reader must make of them (expected.json and               *)
(* expected_negatives.json).                                               *)
(*                                                                         *)
(* Of a record that the container rules do not look into only its kind is  *)
(* kept.  The stored original is five bytes in chunks of two for 150 in    *)
(* chunks of 64: two whole chunks and a shorter last one.  The slots past  *)
(* 2^53 keep their order.                                                  *)
(***************************************************************************)
EXTENDS AntRecords, OriginalShapes, SequencesExt

Plain(kind) == [kind |-> kind, oversized |-> FALSE]

Note(id, content) ==
  [kind |-> "evidence", id |-> id, content |-> content, blob |-> None, derivation |-> None]

manifest(version) ==
  [kind |-> "header", length |-> 1, decoded |-> 1, record |-> "manifest",
   antares |-> TRUE, version |-> version]

V0 == [major |-> FormatMajor, minor |-> FormatMinor]
V1 == [major |-> OriginalsMajor, minor |-> OriginalsMinor]

\* What AntWriter's finish writes after these lines, or a golden put together
\* by hand.
Trailed(lines) ==
  Append(lines, [kind |-> "trailer", sha256 |-> Digest(lines), counts |-> Tally(lines)])

Archive(version, records) == Trailed(<<manifest(version)>> \o records)

PlainArchive(kinds) == Archive(V0, [i \in DOMAIN kinds |-> Plain(kinds[i])])

-------------------------------------------------------------------------------
\* The archives of a 0.x version

ev_1 == Note("ev_1", "we moved the deal")

basic ==
  Archive(V0, <<Plain("vertex"), Plain("vertex"), Plain("edge"), Plain("observation"),
                ev_1, Plain("belief"), Plain("vector")>>)

unknown_time == PlainArchive(<<"observation", "observation">>)

\* `hologram`, a kind this build does not know, is hashed and not counted.
forward_compat == Archive(V0, <<Plain("vertex"), [kind |-> "unknown"]>>)

tombstones == PlainArchive(<<"vertex", "edge", "vertex_tombstone", "edge_tombstone">>)

major_version == Archive([major |-> 2, minor |-> 0], <<Plain("vertex")>>)

Times(n, r) == [i \in 1 .. n |-> r]

contradiction_cases ==
  Archive(V0, Times(2, Plain("vertex")) \o Times(8, ev_1) \o Times(4, Plain("observation"))
                \o Times(1, Plain("belief")) \o Times(4, Plain("contradiction_case")))

relationship_proposals ==
  Archive(V0, Times(5, ev_1) \o Times(3, Plain("relationship_proposal")))

ontology_revisions == Archive(V0, <<ev_1, Plain("ontology_revision")>>)

-------------------------------------------------------------------------------
\* What the records about the original of `b` are made of

original_bytes == <<3, 10, 17, 24, 31>>
ORIGINAL_CHUNK == 2
OtherBytes == <<0>>

\* The bytes with the first of the second chunk altered.
AlteredBytes == [original_bytes EXCEPT ![ORIGINAL_CHUNK + 1] = 0]

Sha == Str(64, HexChars)
Uppercase == Str(64, IdChars)
Short == Str(5, IdChars)
AssetText == Str(19, IdChars)
EvText == Str(11, IdChars)
WithControl == Str(12, AnyChars)

\* A JSON object nesting exactly `levels` objects, {"d":0} the innermost.
nested(levels) == Opaque(6 * levels + 1, levels)

\* {"key":"xx..."}, and {"a":[..]} of n numbers of one width.
Padded(key, n) == Opaque(key + n + 7, 1)
Numbers(n, width) == Opaque(n * (width + 1) + 7, 2)
AList == [object |-> FALSE, length |-> 3, depth |-> 1]

coverage_exact == Opaque(330, 2)

BlobFields(b) ==
  [assetId |-> IF b = "BlobAssetId" THEN Short ELSE AssetText,
   sha256 |-> IF b = "BlobSha" THEN Uppercase ELSE Sha,
   mediaType |-> IF b = "BlobMediaType" THEN Str(24, TextChars) ELSE Str(15, PrintableChars),
   fileName |-> IF b = "BlobFileName" THEN Str(11, AnyChars) ELSE Str(15, PrintableChars)]

\* Of the first source reference.
SourceOf(b) ==
  CASE b = "SourceExact" -> coverage_exact
    [] b = "RefSourceType" -> AList
    [] b = "RefSourceSize" -> Padded(1, 17000)
    [] b = "SourceDepthLimit" -> nested(SourceMaxDepth)
    [] b = "RefSourceDepth" -> nested(SourceMaxDepth + 1)
    [] OTHER -> Opaque(39, 1)

ReferenceFields(b) ==
  [referenceId |-> IF b = "RefId" THEN Str(14, PrintableChars) ELSE Str(14, IdChars),
   source |-> SourceOf(b),
   evidenceId |-> IF b = "RefEvidenceControl" THEN WithControl ELSE EvText,
   assetId |-> IF b = "RefAssetId" THEN Short ELSE AssetText,
   sha256 |-> Sha]

\* Of the first derivative.
CoverageOf(b) ==
  CASE b = "CoverageExact" -> coverage_exact
    [] b = "CoverageFloatsUnder" -> Numbers(1500, 4)
    [] b = "CoverageFloatsOver" -> Numbers(2500, 3)
    [] b = "DerivCoverageType" -> AList
    [] b = "DerivCoverageSize" -> Padded(5, 9000)
    [] b = "CoverageDepthLimit" -> nested(CoverageMaxDepth)
    [] b = "DerivCoverageDepth" -> nested(CoverageMaxDepth + 1)
    [] OTHER -> Numbers(1, 5)

DerivationFields(b) ==
  [contract |-> IF b = "DerivContract" THEN "antares.other-text/v1"
                ELSE "antares.normalized-text/v1",
   primary |-> IF b = "DerivPrimaryControl" THEN WithControl ELSE EvText,
   assetId |-> IF b = "DerivAssetId" THEN Short ELSE AssetText,
   sha256 |-> IF b = "DerivSha" THEN Uppercase ELSE Sha,
   name |-> IF b = "DerivNormalizer" THEN Str(17, PrintableChars) ELSE Str(17, IdChars),
   version |-> Str(26, IdChars),
   configuration |-> IF b = "DerivConfiguration" THEN Uppercase ELSE Sha,
   jobId |-> IF b = "DerivJobId" THEN Str(20, PrintableChars) ELSE Str(25, IdChars),
   locator |-> IF b = "DerivLocator" THEN Str(LocatorMaxBytes + 1, IdChars)
               ELSE Str(19, TokenChars),
   coverage |-> CoverageOf(b),
   textSha256 |-> IF b = "DerivTextSha" THEN Uppercase ELSE Sha]

\* The structural rules that the records of `b` break.
Flaws(b) ==
  Problems(BlobRules(BlobFields(b))) \union Problems(ReferenceRules(ReferenceFields(b)))
    \union Problems(DerivationRules(DerivationFields(b)))

-------------------------------------------------------------------------------
\* The records of originals(b)

SourceBlobOf(asset, raw, wellFormed) ==
  [assetId |-> asset, byteLength |-> Len(raw), sha256 |-> Digest(raw), wellFormed |-> wellFormed]

original_evidence(id, asset, raw, wellFormed) ==
  [kind |-> "evidence", id |-> id, content |-> "",
   blob |-> SourceBlobOf(asset, raw, wellFormed), derivation |-> None]

\* What has no right shape is not what the records around it say either: an id
\* with a control character, and a digest in upper case, which is none's.
ev_original_control == "ev_original and a control"
UppercaseDigest == Digest(OtherBytes)

primary(b) ==
  LET whole == original_evidence("ev_original", "asset_original", original_bytes,
                                 Problems(BlobRules(BlobFields(b))) = {})
  IN CASE b = "BlobAssetId" -> [whole EXCEPT !.blob.assetId = "short"]
       [] b = "BlobSha" -> [whole EXCEPT !.blob.sha256 = UppercaseDigest]
       [] OTHER -> whole

Chunk(i, raw) ==
  [kind |-> "original_chunk", evidenceId |-> "ev_original", assetId |-> "asset_original",
   index |-> i, byteOffset |-> i * ORIGINAL_CHUNK, decodes |-> TRUE, raw |-> raw,
   sha256 |-> Digest(raw)]

ChunkBytes(raw, i) ==
  SubSeq(raw, i * ORIGINAL_CHUNK + 1, Min({Len(raw), (i + 1) * ORIGINAL_CHUNK}))

chunks_of(raw) ==
  [n \in 1 .. (Len(raw) + ORIGINAL_CHUNK - 1) \div ORIGINAL_CHUNK |->
     Chunk(n - 1, ChunkBytes(raw, n - 1))]

Chunks(b) ==
  LET chunks == chunks_of(original_bytes) IN
  CASE b = "MissingChunk" -> <<chunks[1], chunks[3]>>
    [] b = "Reordered" -> <<chunks[1], chunks[3], chunks[2]>>
    [] b = "ChunkDigest" -> <<chunks[1], [chunks[2] EXCEPT !.sha256 = Digest(OtherBytes)], chunks[3]>>
    [] b = "WholeDigest" -> <<chunks[1], Chunk(1, ChunkBytes(AlteredBytes, 1)), chunks[3]>>
    [] b = "Interrupted" -> <<chunks[1], Note("ev_plain", "cleaned")>> \o Tail(chunks)
    [] OTHER -> chunks

Reference(id, raw, wellFormed) ==
  [kind |-> "original_source", evidenceId |-> "ev_original", assetId |-> "asset_original",
   byteLength |-> Len(original_bytes), sha256 |-> Digest(raw), referenceId |-> id,
   wellFormed |-> wellFormed]

References(b) ==
  LET bound == IF b = "UnboundSource" THEN OtherBytes ELSE original_bytes
      drive == Reference(1, bound, Problems(ReferenceRules(ReferenceFields(b))) = {})
      edited == CASE b = "RefEvidenceControl" -> [drive EXCEPT !.evidenceId = ev_original_control]
                  [] b = "RefAssetId" -> [drive EXCEPT !.assetId = "short"]
                  [] OTHER -> drive
  IN <<edited, Reference(2, bound, TRUE)>>

derivative(id, index, text, wellFormed) ==
  [kind |-> "evidence", id |-> id, content |-> text, blob |-> None,
   derivation |-> [primary |-> "ev_original", assetId |-> "asset_original",
                   byteLength |-> Len(original_bytes), sha256 |-> Digest(original_bytes),
                   jobId |-> 1, index |-> index, text |-> text, wellFormed |-> wellFormed]]

FirstDerivative(b) ==
  LET first == derivative("ev_text_0", 0, "First cleaned block.",
                          Problems(DerivationRules(DerivationFields(b))) = {})
  IN CASE b = "DerivativeUnbound" -> [first EXCEPT !.derivation.sha256 = Digest(OtherBytes)]
       [] b = "DerivativeText" -> [first EXCEPT !.content = "Not the named text."]
       [] b = "DerivPrimaryControl" -> [first EXCEPT !.derivation.primary = ev_original_control]
       [] b = "DerivAssetId" -> [first EXCEPT !.derivation.assetId = "short"]
       [] b = "DerivSha" -> [first EXCEPT !.derivation.sha256 = UppercaseDigest]
       [] b = "DerivTextSha" -> [first EXCEPT !.derivation.text = "No text's digest."]
       [] b = "DerivWithOriginal" ->
            [first EXCEPT !.blob = SourceBlobOf("asset_original", original_bytes, TRUE)]
       [] OTHER -> first

SecondDerivative == derivative("ev_text_2", 2, "Third cleaned block.", TRUE)

Derivatives(b) ==
  CASE b \in {"DerivativeOrphan", "Interrupted"} -> <<>>
    [] b = "DerivativeOrder" -> <<SecondDerivative, FirstDerivative(b)>>
    [] b = "WideSlots" -> <<FirstDerivative(b), SecondDerivative>> \o
                          [n \in 1 .. 4 |-> derivative("ev_wide", n + 2, "Wide block.", TRUE)]
    [] OTHER -> <<FirstDerivative(b), SecondDerivative>>

\* What comes after the original and its derivatives.
After(b) ==
  CASE b = "Interrupted" -> <<>>
    [] b = "DerivativeOrphan" ->
         <<original_evidence("ev_empty", "asset_empty", <<>>, TRUE),
           Note("ev_plain", "cleaned"), FirstDerivative(b)>>
    [] OTHER -> <<original_evidence("ev_empty", "asset_empty", <<>>, TRUE),
                  Note("ev_plain", "cleaned")>>

originals(b) ==
  Archive(IF b = "InV0" THEN V0 ELSE V1,
          <<primary(b)>> \o Chunks(b) \o References(b) \o Derivatives(b) \o After(b))

-------------------------------------------------------------------------------
\* The archives with one line edited as raw text: a number literal of the first
\* derivative or the first source reference, no longer what a writer writes.

\* Which literals from_slice_exact reads where.  A slot is an unsigned integer;
\* no number may be out of range.
Reads(place, literal) ==
  /\ literal # "1e999"
  /\ place = "slot" => literal \notin {"-0", "f64::MAX"}

\* The literal replaced in the first line that contains it, and the trailer's
\* digest redone.
edit_one_line(lines, containing, place, literal) ==
  IF Reads(place, literal) THEN lines
  ELSE LET at == Min({i \in DOMAIN lines : lines[i] \in containing})
           body == [i \in 1 .. Len(lines) - 1 |->
                      IF i = at THEN [kind |-> "malformed"] ELSE lines[i]]
       IN Append(body, [lines[Len(lines)] EXCEPT !.sha256 = Digest(body)])

FirstSlot == {line \in ToSet(originals("None")) : IsDerivative(line) /\ line.derivation.index = 0}
DriveSource == {line \in ToSet(originals("None")) : line.kind = "original_source"}

Edited ==
  [derivative_index_negative_zero |->
     edit_one_line(originals("None"), FirstSlot, "slot", "-0"),
   derivative_coverage_negative_zero |->
     edit_one_line(originals("None"), FirstSlot, "coverage", "-0"),
   derivative_coverage_non_finite |->
     edit_one_line(originals("None"), FirstSlot, "coverage", "1e999"),
   source_reference_max_double |->
     edit_one_line(originals("None"), DriveSource, "source", "f64::MAX")]

-------------------------------------------------------------------------------

Breaks ==
  {"None", "MissingChunk", "Reordered", "ChunkDigest", "WholeDigest", "Interrupted", "InV0",
   "UnboundSource", "DerivativeOrphan", "DerivativeUnbound", "DerivativeText",
   "DerivativeOrder", "WideSlots", "DerivContract", "DerivPrimaryControl", "DerivAssetId",
   "DerivSha", "DerivNormalizer", "DerivConfiguration", "DerivJobId", "DerivLocator",
   "DerivCoverageType", "DerivCoverageSize", "DerivTextSha", "DerivWithOriginal",
   "CoverageExact", "CoverageFloatsUnder", "CoverageFloatsOver", "SourceExact",
   "BlobAssetId", "BlobSha", "BlobMediaType", "BlobFileName", "RefId", "RefSourceType",
   "RefSourceSize", "RefEvidenceControl", "RefAssetId", "CoverageDepthLimit",
   "DerivCoverageDepth", "SourceDepthLimit", "RefSourceDepth"}

\* The files of the corpus.  The goldens originals(b) are named by their break.
Goldens ==
  [basic |-> basic, unknown_time |-> unknown_time, forward_compat |-> forward_compat,
   tombstones |-> tombstones, major_version |-> major_version,
   contradiction_cases |-> contradiction_cases,
   relationship_proposals |-> relationship_proposals,
   ontology_revisions |-> ontology_revisions]
    @@ Edited @@ [b \in Breaks |-> originals(b)]
===============================================================================
