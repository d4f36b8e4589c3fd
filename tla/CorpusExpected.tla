---------------------------- MODULE CorpusExpected ----------------------------
(***************************************************************************)
(* What gen_conformance says of its goldens: expected.json, the files that *)
(* must read, and expected_negatives.json, the files that must be refused. *)
(* A reader finds there the version, the kinds of the records in order and *)
(* how many there are of each, and for a negative the one rule it breaks.  *)
(***************************************************************************)
EXTENDS Corpus

\* The counts of an entry, the kinds it writes 0 for left out.
Counted(some) == some @@ ZeroCounts

Entry(version, kinds, some) ==
  [version |-> version, recordKinds |-> kinds, counts |-> Counted(some)]

ExpectedV0 ==
  [basic |->
     Entry(V0, <<"vertex", "vertex", "edge", "observation", "evidence", "belief", "vector">>,
           [vertex |-> 2, edge |-> 1, observation |-> 1, evidence |-> 1, belief |-> 1,
            vector |-> 1]),
   unknown_time |-> Entry(V0, <<"observation", "observation">>, [observation |-> 2]),
   forward_compat |-> Entry(V0, <<"vertex">>, [vertex |-> 1]),
   tombstones |->
     Entry(V0, <<"vertex", "edge", "vertex_tombstone", "edge_tombstone">>,
           [vertex |-> 1, edge |-> 1, vertex_tombstone |-> 1, edge_tombstone |-> 1]),
   contradiction_cases |->
     Entry(V0, Times(2, "vertex") \o Times(8, "evidence") \o Times(4, "observation")
                 \o <<"belief">> \o Times(4, "contradiction_case"),
           [vertex |-> 2, observation |-> 4, evidence |-> 8, belief |-> 1,
            contradiction_case |-> 4]),
   relationship_proposals |->
     Entry(V0, Times(5, "evidence") \o Times(3, "relationship_proposal"),
           [evidence |-> 5, relationship_proposal |-> 3]),
   ontology_revisions |->
     Entry(V0, <<"evidence", "ontology_revision">>, [evidence |-> 1, ontology_revision |-> 1])]

ExpectedOriginals ==
  Entry(V1, <<"evidence", "original_chunk", "original_chunk", "original_chunk",
              "original_source", "original_source", "evidence", "evidence",
              "evidence", "evidence">>,
        [evidence |-> 5, original_chunk |-> 3, original_source |-> 2])

\* originals.ant with four more derivatives, after the first two.
ExpectedWide ==
  Entry(V1, SubSeq(ExpectedOriginals.recordKinds, 1, 8) \o Times(4, "evidence")
              \o SubSeq(ExpectedOriginals.recordKinds, 9, 10),
        [evidence |-> 9, original_chunk |-> 3, original_source |-> 2])

\* The goldens that are originals.ant with one opaque value replaced.
LikeOriginals ==
  {"None", "SourceExact", "SourceDepthLimit", "source_reference_max_double",
   "derivative_coverage_negative_zero", "CoverageExact", "CoverageFloatsUnder",
   "CoverageDepthLimit"}

Expected ==
  ExpectedV0 @@ [WideSlots |-> ExpectedWide] @@ [name \in LikeOriginals |-> ExpectedOriginals]

-------------------------------------------------------------------------------
\* A negative is refused at a line, the one that breaks the rule its `why`
\* tells, or the first at which that shows.  `refusedFor` is the structural rule
\* it names, or none.

NoLine == 0       \* the manifest is counted when it is accepted
PrimaryLine == 2
SecondChunkLine == 4
LastChunkLine == 5
SourceLine == 6
DerivativeLine == 8
SecondDerivativeLine == 9
AfterPlainLine == 10

\* The rules of the order of records and of what binds them.
Grouping ==
  [major_version |-> NoLine, MissingChunk |-> SecondChunkLine, Reordered |-> SecondChunkLine,
   ChunkDigest |-> SecondChunkLine, WholeDigest |-> LastChunkLine,
   Interrupted |-> SecondChunkLine, UnboundSource |-> SourceLine,
   DerivativeOrphan |-> AfterPlainLine, DerivativeUnbound |-> DerivativeLine,
   DerivativeText |-> DerivativeLine, DerivativeOrder |-> SecondDerivativeLine,
   derivative_index_negative_zero |-> DerivativeLine,
   derivative_coverage_non_finite |-> DerivativeLine,
   DerivWithOriginal |-> DerivativeLine, InV0 |-> PrimaryLine]

\* The rules that Derivation, SourceBlob and SourceReference check on their own.
RefusedFor ==
  [DerivContract |-> "contract", DerivPrimaryControl |-> "primaryEvidenceId",
   DerivAssetId |-> "assetId/sha256", DerivSha |-> "assetId/sha256",
   DerivNormalizer |-> "normalizer", DerivConfiguration |-> "configurationSha256",
   DerivJobId |-> "jobId", DerivLocator |-> "locator",
   DerivCoverageType |-> "coverage type", DerivCoverageSize |-> "coverage size",
   DerivCoverageDepth |-> "coverage depth", DerivTextSha |-> "textSha256",
   CoverageFloatsOver |-> "coverage size", BlobAssetId |-> "assetId", BlobSha |-> "sha256",
   BlobMediaType |-> "mediaType", BlobFileName |-> "fileName", RefId |-> "referenceId",
   RefSourceType |-> "source type", RefSourceSize |-> "source size",
   RefSourceDepth |-> "source depth", RefEvidenceControl |-> "evidenceId",
   RefAssetId |-> "assetId/sha256"]

OfBlob == {"BlobAssetId", "BlobSha", "BlobMediaType", "BlobFileName"}
OfReference ==
  {"RefId", "RefSourceType", "RefSourceSize", "RefSourceDepth", "RefEvidenceControl",
   "RefAssetId"}

StructuralLine(b) ==
  IF b \in OfBlob THEN PrimaryLine ELSE IF b \in OfReference THEN SourceLine ELSE DerivativeLine

Negatives == Grouping @@ [b \in DOMAIN RefusedFor |-> StructuralLine(b)]

\* Of these the edit also parts the record from its original or its text.
AlsoUnbound ==
  {"DerivPrimaryControl", "DerivAssetId", "DerivSha", "DerivTextSha", "RefEvidenceControl",
   "RefAssetId", "BlobAssetId", "BlobSha"}

FlawsNamed(b) == IF b \in DOMAIN RefusedFor THEN {RefusedFor[b]} ELSE {}
===============================================================================
