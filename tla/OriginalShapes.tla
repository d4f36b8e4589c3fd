---------------------------- MODULE OriginalShapes ----------------------------
(***************************************************************************)
(* The structural rules of the records about stored originals: what        *)
(* SourceBlob, SourceReference and Derivation accept of their own fields.  *)
(*                                                                         *)
(* A string is its length and the narrowest class its characters are in.   *)
(* The classes the rules name are nested: lowercase hex digits, letters    *)
(* digits _ and -, also . and :, printable ASCII, everything but controls. *)
(* An opaque JSON value is whether it is an object, its serialized length  *)
(* and how deep arrays and objects nest in it.                             *)
(***************************************************************************)
EXTENDS Naturals, Sequences, FiniteSetsExt

HexChars == 0
IdChars == 1
TokenChars == 2
PrintableChars == 3
TextChars == 4
AnyChars == 5

Str(length, chars) == [length |-> length, chars |-> chars]
Opaque(length, depth) == [object |-> TRUE, length |-> length, depth |-> depth]

AssetIdMin == 16
AssetIdMax == 128
SourceMaxBytes == 16 * 1024
SourceMaxDepth == 64
LocatorMaxBytes == 2 * 1024
CoverageMaxBytes == 8 * 1024
CoverageMaxDepth == 64

\* Mutant of NestsDeeper: the limit itself is too deep.
NestsDeeperAtLimit(v, levels) == v.depth >= levels

NestsDeeper(v, levels) == v.depth > levels

IsText(s, max) == s.length \in 1 .. max /\ s.chars <= TextChars
IsToken(s, max) == s.length \in 1 .. max /\ s.chars <= TokenChars
IsSha256Hex(s) == s.length = 64 /\ s.chars = HexChars
IsValidAssetId(s) == s.length \in AssetIdMin .. AssetIdMax /\ s.chars <= IdChars

-------------------------------------------------------------------------------
(***************************************************************************)
(* A validate() is the sequence of its rules, each with the field its      *)
(* error names.  It returns the first problem.                             *)
(***************************************************************************)

Rule(field, holds) == [field |-> field, holds |-> holds]

Broken(rules) == {i \in DOMAIN rules : ~rules[i].holds}

\* The fields of all the rules a record breaks.
Problems(rules) == {rules[i].field : i \in Broken(rules)}

\* SourceBlob::validate
BlobRules(b) ==
  <<Rule("assetId", IsValidAssetId(b.assetId)),
    Rule("sha256", IsSha256Hex(b.sha256)),
    Rule("mediaType", b.mediaType.length \in 1 .. 255 /\ b.mediaType.chars <= PrintableChars),
    Rule("fileName", IsText(b.fileName, 1024))>>

\* SourceReference::validate.  An evidence id has no longest length.
ReferenceRules(r) ==
  <<Rule("referenceId", IsToken(r.referenceId, 128)),
    Rule("source type", r.source.object),
    Rule("source size", r.source.length <= SourceMaxBytes),
    Rule("source depth", ~NestsDeeper(r.source, SourceMaxDepth)),
    Rule("evidenceId", IsText(r.evidenceId, r.evidenceId.length)),
    Rule("assetId/sha256", IsValidAssetId(r.assetId) /\ IsSha256Hex(r.sha256))>>

\* Derivation::validate
DerivationRules(d) ==
  <<Rule("contract", d.contract = "antares.normalized-text/v1"),
    Rule("primaryEvidenceId", IsText(d.primary, d.primary.length)),
    Rule("assetId/sha256", IsValidAssetId(d.assetId) /\ IsSha256Hex(d.sha256)),
    Rule("normalizer", IsToken(d.name, 64) /\ IsToken(d.version, 64)),
    Rule("configurationSha256", IsSha256Hex(d.configuration)),
    Rule("jobId", IsToken(d.jobId, 128)),
    Rule("locator", IsText(d.locator, LocatorMaxBytes)),
    Rule("coverage type", d.coverage.object),
    Rule("coverage size", d.coverage.length <= CoverageMaxBytes),
    Rule("coverage depth", ~NestsDeeper(d.coverage, CoverageMaxDepth)),
    Rule("textSha256", IsSha256Hex(d.textSha256))>>
===============================================================================
