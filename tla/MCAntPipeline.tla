----------------------------- MODULE MCAntPipeline -----------------------------
(***************************************************************************)
(* Exports of up to four records: an original of two bytes in one chunk or *)
(* two, a source reference, a plain record, one over the line bound, one   *)
(* of a kind the importer does not know and one that does not decode, to a *)
(* 1.0 and a 0.7 archive.                                                  *)
(***************************************************************************)
EXTENDS AntPipeline

MCEvidenceIds == {"e1", "e2"}
MCAssetIds == {"a1"}
MCBytes == {0, 1}
MCTexts == {"t1"}

MCHeader(ver) ==
  [kind |-> "header", length |-> 4, decoded |-> 6, record |-> "manifest",
   antares |-> TRUE, version |-> ver]
MCHeaders == {MCHeader([major |-> 1, minor |-> 0]), MCHeader([major |-> 0, minor |-> 7]),
              MCHeader([major |-> 2, minor |-> 0])}

Pair == [assetId |-> "a1", byteLength |-> 2, sha256 |-> <<0, 1>>, wellFormed |-> TRUE]

MCChunk(index, raw) ==
  [kind |-> "original_chunk", evidenceId |-> "e1", assetId |-> "a1", index |-> index,
   byteOffset |-> index, decodes |-> TRUE, raw |-> raw, sha256 |-> raw]

MCSubmissions ==
  {[kind |-> "evidence", id |-> "e1", content |-> "t1", blob |-> Pair, derivation |-> None],
   MCChunk(0, <<0>>), MCChunk(1, <<1>>), MCChunk(0, <<0, 1>>),
   [kind |-> "original_source", evidenceId |-> "e1", assetId |-> "a1", byteLength |-> 2,
    sha256 |-> <<0, 1>>, referenceId |-> 1, wellFormed |-> TRUE],
   [kind |-> "vertex", oversized |-> FALSE], [kind |-> "unknown"]}

MCOversized == [kind |-> "edge", oversized |-> TRUE]

MCNoise == {[kind |-> "malformed"], [kind |-> "io_error"], [kind |-> "unknown"],
            [kind |-> "vertex", oversized |-> FALSE]}

MCLines == MCSubmissions \union MCNoise \union {MCOversized}
MCMoreSubmissions == MCSubmissions \union {MCOversized, [kind |-> "malformed"]}
===============================================================================
