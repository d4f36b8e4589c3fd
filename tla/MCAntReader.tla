------------------------------ MODULE MCAntReader ------------------------------
(***************************************************************************)
(* Small streams for AntReader: two Evidence ids, originals of zero to     *)
(* three bytes over a two-letter alphabet, chunks of one to three bytes at *)
(* several indices and offsets, source references and derivatives of each *)
(* binding, and one line of every other sort.                              *)
(***************************************************************************)
EXTENDS AntReaderProps

MCEvidenceIds == {"e1", "e2"}
MCAssetIds == {"a1", "a2"}
MCBytes == {0, 1}
MCTexts == {"t1", "t2"}

MCHeader(record, decoded, antares, ver) ==
  [kind |-> "header", length |-> 4, decoded |-> decoded, record |-> record,
   antares |-> antares, version |-> ver]
MCVersion(major, minor) == [major |-> major, minor |-> minor]

MCHeaders ==
  {MCHeader("manifest", 6, TRUE, v) : v \in {None} \union
     {MCVersion(0, 7), MCVersion(1, 0), MCVersion(2, 0)}}
  \union {MCHeader("manifest", 7, TRUE, MCVersion(1, 0)),
          MCHeader("manifest", 6, FALSE, MCVersion(1, 0)),
          MCHeader("data", 6, TRUE, MCVersion(1, 0)),
          MCHeader("malformed", 6, TRUE, MCVersion(1, 0))}

MCBlob(asset, content) ==
  [assetId |-> asset, byteLength |-> Len(content), sha256 |-> content, wellFormed |-> TRUE]

Whole == MCBlob("a1", <<0, 1, 0>>)
Empty == MCBlob("a2", <<>>)

MCEvidence(id, blob, derivation) ==
  [kind |-> "evidence", id |-> id, content |-> "t1", blob |-> blob, derivation |-> derivation]

MCPrimaries ==
  {MCEvidence("e1", Whole, None), MCEvidence("e2", Empty, None),
   MCEvidence("e1", [Whole EXCEPT !.wellFormed = FALSE], None),
   MCEvidence("e2", [Empty EXCEPT !.sha256 = <<1>>], None)}

MCChunk(id, asset, index, offset, raw) ==
  [kind |-> "original_chunk", evidenceId |-> id, assetId |-> asset, index |-> index,
   byteOffset |-> offset, decodes |-> TRUE, raw |-> raw, sha256 |-> raw]

MCChunks ==
  {MCChunk("e1", "a1", at[1], at[2], raw) :
     at \in {<<0, 0>>, <<1, 1>>, <<1, 2>>, <<2, 2>>},
     raw \in {<<0>>, <<1>>, <<0, 1>>, <<1, 0>>, <<0, 1, 0>>, <<0, 1, 1>>}}
  \union {MCChunk("e2", "a1", 0, 0, <<0>>), MCChunk("e1", "a2", 0, 0, <<0>>),
          MCChunk("e1", "a1", 0, 0, <<>>), MCChunk("e1", "a1", 0, 0, <<0, 1, 0, 0>>),
          [MCChunk("e1", "a1", 0, 0, <<0>>) EXCEPT !.decodes = FALSE],
          [MCChunk("e1", "a1", 0, 0, <<0>>) EXCEPT !.sha256 = <<1>>]}

MCSource(id, blob, reference) ==
  [kind |-> "original_source", evidenceId |-> id, assetId |-> blob.assetId,
   byteLength |-> blob.byteLength, sha256 |-> blob.sha256, referenceId |-> reference,
   wellFormed |-> TRUE]

MCSources ==
  {MCSource("e1", Whole, n) : n \in 1 .. 3}
  \union {MCSource("e2", Empty, 1), MCSource("e2", Whole, 1),
          [MCSource("e1", Whole, 2) EXCEPT !.wellFormed = FALSE],
          [MCSource("e1", Whole, 2) EXCEPT !.byteLength = 2]}

MCDerivation(id, blob, job, index) ==
  [primary |-> id, assetId |-> blob.assetId, byteLength |-> blob.byteLength,
   sha256 |-> blob.sha256, jobId |-> job, index |-> index, text |-> "t1",
   wellFormed |-> TRUE]

MCDerivatives ==
  {MCEvidence("e2", None, MCDerivation("e1", Whole, job, index)) :
     job \in 1 .. 2, index \in 0 .. 1}
  \union {MCEvidence("e1", None, MCDerivation("e2", Empty, 1, 0)),
          MCEvidence("e1", None, MCDerivation("e2", Whole, 1, 0)),
          MCEvidence("e2", Empty, MCDerivation("e1", Whole, 2, 0)),
          MCEvidence("e2", None, [MCDerivation("e1", Whole, 2, 0) EXCEPT !.text = "t2"]),
          MCEvidence("e2", None, [MCDerivation("e1", Whole, 2, 0) EXCEPT !.wellFormed = FALSE])}

MCPlain == {[kind |-> "belief", oversized |-> TRUE], MCEvidence("e1", None, None)}

MCOther == {[kind |-> k] : k \in {"unknown", "malformed", "manifest", "io_error"}}

MCLines == MCPrimaries \union MCChunks \union MCSources \union MCDerivatives
             \union MCPlain \union MCOther

\* A handful of lines for a caller that reads on after errors: an original of
\* two bytes, its chunks right and wrong, what may follow it, and what fails.
Short == MCBlob("a1", <<0, 1>>)

MCFewLines ==
  {MCEvidence("e1", Short, None),
   MCChunk("e1", "a1", 0, 0, <<0>>), MCChunk("e1", "a1", 1, 1, <<1>>),
   MCChunk("e1", "a1", 0, 0, <<0, 1>>), MCChunk("e1", "a1", 0, 0, <<1, 1>>),
   MCChunk("e1", "a1", 0, 0, <<0, 1, 0>>),
   MCSource("e1", Short, 1),
   MCEvidence("e2", None, MCDerivation("e1", Short, 1, 0)),
   MCEvidence("e2", None, MCDerivation("e2", Short, 1, 1)),
   [kind |-> "vertex", oversized |-> TRUE],
   [kind |-> "unknown"], [kind |-> "malformed"], [kind |-> "io_error"]}

MCFewHeaders == {MCHeader("manifest", 6, TRUE, MCVersion(1, 1))}
===============================================================================
