------------------------------- MODULE WireValues -------------------------------
(***************************************************************************)
(* What happens to a value between the record it came in and the one it    *)
(* leaves in.  A behaviour follows one subject: three property values of a *)
(* column, two decimals, three event times, the metadata of an observation,*)
(* a chunk of an original, a line with opaque fields (ExactJson) or the    *)
(* line of a manifest (JsonScan).  The steps are the calls a caller may    *)
(* make on it, in any order and any number of times.                       *)
(***************************************************************************)
EXTENDS PropertyValue, EventTime, ConditionalRevision, ChunkCoding, ExactJson, JsonScan

CONSTANT
  Families         \* the subjects a run follows

VARIABLE
  family           \* the subject followed

vars ==
  <<family, columnVars, decimalVars, timeVars, metadataVars, chunkLength, documentVars, scanVars>>

ASSUME WireValuesAssumption ==
  /\ Families \subseteq {"column", "decimals", "times", "observation", "chunk", "opaque", "line"}
  /\ None \notin STRING

-------------------------------------------------------------------------------

Init ==
  /\ family \in Families
  /\ IF family = "column" THEN InitColumn ELSE NoColumn
  /\ IF family = "decimals" THEN InitDecimals ELSE NoDecimals
  /\ IF family = "times" THEN InitTimes ELSE NoTimes
  /\ IF family = "observation" THEN InitObservation ELSE NoObservation
  /\ IF family = "opaque" THEN InitDocument ELSE NoDocument
  /\ InitChunk
  /\ InitScan

ValueStep == family = "column" /\ WriteAndReadColumn
DecimalStep == family = "decimals" /\ UseDecimals
TimeStep == family = "times" /\ WriteAndRead
ObservationStep == family = "observation" /\ UseObservation
ChunkStep == family = "chunk" /\ Lengthen
OpaqueStep == family = "opaque" /\ NextDocument
LineStep == family = "line" /\ NextScan

Next ==
  /\ UNCHANGED family
  /\ \/ ValueStep /\ UNCHANGED <<decimalVars, timeVars, metadataVars, chunkLength, documentVars, scanVars>>
     \/ DecimalStep /\ UNCHANGED <<columnVars, timeVars, metadataVars, chunkLength, documentVars, scanVars>>
     \/ TimeStep /\ UNCHANGED <<columnVars, decimalVars, metadataVars, chunkLength, documentVars, scanVars>>
     \/ ObservationStep /\ UNCHANGED <<columnVars, decimalVars, timeVars, chunkLength, documentVars, scanVars>>
     \/ ChunkStep /\ UNCHANGED <<columnVars, decimalVars, timeVars, metadataVars, documentVars, scanVars>>
     \/ OpaqueStep /\ UNCHANGED <<columnVars, decimalVars, timeVars, metadataVars, chunkLength, scanVars>>
     \/ LineStep /\ UNCHANGED <<columnVars, decimalVars, timeVars, metadataVars, chunkLength, documentVars>>

Spec == Init /\ [][Next]_vars
===============================================================================
