------------------------------ MODULE AntPipeline ------------------------------
(***************************************************************************)
(* An export and the import of it: AntWriter writes a stream, what reached *)
(* the destination is carried to an importer, by accident damaged on the   *)
(* way, and AntReader reads it.                                            *)
(*                                                                         *)
(* The transport loses, repeats, swaps and alters lines and cuts the       *)
(* stream short.  It does not make a trailer that fits its damage: that is *)
(* no accident.                                                            *)
(***************************************************************************)
EXTENDS AntReaderProps, AntWriter

CONSTANTS
  Noise,       \* what a damaged line may read as
  MaxDamage    \* bound: damages

ASSUME NoiseAssumption == Noise \subseteq Lines /\ MaxDamage \in Nat

ASSUME PipelineAssumption ==
  /\ WriterHeaders \subseteq Headers
  /\ Submissions \subseteq Lines
  /\ {[kind |-> "malformed"], [kind |-> "io_error"]} \subseteq Lines

VARIABLES
  shipped,   \* whether the writer's output is on its way
  transit,   \* the lines the importer has not read
  damages    \* how often the stream was damaged

readerVars == vars
transportVars == <<shipped, transit, damages>>
pipelineVars == <<readerVars, writerVars, transportVars>>

InitPipeline ==
  /\ Init
  /\ InitWriter
  /\ shipped = FALSE
  /\ transit = <<>>
  /\ damages = 0

-------------------------------------------------------------------------------

\* The lines that reach the destination.  Of a writer that was dropped it is a
\* beginning, which may end within a line or in a frame that does not decode.
Arrivals ==
  IF writing = "finished" THEN {output.lines}
  ELSE {SubSeq(output.lines, 1, n) \o end :
          n \in 0 .. Len(output.lines),
          end \in {<<>>, <<[kind |-> "malformed"]>>, <<[kind |-> "io_error"]>>}}

Ship ==
  /\ writing \in {"finished", "dropped"}
  /\ ~shipped
  /\ shipped' = TRUE
  /\ transit' \in Arrivals
  /\ UNCHANGED <<readerVars, writerVars, damages>>

Without(s, i) == SubSeq(s, 1, i - 1) \o SubSeq(s, i + 1, Len(s))
Twice(s, i) == SubSeq(s, 1, i) \o SubSeq(s, i, Len(s))
Swapped(s, i) == [s EXCEPT ![i] = s[i + 1], ![i + 1] = s[i]]

\* Bound: only a finished export is damaged, one cut short is damage enough.
Damage ==
  /\ shipped
  /\ writing = "finished"
  /\ phase = "closed"
  /\ damages < MaxDamage
  /\ damages' = damages + 1
  /\ \E i \in DOMAIN transit :
       \/ transit' = Without(transit, i)
       \/ transit' = Twice(transit, i)
       \/ i < Len(transit) /\ transit' = Swapped(transit, i)
       \/ transit' = SubSeq(transit, 1, i - 1)
       \/ \E line \in Noise : transit' = [transit EXCEPT ![i] = line]
  /\ UNCHANGED <<readerVars, writerVars, shipped>>

-------------------------------------------------------------------------------

\* A first line that is no manifest, or no first line.
RefuseOther ==
  /\ transit # <<>> => Head(transit).kind # "header"
  /\ RefuseEmptyStream
  /\ UNCHANGED transit

OpenReader ==
  /\ shipped
  /\ \/ /\ transit # <<>>
        /\ Head(transit).kind = "header"
        /\ Open(Head(transit)) \/ RefuseHeader(Head(transit))
        /\ transit' = Tail(transit)
     \/ RefuseOther
  /\ UNCHANGED <<writerVars, shipped, damages>>

Read ==
  /\ phase = "reading"
  /\ \/ /\ transit # <<>>
        /\ ReadNext(Head(transit))
        /\ transit' = Tail(transit)
     \/ /\ transit = <<>>
        /\ EndOfStream
        /\ UNCHANGED transit
  /\ UNCHANGED <<writerVars, shipped, damages>>

Export == Write /\ UNCHANGED <<readerVars, transportVars>>

Finished ==
  /\ phase \in {"refused", "stopped"}
  /\ UNCHANGED pipelineVars

NextPipeline == Export \/ Ship \/ Damage \/ OpenReader \/ Read \/ Finished

PipelineSpec == InitPipeline /\ [][NextPipeline]_pipelineVars

-------------------------------------------------------------------------------

\* The k-th of `records` is the k-th record of a known kind among `lines`, and
\* there are no others.
AreKnown(records, lines) ==
  /\ Len(records) = KnownUpTo(lines, Len(lines))
  /\ \A i \in DOMAIN lines :
       lines[i].kind \in DataKinds => records[KnownUpTo(lines, i)] = lines[i]

\* An importer that reaches a verified trailer was handed out every record the
\* exporter passed to write, in that order, those whose write failed included:
\* no accident on the way, no failed write the exporter went on from and no
\* export cut short passes for a whole archive.
RoundTrip == verified => AreKnown(delivered, submitted)

\* The other way round, nothing is refused for no reason: an archive that was
\* finished without a failed write and arrived undamaged is read to its verified
\* end, exactly if the exporter wrote well-grouped records, every one in a form that
\* decodes and within the line bound.
\* A write that failed left a line less, so the lines are the manifest, the
\* records and the trailer only if none did.
Unharmed ==
  /\ damages = 0
  /\ writing = "finished"
  /\ Len(output.lines) = Len(submitted) + 2

WorthReading ==
  LET records == Known(submitted)
  IN /\ WellGrouped(records, Carries)
     /\ Complete(records)
     /\ \A i \in DOMAIN submitted :
          submitted[i].kind # "malformed" /\ ~TooLong(submitted[i])

NoFalseAlarm ==
  phase = "stopped" /\ Unharmed => (verified <=> WorthReading)
===============================================================================
