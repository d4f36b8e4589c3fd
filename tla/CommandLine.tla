------------------------------ MODULE CommandLine ------------------------------
(***************************************************************************)
(* openantares: `validate` and `info` over AntReader.                      *)
(*                                                                         *)
(* The program opens one file after another, each with a reader of its     *)
(* own.  One step is a call: opening a file, AntReader::new, an iteration  *)
(* of next_record, the report of a file, the exit.                         *)
(***************************************************************************)
EXTENDS AntReader, Integers, FiniteSetsExt

CONSTANTS
  Contents,      \* path -> the lines of the file there, None if it cannot be opened
  CommandLines   \* the arguments the program is run with: [command, paths]

ASSUME FilesAssumption ==
  /\ \A call \in CommandLines : call.paths \in Seq(DOMAIN Contents)
  /\ \A path \in DOMAIN Contents :
       LET lines == Contents[path]
       IN lines # None =>
            /\ lines \in Seq(Range(lines))
            /\ \A line \in Range(lines) :
                 line \in Headers \union Lines \/ line.kind = "trailer"

EX_OK == 0
EX_USAGE == 64
EX_DATAERR == 65
EX_NOINPUT == 66

VARIABLES
  args,      \* the arguments
  step,      \* where the program stands
  file,      \* the file being read, an index into args.paths
  transit,   \* the lines of that file not read yet
  tally,     \* read_all's counts
  reports,   \* what was printed, a report for every file
  rc         \* the exit code

cliVars == <<args, step, file, transit, tally, reports, rc>>
allVars == <<vars, cliVars>>

InitCommand ==
  /\ Init
  /\ args \in CommandLines
  /\ step = "main"
  /\ file = 0
  /\ transit = <<>>
  /\ tally = ZeroCounts
  /\ reports = <<>>
  /\ rc = EX_OK

-------------------------------------------------------------------------------

\* main dispatches on the command and the number of arguments.
Understood ==
  \/ args.command = "validate" /\ Len(args.paths) >= 1
  \/ args.command = "info" /\ Len(args.paths) = 1

Usage ==
  /\ step = "main"
  /\ ~Understood
  /\ rc' = EX_USAGE
  /\ step' = "exited"
  /\ UNCHANGED <<vars, args, file, transit, tally, reports>>

Start ==
  /\ step = "main"
  /\ Understood
  /\ step' = "open"
  /\ file' = 1
  /\ UNCHANGED <<vars, args, transit, tally, reports, rc>>

Path == args.paths[file]

\* Mutant of Worse: the code of the last file that failed.
WorseLatest(code) == code

\* rc.max(code)
Worse(code) == Max({rc, code})

\* `info` has one file and returns its code.
Report(report) ==
  /\ reports' = Append(reports, report)
  /\ step' = IF file < Len(args.paths) THEN "open" ELSE "exited"
  /\ file' = IF file < Len(args.paths) THEN file + 1 ELSE file

Fail(code) ==
  /\ Report([path |-> Path, code |-> code, line |-> lineNo])
  /\ rc' = Worse(code)

\* The reader that AntReader::new makes starts as in Init, whatever the one of
\* the file before became.
FreshReader ==
  /\ phase' = "closed"
  /\ version' = None
  /\ minorAhead' = FALSE
  /\ lineNo' = 0
  /\ hashed' = <<>>
  /\ counts' = ZeroCounts
  /\ verified' = FALSE
  /\ original' = None
  /\ completed' = None
  /\ derivativesOf' = None
  /\ outcome' = "none"
  /\ stream' = <<>>
  /\ delivered' = <<>>

OpenFile ==
  /\ step = "open"
  /\ Contents[Path] # None
  /\ FreshReader
  /\ transit' = Contents[Path]
  /\ tally' = ZeroCounts
  /\ step' = "read"
  /\ UNCHANGED <<args, file, reports, rc>>

CannotOpen ==
  /\ step = "open"
  /\ Contents[Path] = None
  /\ Fail(EX_NOINPUT)
  /\ UNCHANGED <<vars, args, transit, tally>>

-------------------------------------------------------------------------------
\* read_all

\* AntReader::new on the first line, which may be none, or no manifest.
NewReader ==
  /\ step = "read"
  /\ phase = "closed"
  /\ \/ /\ transit # <<>>
        /\ Head(transit).kind = "header"
        /\ Open(Head(transit)) \/ RefuseHeader(Head(transit))
     \/ /\ transit # <<>> => Head(transit).kind # "header"
        /\ RefuseEmptyStream
  /\ transit' = IF transit = <<>> THEN transit ELSE Tail(transit)
  /\ UNCHANGED <<args, step, file, tally, reports, rc>>

\* read_all counts the records that next_record returns.
Tallied(line, result) ==
  IF result = "record" THEN [tally EXCEPT ![line.kind] = @ + 1] ELSE tally

ReadOn ==
  /\ step = "read"
  /\ phase = "reading"
  /\ IF transit = <<>>
     THEN EndOfStream /\ UNCHANGED <<transit, tally>>
     ELSE /\ ReadNext(Head(transit))
          /\ transit' = Tail(transit)
          /\ tally' = Tallied(Head(transit), outcome')
  /\ UNCHANGED <<args, step, file, reports, rc>>

\* next_record returned Ok(None): the file is reported as good, and by `info`
\* with its counts.
ReportGood ==
  /\ step = "read"
  /\ phase = "stopped"
  /\ outcome = "end"
  /\ Report([path |-> Path, code |-> EX_OK, version |-> version, records |-> Len(delivered),
             ahead |-> minorAhead, counts |-> IF args.command = "info" THEN tally ELSE None])
  /\ UNCHANGED <<vars, args, transit, tally, rc>>

ReportBad ==
  /\ step = "read"
  /\ phase \in {"refused", "stopped"}
  /\ outcome # "end"
  /\ Fail(EX_DATAERR)
  /\ UNCHANGED <<vars, args, transit, tally>>

Exited == step = "exited" /\ UNCHANGED allVars

NextCommand ==
  \/ Usage \/ Start \/ OpenFile \/ CannotOpen \/ NewReader \/ ReadOn
  \/ ReportGood \/ ReportBad \/ Exited

CommandSpec == InitCommand /\ [][NextCommand]_allVars
===============================================================================
