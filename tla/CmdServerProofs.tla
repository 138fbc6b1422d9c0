--------------------------- MODULE CmdServerProofs ---------------------------
(***************************************************************************)
(* For any number of calls, files, commands and lines, and pipes of any    *)
(* size: what the calls that change the guest's files leave in them, what  *)
(* a download reads and what a blocking command answers.                   *)
(*                                                                         *)
(* Core: where the handler of each kind of call can be.  On it rest four   *)
(* invariants, one for each theorem.  Written: what each entry of an       *)
(* upload has become.  Retried: how long a file is that several write      *)
(* alike.  ReadOK: what the entries a download passed were.  Copied: the   *)
(* answer and the pipe together are what the command printed.              *)
(***************************************************************************)
EXTENDS CmdServer, QueueTheorems, FiniteSetTheorems

CallStates == {"idle", "sent"} \cup Answers
HandlerStates == {"none", "files", "write", "paths", "exec", "wait"} \cup Answers

Blocks == STRING \cup {"unread"}
Contents == Seq(Blocks)
Values == Contents \cup Lines

Types ==
  /\ job \in Jobs
  /\ call \in [Calls -> CallStates]
  /\ seen \in [Calls -> SUBSET Calls]
  /\ handler \in [Calls -> HandlerStates]
  /\ next \in [Calls -> Nat \ {0}]
  /\ answer \in [Calls -> Seq(Values)]
  /\ files \in [DOMAIN files -> Contents]
  /\ proc \in [Calls -> {"none", "running", "exited", "reaped"}]
  /\ wrote \in [Calls -> Nat]
  /\ pipe \in [Calls -> [Streams -> Seq(Lines)]]
  /\ \A c \in Calls, s \in Streams : Len(pipe[c][s]) <= PipeSize
  /\ scanning \in [Calls -> SUBSET Streams]
  /\ left \in [Calls -> {"none", "running", "exited", "killed"}]
  /\ up \in BOOLEAN

(* A handler of each kind of call has places of its own, and only commands *)
(* have processes.                                                         *)
PlacesOf ==
  [upload |-> {"none", "files", "write", "ok", "error"},
   download |-> {"none", "paths", "ok", "error"},
   run |-> {"none", "exec", "wait", "ok", "commandError"},
   start |-> {"none", "exec", "ok", "commandError"}]

KindOK(c) ==
  /\ handler[c] \in PlacesOf[Kind(c)]
  /\ call[c] = "idle" => handler[c] = "none"
  /\ call[c] = "ok" => handler[c] = "ok"
  /\ c \notin Commands => proc[c] = "none" /\ left[c] = "none"
  /\ wrote[c] > 0 => proc[c] # "none"
  /\ c \in Commands => wrote[c] <= Len(job[c].lines)
  /\ handler[c] = "write" =>
       next[c] \in DOMAIN job[c].files /\ job[c].files[next[c]].path # Empty

Kinds == \A c \in DOMAIN job : KindOK(c)

Core == Types /\ Kinds

LEMMA JobFacts ==
  ASSUME Types
  PROVE  /\ DOMAIN job \subseteq Calls
         /\ \A c \in DOMAIN job :
              \/ /\ job[c].kind = "upload"
                 /\ job[c].files \in Seq([path : Paths, content : Seq(STRING)])
              \/ job[c].kind = "download" /\ job[c].paths \in Paths
              \/ /\ job[c].kind \in {"run", "start"}
                 /\ job[c].lines \in Seq(Lines) /\ job[c].child \in BOOLEAN
BY JobsAssumption DEF Types

LEMMA CoreImplies == Core => CmdTypeOK
<1> SUFFICES ASSUME Core PROVE CmdTypeOK
  OBVIOUS
<1>1. DOMAIN job \subseteq Calls
  BY JobFacts DEF Core
<1>2. \A c \in DOMAIN job :
        wrote[c] > 0 => proc[c] # "none" /\ wrote[c] <= Len(job[c].lines)
  BY DEF Core, Kinds, KindOK
<1> QED BY <1>1, <1>2
        DEF Core, Types, Kinds, KindOK, CmdTypeOK, CallStates, HandlerStates

(* What a call of each kind has. *)
LEMMA UploadFacts ==
  ASSUME Types, NEW c \in Uploads
  PROVE  /\ c \in DOMAIN job /\ c \in Calls
         /\ Len(job[c].files) \in Nat
         /\ DOMAIN job[c].files = 1..Len(job[c].files)
         /\ \A i \in DOMAIN job[c].files :
              job[c].files[i].path \in Paths /\ Content(c, i) \in Contents
<1>1. c \in DOMAIN job /\ job[c].files \in Seq([path : Paths, content : Seq(STRING)])
  BY JobFacts DEF Uploads, Kind
<1>2. c \in Calls
  BY <1>1, JobFacts
<1>3. \A i \in 1..Len(job[c].files) :
        job[c].files[i] \in [path : Paths, content : Seq(STRING)]
  BY <1>1, ElementOfSeq
<1>4. Seq(STRING) \subseteq Contents
  BY SeqMonotonic DEF Contents, Blocks
<1> QED BY <1>1, <1>2, <1>3, <1>4, LenProperties DEF Content

LEMMA CommandFacts ==
  ASSUME Types, NEW c \in Commands
  PROVE  /\ c \in DOMAIN job /\ c \in Calls
         /\ job[c].lines \in Seq(Lines)
         /\ Len(job[c].lines) \in Nat
         /\ \A k \in 1..Len(job[c].lines) : job[c].lines[k] \in Lines
         /\ job[c].child \in BOOLEAN
<1>1. /\ c \in DOMAIN job
      /\ job[c].lines \in Seq(Lines) /\ job[c].child \in BOOLEAN
  BY JobFacts DEF Commands, Kind
<1>2. c \in Calls
  BY <1>1, JobFacts
<1> QED BY <1>1, <1>2, LenProperties, ElementOfSeq

LEMMA KindsApart ==
  ASSUME Types, NEW c \in DOMAIN job
  PROVE  Kind(c) \in {"upload", "download", "run", "start"}
BY JobFacts DEF Kind

(* What can be written of an upload's file. *)
LEMMA ContentFacts ==
  ASSUME Types, NEW c \in Uploads, NEW i \in DOMAIN job[c].files
  PROVE  /\ Content(c, i) \in Contents /\ Len(Content(c, i)) \in Nat
         /\ \A n \in 0..(Len(Content(c, i)) - 1) :
              /\ SubSeq(Content(c, i), 1, n) \in Contents
              /\ Len(SubSeq(Content(c, i), 1, n)) = n
<1>1. Content(c, i) \in Contents
  BY UploadFacts
<1> DEFINE x == Content(c, i)
<1> HIDE DEF x
<1>2. x \in Seq(Blocks) /\ Len(x) \in Nat /\ \A b \in 1..Len(x) : x[b] \in Blocks
  BY <1>1, LenProperties, ElementOfSeq DEF x, Contents
<1>3. ASSUME NEW n \in 0..(Len(x) - 1)
      PROVE  SubSeq(x, 1, n) \in Contents /\ Len(SubSeq(x, 1, n)) = n
  <2>1. /\ n \in Nat /\ n \in Int /\ 1 \in Int
        /\ \A b \in 1..n : x[b] \in Blocks
    BY <1>2
  <2>2. /\ SubSeq(x, 1, n) \in Seq(Blocks)
        /\ Len(SubSeq(x, 1, n)) = IF 1 <= n THEN n - 1 + 1 ELSE 0
    BY <2>1, SubSeqProperties
  <2> QED BY <2>1, <2>2 DEF Contents
<1> QED BY <1>1, <1>2, <1>3 DEF x

LEMMA OverwrittenFacts ==
  ASSUME NEW old \in Contents, NEW new \in Contents
  PROVE  /\ Overwritten(old, new) \in Contents
         /\ Len(old) <= Len(new) => Overwritten(old, new) = new
         /\ Len(Overwritten(old, new)) =
              IF Len(old) <= Len(new) THEN Len(new) ELSE Len(old)
<1>1. Len(new) \in Nat /\ Len(old) \in Nat
  BY LenProperties DEF Contents
<1> DEFINE rest == SubSeq(old, Len(new) + 1, Len(old))
<1>2. \A i \in (Len(new) + 1)..Len(old) : old[i] \in Blocks
  BY <1>1, ElementOfSeq DEF Contents
<1>3. /\ rest \in Contents
      /\ Len(rest) = IF Len(new) + 1 <= Len(old) THEN Len(old) - Len(new) ELSE 0
  BY <1>1, <1>2, SubSeqProperties DEF Contents
<1>4. Len(old) <= Len(new) => rest = <<>>
  BY <1>1, SubSeqEmpty
<1> HIDE DEF rest
<1>5. new \o rest \in Contents /\ Len(new \o rest) = Len(new) + Len(rest)
  BY <1>3, ConcatProperties DEF Contents
<1>6. new \o <<>> = new
  BY ConcatEmptySeq DEF Contents
<1>7. Overwritten(old, new) = new \o rest
  BY DEF Overwritten, rest
<1>8. Len(old) <= Len(new) => Overwritten(old, new) = new
  BY <1>4, <1>6, <1>7
<1>9. Len(Overwritten(old, new)) = IF Len(old) <= Len(new) THEN Len(new) ELSE Len(old)
  BY <1>1, <1>3, <1>5, <1>7
<1> QED BY <1>5, <1>7, <1>8, <1>9

LEMMA KindsFrame ==
  ASSUME Kinds, job' = job, NEW c \in DOMAIN job,
         \A d \in DOMAIN job \ {c} :
           /\ call'[d] = call[d] /\ handler'[d] = handler[d] /\ next'[d] = next[d]
           /\ proc'[d] = proc[d] /\ wrote'[d] = wrote[d] /\ left'[d] = left[d],
         KindOK(c)'
  PROVE  Kinds'
<1> SUFFICES ASSUME NEW d \in DOMAIN job PROVE KindOK(d)'
  BY DEF Kinds
<1>1. CASE d = c
  BY <1>1
<1>2. CASE d # c
  <2>1. KindOK(d)
    BY DEF Kinds
  <2> QED BY <1>2, <2>1 DEF KindOK, Kind, Commands
<1> QED BY <1>1, <1>2

(* The steps at the REST server. *)
LEMMA CallerCore ==
  ASSUME Core, NEW c \in DOMAIN job,
         Send(c) \/ SendFails(c) \/ Answered(c) \/ GivesUp(c)
  PROVE  Core'
<1>0. Types /\ Kinds /\ c \in Calls /\ KindOK(c)
      /\ Kind(c) \in {"upload", "download", "run", "start"}
  BY JobFacts, KindsApart DEF Core, Kinds
<1> USE <1>0 DEF Types, CallStates, HandlerStates, Answers
<1>1. CASE Send(c)
  <2>1. /\ call' = [call EXCEPT ![c] = "sent"] /\ up
        /\ seen' = [seen EXCEPT ![c] = {d \in Calls : call[d] = "ok"}]
        /\ handler' = [handler EXCEPT ![c] = FirstStep[Kind(c)]]
        /\ job' = job /\ next' = next /\ answer' = answer /\ files' = files
        /\ command' = command /\ up' = up
    BY <1>1 DEF Send, Kind
  <2>2. FirstStep[Kind(c)] \in PlacesOf[Kind(c)] \ {"none", "write"}
        /\ FirstStep[Kind(c)] \in HandlerStates
    BY DEF FirstStep, PlacesOf
  <2>3. Types'
    BY <2>1, <2>2 DEF command
  <2>4. KindOK(c)'
    BY <2>1, <2>2 DEF KindOK, Kind, command, Commands
  <2>5. Kinds'
    BY <2>1, <2>4, JobFacts, KindsFrame DEF command
  <2> QED BY <2>3, <2>5 DEF Core
<1>2. CASE SendFails(c) \/ Answered(c) \/ GivesUp(c)
  <2>1. PICK a \in Answers :
          /\ call' = [call EXCEPT ![c] = a]
          /\ a = "ok" => handler[c] = "ok"
    BY <1>2 DEF SendFails, Answered, GivesUp
  <2>2. /\ job' = job /\ next' = next /\ answer' = answer /\ files' = files
        /\ seen' = seen /\ handler' = handler /\ command' = command /\ up' = up
    BY <1>2 DEF SendFails, Answered, GivesUp
  <2>3. Types'
    BY <2>1, <2>2 DEF command
  <2>4. KindOK(c)'
    BY <2>1, <2>2 DEF KindOK, Kind, command, Commands
  <2>5. Kinds'
    BY <2>1, <2>2, <2>4, JobFacts, KindsFrame DEF command
  <2> QED BY <2>3, <2>5 DEF Core
<1> QED BY <1>1, <1>2

(* A handler goes on to another file or place. *)
LEMMA HandlerMoves ==
  ASSUME Core, NEW c \in DOMAIN job, call[c] \notin {"idle", "ok"},
         NEW a \in PlacesOf[Kind(c)] \ {"none"}, NEW n \in Nat \ {0},
         a = "write" => n \in DOMAIN job[c].files /\ job[c].files[n].path # Empty,
         handler' = [handler EXCEPT ![c] = a],
         next' = [next EXCEPT ![c] = n],
         answer' \in [Calls -> Seq(Values)],
         files' \in [DOMAIN files' -> Contents],
         UNCHANGED <<job, caller, command, up>>
  PROVE  Core'
<1>0. /\ Types /\ Kinds /\ c \in Calls /\ KindOK(c)
      /\ \A d \in DOMAIN job : d \in Calls
      /\ Kind(c) \in {"upload", "download", "run", "start"}
  BY JobFacts, KindsApart DEF Core, Kinds
<1>1. a \in HandlerStates
  BY <1>0 DEF PlacesOf, HandlerStates, Answers
<1>2. Types'
  BY <1>0, <1>1 DEF Types, caller, command
<1>3. KindOK(c)'
  BY <1>0 DEF KindOK, Kind, Commands, Types, caller, command
<1>4. \A d \in DOMAIN job \ {c} :
        /\ call'[d] = call[d] /\ handler'[d] = handler[d] /\ next'[d] = next[d]
        /\ proc'[d] = proc[d] /\ wrote'[d] = wrote[d] /\ left'[d] = left[d]
  BY <1>0 DEF Types, caller, command
<1>5. Kinds'
  BY <1>0, <1>3, <1>4, KindsFrame
<1> QED BY <1>2, <1>5 DEF Core

(* Whose handler is at a place is a call of the right kind, which was sent *)
(* and not answered.                                                       *)
LEMMA AtPlace ==
  ASSUME Core, NEW c \in DOMAIN job
  PROVE  /\ handler[c] \in {"files", "write"} => c \in Uploads
         /\ handler[c] = "paths" => Kind(c) = "download"
         /\ handler[c] = "exec" => Kind(c) \in {"run", "start"}
         /\ handler[c] = "wait" => Kind(c) = "run"
         /\ handler[c] \in {"files", "write", "paths", "exec", "wait"} =>
              call[c] \notin {"idle", "ok"}
<1>1. KindOK(c) /\ Kind(c) \in {"upload", "download", "run", "start"}
  BY KindsApart DEF Core, Kinds
<1> QED BY <1>1 DEF KindOK, PlacesOf, Uploads

(* What a step of an upload does to the handler and to the files. *)
LEMMA UploadSteps ==
  ASSUME Core, NEW c \in DOMAIN job,
         SkipFile(c) \/ CreateFile(c) \/ CreateFileFails(c)
           \/ WriteString(c) \/ WriteStringFails(c) \/ UploadDone(c)
  PROVE  /\ c \in Uploads /\ Core'
<1>0. /\ Types /\ c \in Calls /\ next[c] \in Nat \ {0}
      /\ next = [next EXCEPT ![c] = next[c]]
      /\ files \in [DOMAIN files -> Contents]
      /\ answer \in [Calls -> Seq(Values)]
      /\ KindOK(c)
  BY JobFacts DEF Core, Types, Kinds
<1>1. handler[c] \in {"files", "write"}
  BY DEF SkipFile, CreateFile, CreateFileFails, WriteString, WriteStringFails,
     UploadDone, Goto
<1>2. c \in Uploads /\ call[c] \notin {"idle", "ok"} /\ Kind(c) = "upload"
  BY <1>1, AtPlace DEF Uploads
<1>3. /\ "files" \in PlacesOf[Kind(c)] \ {"none"}
      /\ "write" \in PlacesOf[Kind(c)] \ {"none"}
      /\ "ok" \in PlacesOf[Kind(c)] \ {"none"}
      /\ "error" \in PlacesOf[Kind(c)] \ {"none"}
  BY <1>2 DEF PlacesOf
<1>4. next[c] + 1 \in Nat \ {0}
  BY <1>0
<1>5. CASE SkipFile(c)
  <2>1. /\ handler' = [handler EXCEPT ![c] = "files"]
        /\ next' = [next EXCEPT ![c] = next[c] + 1]
        /\ answer' = answer /\ files' = files
        /\ UNCHANGED <<job, caller, command, up>>
    BY <1>5 DEF SkipFile, Goto
  <2> QED BY <1>0, <1>2, <1>3, <1>4, <2>1, HandlerMoves
<1>6. CASE CreateFile(c)
  <2>1. /\ handler' = [handler EXCEPT ![c] = "write"]
        /\ next' = [next EXCEPT ![c] = next[c]]
        /\ next[c] \in DOMAIN job[c].files /\ job[c].files[next[c]].path # Empty
        /\ answer' = answer /\ files' = WithFile(Path(c), <<>>)
        /\ UNCHANGED <<job, caller, command, up>>
    BY <1>0, <1>6 DEF CreateFile, Goto
  <2>2. files' \in [DOMAIN files' -> Contents]
    <3>1. <<>> \in Contents
      BY EmptySeq DEF Contents
    <3>2. files' = [x \in {Path(c)} \cup DOMAIN files |->
                      IF x = Path(c) THEN <<>> ELSE files[x]]
      BY <2>1 DEF WithFile
    <3> QED BY <1>0, <3>1, <3>2
  <2> QED BY <1>0, <1>2, <1>3, <2>1, <2>2, HandlerMoves
<1>7. CASE CreateFileFails(c) \/ UploadDone(c)
  <2>1. PICK a \in {"error", "ok"} :
        /\ handler' = [handler EXCEPT ![c] = a]
        /\ next' = [next EXCEPT ![c] = next[c]]
        /\ answer' = answer /\ files' = files
        /\ UNCHANGED <<job, caller, command, up>>
    BY <1>0, <1>7 DEF CreateFileFails, UploadDone, Goto
  <2> QED BY <1>0, <1>2, <1>3, <2>1, HandlerMoves
<1>8. ASSUME handler[c] = "write", NEW x \in Contents,
             files' = [files EXCEPT ![Path(c)] = Overwritten(files[Path(c)], x)]
      PROVE  files' \in [DOMAIN files' -> Contents]
  <2>1. CASE Path(c) \in DOMAIN files
    <3>1. files[Path(c)] \in Contents
      BY <1>0, <2>1
    <3>2. Overwritten(files[Path(c)], x) \in Contents
      BY <1>8, <3>1, OverwrittenFacts
    <3> QED BY <1>0, <1>8, <2>1, <3>2
  <2>2. CASE Path(c) \notin DOMAIN files
    BY <1>0, <1>8, <2>2
  <2> QED BY <2>1, <2>2
<1>9. ASSUME handler[c] = "write"
      PROVE  /\ next[c] \in DOMAIN job[c].files
             /\ Content(c, next[c]) \in Contents
             /\ \A n \in 0..(Len(Content(c, next[c])) - 1) :
                  SubSeq(Content(c, next[c]), 1, n) \in Contents
  <2>1. next[c] \in DOMAIN job[c].files
    BY <1>0, <1>9 DEF KindOK
  <2> QED BY <1>0, <1>2, <2>1, ContentFacts
<1>10. CASE WriteString(c)
  <2>1. /\ handler' = [handler EXCEPT ![c] = "files"] /\ handler[c] = "write"
        /\ next' = [next EXCEPT ![c] = next[c] + 1]
        /\ files' = [files EXCEPT ![Path(c)] =
                       Overwritten(files[Path(c)], Content(c, next[c]))]
        /\ answer' = answer
        /\ UNCHANGED <<job, caller, command, up>>
    BY <1>10 DEF WriteString, Goto
  <2>2. files' \in [DOMAIN files' -> Contents]
    BY <1>8, <1>9, <2>1
  <2> QED BY <1>0, <1>2, <1>3, <1>4, <2>1, <2>2, HandlerMoves
<1>11. CASE WriteStringFails(c)
  <2>1. /\ handler' = [handler EXCEPT ![c] = "error"] /\ handler[c] = "write"
        /\ next' = [next EXCEPT ![c] = next[c]]
        /\ \E n \in 0..(Len(Content(c, next[c])) - 1) :
             files' = [files EXCEPT ![Path(c)] =
                Overwritten(files[Path(c)], SubSeq(Content(c, next[c]), 1, n))]
        /\ answer' = answer
        /\ UNCHANGED <<job, caller, command, up>>
    BY <1>0, <1>11 DEF WriteStringFails, Goto
  <2>2. files' \in [DOMAIN files' -> Contents]
    BY <1>8, <1>9, <2>1
  <2> QED BY <1>0, <1>2, <1>3, <2>1, <2>2, HandlerMoves
<1> QED BY <1>2, <1>5, <1>6, <1>7, <1>10, <1>11

(* What a step of a download does. *)
LEMMA DownloadSteps ==
  ASSUME Core, NEW c \in DOMAIN job,
         BadQuery(c) \/ ReadFile(c) \/ DownloadDone(c)
  PROVE  /\ Kind(c) = "download" /\ Core'
<1>0. /\ Types /\ c \in Calls /\ next[c] \in Nat \ {0}
      /\ next = [next EXCEPT ![c] = next[c]]
      /\ files \in [DOMAIN files -> Contents]
      /\ answer \in [Calls -> Seq(Values)]
  BY JobFacts DEF Core, Types
<1>1. handler[c] = "paths"
  BY DEF BadQuery, ReadFile, DownloadDone, Goto
<1>2. Kind(c) = "download" /\ call[c] \notin {"idle", "ok"}
  BY <1>1, AtPlace
<1>3. /\ "paths" \in PlacesOf[Kind(c)] \ {"none"}
      /\ "ok" \in PlacesOf[Kind(c)] \ {"none"}
      /\ "error" \in PlacesOf[Kind(c)] \ {"none"}
  BY <1>2 DEF PlacesOf
<1>4. next[c] + 1 \in Nat \ {0}
  BY <1>0
<1>5. CASE ReadFile(c)
  <2> DEFINE p == downloadPath(filePaths(job[c].paths)[next[c]])
             read == IF p \in DOMAIN files THEN files[p] ELSE Unread
  <2>1. /\ handler' = [handler EXCEPT ![c] = "paths"]
        /\ next' = [next EXCEPT ![c] = next[c] + 1]
        /\ answer' = [answer EXCEPT ![c] = Append(answer[c], read)]
        /\ files' = files
        /\ UNCHANGED <<job, caller, command, up>>
    BY <1>5 DEF ReadFile, Goto
  <2>2. Unread \in Contents
    BY DEF Unread, Contents, Blocks
  <2>3. read \in Values
    BY <1>0, <2>2 DEF Values
  <2> HIDE DEF read
  <2>4. Append(answer[c], read) \in Seq(Values)
    BY <1>0, <2>3, AppendProperties
  <2>5. answer' \in [Calls -> Seq(Values)]
    BY <1>0, <2>1, <2>4
  <2> QED BY <1>0, <1>2, <1>3, <1>4, <2>1, <2>5, HandlerMoves
<1>6. CASE BadQuery(c) \/ DownloadDone(c)
  <2>1. PICK a \in {"ok", "error"} :
        /\ handler' = [handler EXCEPT ![c] = a]
        /\ next' = [next EXCEPT ![c] = next[c]]
        /\ answer' = answer /\ files' = files
        /\ UNCHANGED <<job, caller, command, up>>
    BY <1>0, <1>6 DEF BadQuery, DownloadDone, Goto
  <2> QED BY <1>0, <1>2, <1>3, <2>1, HandlerMoves
<1> QED BY <1>2, <1>5, <1>6

(* The pipes after a line was added to one of them, or taken out.          *)
LEMMA PipeWith ==
  ASSUME Types, NEW c \in Calls, NEW s \in Streams, NEW x \in Seq(Lines),
         pipe' = [pipe EXCEPT ![c] = [pipe[c] EXCEPT ![s] = x]],
         Len(x) <= PipeSize
  PROVE  /\ pipe' \in [Calls -> [Streams -> Seq(Lines)]]
         /\ \A d \in Calls, t \in Streams :
              pipe'[d][t] = IF d = c /\ t = s THEN x ELSE pipe[d][t]
         /\ \A d \in Calls, t \in Streams : Len(pipe'[d][t]) <= PipeSize
<1>1. /\ pipe \in [Calls -> [Streams -> Seq(Lines)]]
      /\ \A d \in Calls, t \in Streams : Len(pipe[d][t]) <= PipeSize
  BY DEF Types
<1>2. [pipe[c] EXCEPT ![s] = x] \in [Streams -> Seq(Lines)]
  BY <1>1
<1>3. \A d \in Calls, t \in Streams :
        pipe'[d][t] = IF d = c /\ t = s THEN x ELSE pipe[d][t]
  BY <1>1
<1> QED BY <1>1, <1>2, <1>3

LEMMA AppendToPipe ==
  ASSUME Types, NEW c \in Calls, NEW s \in Streams, NEW l \in Lines,
         Len(pipe[c][s]) < PipeSize
  PROVE  /\ Append(pipe[c][s], l) \in Seq(Lines)
         /\ Len(Append(pipe[c][s], l)) <= PipeSize
<1>1. pipe[c][s] \in Seq(Lines)
  BY DEF Types
<1>2. Len(pipe[c][s]) \in Nat /\ Len(Append(pipe[c][s], l)) = Len(pipe[c][s]) + 1
      /\ Append(pipe[c][s], l) \in Seq(Lines)
  BY <1>1, LenProperties, AppendProperties
<1> QED BY <1>2, PipeAssumption

LEMMA TailOfPipe ==
  ASSUME Types, NEW c \in Calls, NEW s \in Streams, pipe[c][s] # <<>>
  PROVE  /\ Head(pipe[c][s]) \in Lines
         /\ Tail(pipe[c][s]) \in Seq(Lines)
         /\ Len(Tail(pipe[c][s])) <= PipeSize
<1>1. pipe[c][s] \in Seq(Lines) /\ Len(pipe[c][s]) <= PipeSize
  BY DEF Types
<1>2. /\ Len(pipe[c][s]) \in Nat
      /\ Len(Tail(pipe[c][s])) = Len(pipe[c][s]) - 1
      /\ Head(pipe[c][s]) \in Lines /\ Tail(pipe[c][s]) \in Seq(Lines)
  BY <1>1, LenProperties, HeadTailProperties
<1> QED BY <1>1, <1>2, PipeAssumption

(* A step of a command, of its readers or of the handler that waits.       *)
LEMMA CommandMoves ==
  ASSUME Core, NEW c \in Commands,
         UNCHANGED <<job, caller, next, files, up>>,
         \/ handler' = handler
         \/ /\ call[c] \notin {"idle", "ok"}
            /\ \E a \in {"wait", "ok"} \cap PlacesOf[Kind(c)] :
                 handler' = [handler EXCEPT ![c] = a],
         answer' \in [Calls -> Seq(Values)],
         \/ proc' = proc /\ wrote' = wrote
         \/ /\ \E p \in {"running", "exited", "reaped"} : proc' = [proc EXCEPT ![c] = p]
            /\ \E n \in 0..Len(job[c].lines) : wrote' = [wrote EXCEPT ![c] = n],
         pipe' \in [Calls -> [Streams -> Seq(Lines)]],
         \A d \in Calls, t \in Streams : Len(pipe'[d][t]) <= PipeSize,
         scanning' \in [Calls -> SUBSET Streams],
         \E l \in {"none", "running", "exited", "killed"} :
           left' = [left EXCEPT ![c] = l]
  PROVE  Core'
<1>0. /\ Types /\ Kinds /\ c \in Calls /\ KindOK(c) /\ c \in DOMAIN job
      /\ \A d \in DOMAIN job : d \in Calls
      /\ Len(job[c].lines) \in Nat
      /\ Kind(c) \in {"run", "start"}
  BY JobFacts, CommandFacts DEF Core, Kinds, Commands
<1>1. PICK a \in HandlerStates :
        /\ handler' = [handler EXCEPT ![c] = a]
        /\ \/ a = handler[c]
           \/ /\ call[c] \notin {"idle", "ok"} /\ a # "write"
              /\ a \in PlacesOf[Kind(c)]
  BY <1>0 DEF Types, HandlerStates, Answers
<1>2. PICK p \in {"none", "running", "exited", "reaped"}, n \in 0..Len(job[c].lines) :
        /\ proc' = [proc EXCEPT ![c] = p] /\ wrote' = [wrote EXCEPT ![c] = n]
        /\ p # "none" \/ (p = proc[c] /\ n = wrote[c])
  <2>1. CASE proc' = proc /\ wrote' = wrote
    <3>1. wrote[c] \in 0..Len(job[c].lines)
      BY <1>0 DEF KindOK, Types
    <3> QED BY <1>0, <2>1, <3>1 DEF Types
  <2> QED BY <2>1
<1>4. n \in Nat
  BY <1>0
<1>5. Types'
  BY <1>0, <1>1, <1>2, <1>4 DEF Types, caller
<1>6. /\ handler'[c] = a /\ proc'[c] = p /\ wrote'[c] = n
      /\ call' = call /\ next' = next
  BY <1>0, <1>1, <1>2 DEF Types, caller
<1>7. KindOK(c)'
  <2>1. handler[c] = "none" => call[c] # "ok"
    BY <1>0 DEF KindOK
  <2>2. a \in PlacesOf[Kind(c)]
    BY <1>0, <1>1 DEF KindOK
  <2>3. n <= Len(job[c].lines)
    BY <1>0, <1>2
  <2> QED BY <1>0, <1>1, <1>2, <1>6, <2>1, <2>2, <2>3 DEF KindOK, Kind, Commands
<1>8. \A d \in DOMAIN job \ {c} :
        /\ call'[d] = call[d] /\ handler'[d] = handler[d] /\ next'[d] = next[d]
        /\ proc'[d] = proc[d] /\ wrote'[d] = wrote[d] /\ left'[d] = left[d]
  BY <1>0, <1>1, <1>2, <1>6 DEF Types
<1>9. Kinds'
  BY <1>0, <1>7, <1>8, KindsFrame
<1> QED BY <1>5, <1>9 DEF Core

LEMMA CommandSteps ==
  ASSUME Core, NEW c \in DOMAIN job,
         \/ Run(c) \/ Command(c) \/ ChildPrintsAndExits(c) \/ ChildIsKilled(c)
         \/ \E s \in Streams : Scan(c, s)
  PROVE  c \in Commands /\ Core'
<1>0. /\ Types /\ Kinds /\ c \in Calls /\ KindOK(c)
      /\ next[c] \in Nat \ {0} /\ next = [next EXCEPT ![c] = next[c]]
      /\ wrote = [wrote EXCEPT ![c] = wrote[c]] /\ wrote[c] \in Nat
      /\ proc = [proc EXCEPT ![c] = proc[c]]
      /\ proc[c] \in {"none", "running", "exited", "reaped"}
      /\ answer \in [Calls -> Seq(Values)]
      /\ files \in [DOMAIN files -> Contents]
      /\ pipe \in [Calls -> [Streams -> Seq(Lines)]]
      /\ \A d \in Calls, t \in Streams : Len(pipe[d][t]) <= PipeSize
      /\ scanning \in [Calls -> SUBSET Streams]
      /\ left \in [Calls -> {"none", "running", "exited", "killed"}]
      /\ left = [left EXCEPT ![c] = left[c]]
      /\ left[c] \in {"none", "running", "exited", "killed"}
  BY JobFacts DEF Core, Types, Kinds
<1>1. c \in Commands
  <2>1. proc[c] # "none" \/ left[c] # "none" \/ handler[c] \in {"exec", "wait"}
    BY DEF Run, Command, ChildPrintsAndExits, ChildIsKilled, Scan, StartCommand,
       StartCommandFails, CombinedOutput, CopyOutput, Wait, WriteLine, Exit, Goto
  <2>2. Kind(c) \in {"run", "start"} => c \in Commands
    BY DEF Commands
  <2> QED BY <1>0, <2>1, <2>2, AtPlace DEF KindOK
<1>2. /\ Len(job[c].lines) \in Nat /\ wrote[c] \in 0..Len(job[c].lines)
      /\ \A k \in 1..Len(job[c].lines) : job[c].lines[k] \in Lines
      /\ Kind(c) \in {"run", "start"}
      /\ {"ok", "commandError"} \subseteq PlacesOf[Kind(c)] \ {"none"}
      /\ Blocking(c) => "wait" \in PlacesOf[Kind(c)]
  BY <1>0, <1>1, CommandFacts DEF KindOK, Commands, PlacesOf, Blocking, Kind
<1>3. handler[c] \in {"exec", "wait"} => call[c] \notin {"idle", "ok"}
  BY AtPlace
<1>4. CASE StartCommand(c)
  <2>1. /\ UNCHANGED <<job, caller, next, answer, files, wrote, pipe, scanning, left, up>>
        /\ handler[c] = "exec" /\ proc' = [proc EXCEPT ![c] = "running"]
        /\ handler' = [handler EXCEPT ![c] = IF Blocking(c) THEN "wait" ELSE "ok"]
    BY <1>4 DEF StartCommand, Goto
  <2>2. \E a \in {"wait", "ok"} \cap PlacesOf[Kind(c)] :
          handler' = [handler EXCEPT ![c] = a]
    BY <1>2, <2>1
  <2> QED BY <1>0, <1>1, <1>2, <1>3, <2>1, <2>2, CommandMoves
<1>5. CASE StartCommandFails(c)
  <2>1. /\ UNCHANGED <<job, caller, command, up>> /\ answer' = answer /\ files' = files
        /\ handler[c] = "exec" /\ handler' = [handler EXCEPT ![c] = "commandError"]
        /\ next' = [next EXCEPT ![c] = next[c]]
    BY <1>0, <1>5 DEF StartCommandFails, Goto
  <2> QED BY <1>0, <1>1, <1>2, <1>3, <2>1, HandlerMoves
<1>6. CASE CombinedOutput(c)
  <2>1. /\ UNCHANGED <<job, caller, next, answer, files, wrote, pipe, scanning, left, up>>
        /\ handler[c] = "wait" /\ proc' = [proc EXCEPT ![c] = "exited"]
        /\ handler' = [handler EXCEPT ![c] = "ok"]
    BY <1>0, <1>6 DEF CombinedOutput, Goto, command
  <2> QED BY <1>0, <1>1, <1>2, <1>3, <2>1, CommandMoves
<1>7. CASE CopyOutput(c)
  <2>1. /\ UNCHANGED <<job, caller, handler, next, files, proc, wrote, scanning, left, up>>
        /\ handler[c] = "wait" /\ pipe[c]["stdout"] # <<>>
        /\ answer' = [answer EXCEPT ![c] = Append(answer[c], Head(pipe[c]["stdout"]))]
        /\ pipe' = [pipe EXCEPT ![c] = [pipe[c] EXCEPT !["stdout"] = Tail(pipe[c]["stdout"])]]
    BY <1>7 DEF CopyOutput
  <2>2. "stdout" \in Streams
    BY DEF Streams
  <2>3. /\ Head(pipe[c]["stdout"]) \in Values
        /\ Tail(pipe[c]["stdout"]) \in Seq(Lines)
        /\ Len(Tail(pipe[c]["stdout"])) <= PipeSize
    BY <1>0, <2>1, <2>2, TailOfPipe DEF Values
  <2>4. answer' \in [Calls -> Seq(Values)]
    BY <1>0, <2>1, <2>3, AppendProperties
  <2>5. /\ pipe' \in [Calls -> [Streams -> Seq(Lines)]]
        /\ \A d \in Calls, t \in Streams : Len(pipe'[d][t]) <= PipeSize
    BY <1>0, <2>1, <2>2, <2>3, PipeWith
  <2> QED BY <1>0, <1>1, <1>2, <2>1, <2>4, <2>5, CommandMoves
<1>8. CASE Wait(c)
  <2>1. /\ UNCHANGED <<job, caller, handler, next, answer, files, wrote, left, up>>
        /\ proc' = [proc EXCEPT ![c] = "reaped"]
        /\ pipe' = [pipe EXCEPT ![c] = [s \in Streams |-> <<>>]]
        /\ scanning' = [scanning EXCEPT ![c] = {}]
    BY <1>8 DEF Wait
  <2>2. <<>> \in Seq(Lines) /\ Len(<<>>) = 0
    BY EmptySeq
  <2>3. pipe' \in [Calls -> [Streams -> Seq(Lines)]]
    BY <1>0, <2>1, <2>2
  <2>4. \A d \in Calls, t \in Streams : Len(pipe'[d][t]) <= PipeSize
    BY <1>0, <2>1, <2>2, PipeAssumption
  <2> QED BY <1>0, <1>1, <1>2, <2>1, <2>3, <2>4, CommandMoves
<1>9. CASE WriteLine(c)
  <2>1. /\ UNCHANGED <<job, caller, handler, next, answer, files, proc, scanning, left, up>>
        /\ proc[c] = "running" /\ wrote[c] < Len(job[c].lines)
        /\ wrote' = [wrote EXCEPT ![c] = wrote[c] + 1]
    BY <1>9 DEF WriteLine
  <2>2. job[c].lines[wrote[c] + 1] \in Lines /\ wrote[c] + 1 \in 0..Len(job[c].lines)
    BY <1>2, <2>1
  <2>3. PICK s \in Streams :
          /\ Len(pipe[c][s]) < PipeSize
          /\ pipe' = [pipe EXCEPT ![c] = [pipe[c] EXCEPT ![s] =
                        Append(pipe[c][s], job[c].lines[wrote[c] + 1])]]
    <3>1. Into(c, job[c].lines[wrote[c] + 1]) \in Streams
      BY <2>2 DEF Into, Streams, Lines
    <3> QED BY <1>9, <3>1 DEF WriteLine
  <2>4. /\ pipe' \in [Calls -> [Streams -> Seq(Lines)]]
        /\ \A d \in Calls, t \in Streams : Len(pipe'[d][t]) <= PipeSize
    BY <1>0, <2>2, <2>3, AppendToPipe, PipeWith
  <2> QED BY <1>0, <1>1, <1>2, <2>1, <2>2, <2>4, CommandMoves
<1>10. CASE Exit(c)
  <2>1. /\ UNCHANGED <<job, caller, handler, next, answer, files, wrote, pipe, scanning, up>>
        /\ proc' = [proc EXCEPT ![c] = "exited"]
        /\ left' = [left EXCEPT ![c] = IF job[c].child THEN "running" ELSE left[c]]
    BY <1>10 DEF Exit
  <2> QED BY <1>0, <1>1, <1>2, <2>1, CommandMoves
<1>11. CASE ChildPrintsAndExits(c)
  <2>1. /\ UNCHANGED <<job, caller, handler, next, answer, files, proc, wrote, scanning, up>>
        /\ Len(pipe[c]["stdout"]) < PipeSize
        /\ pipe' = [pipe EXCEPT ![c] = [pipe[c] EXCEPT !["stdout"] =
                      Append(pipe[c]["stdout"], ChildLine)]]
        /\ left' = [left EXCEPT ![c] = "exited"]
    BY <1>11 DEF ChildPrintsAndExits
  <2>2. "stdout" \in Streams /\ ChildLine \in Lines
    BY DEF Streams, ChildLine, Lines
  <2>3. /\ pipe' \in [Calls -> [Streams -> Seq(Lines)]]
        /\ \A d \in Calls, t \in Streams : Len(pipe'[d][t]) <= PipeSize
    BY <1>0, <2>1, <2>2, AppendToPipe, PipeWith
  <2> QED BY <1>0, <1>1, <1>2, <2>1, <2>3, CommandMoves
<1>12. CASE ChildIsKilled(c)
  <2>1. /\ UNCHANGED <<job, caller, handler, next, answer, files, proc, wrote, pipe, scanning, up>>
        /\ proc[c] = "reaped" /\ left' = [left EXCEPT ![c] = "killed"]
    BY <1>12 DEF ChildIsKilled
  <2> QED BY <1>0, <1>1, <1>2, <2>1, CommandMoves
<1>13. ASSUME NEW s \in Streams, Scan(c, s) PROVE Core'
  <2>1. /\ UNCHANGED <<job, caller, handler, next, answer, files, proc, wrote, left, up>>
        /\ proc[c] # "none" /\ pipe[c][s] # <<>>
        /\ pipe' = [pipe EXCEPT ![c] = [pipe[c] EXCEPT ![s] = Tail(pipe[c][s])]]
        /\ \/ scanning' = [scanning EXCEPT ![c] = scanning[c] \ {s}]
           \/ scanning' = [scanning EXCEPT ![c] = scanning[c]]
    BY <1>13 DEF Scan
  <2>2. /\ pipe' \in [Calls -> [Streams -> Seq(Lines)]]
        /\ \A d \in Calls, t \in Streams : Len(pipe'[d][t]) <= PipeSize
    BY <1>0, <2>1, TailOfPipe, PipeWith
  <2>3. scanning' \in [Calls -> SUBSET Streams]
    BY <1>0, <2>1
  <2> QED BY <1>0, <1>1, <1>2, <2>1, <2>2, <2>3, CommandMoves
<1> QED BY <1>1, <1>4, <1>5, <1>6, <1>7, <1>8, <1>9, <1>10, <1>11, <1>12, <1>13
        DEF Run, Command

LEMMA InitCore == Init => Core
<1> SUFFICES ASSUME Init PROVE Core
  OBVIOUS
<1>0. DOMAIN job \subseteq Calls
  BY JobsAssumption DEF Init
<1>1. <<>> \in Seq(Values) /\ <<>> \in Seq(Lines) /\ Len(<<>>) = 0
  BY EmptySeq
<1>2. files \in [DOMAIN files -> Contents]
  <2>1. Seq(STRING) \subseteq Contents
    BY SeqMonotonic DEF Contents, Blocks
  <2> QED BY <2>1, OldAssumption DEF Init
<1>3. Types
  BY <1>1, <1>2, PipeAssumption
     DEF Init, Types, CallStates, HandlerStates, Answers, Streams
<1>4. ASSUME NEW c \in DOMAIN job PROVE KindOK(c)
  <2>1. Kind(c) \in {"upload", "download", "run", "start"} /\ c \in Calls
    BY <1>0, <1>3, KindsApart
  <2>2. "none" \in PlacesOf[Kind(c)]
    BY <2>1 DEF PlacesOf
  <2>3. c \in Commands => Len(job[c].lines) \in Nat
    BY <1>3, CommandFacts
  <2> QED BY <2>1, <2>2, <2>3 DEF Init, KindOK
<1> QED BY <1>3, <1>4 DEF Core, Kinds

LEMMA CoreUnchanged ==
  ASSUME Core, UNCHANGED <<job, caller, handler, next, answer, files, command>>,
         up' \in BOOLEAN
  PROVE  Core'
BY DEF Core, Types, Kinds, KindOK, Kind, Commands, caller, command

LEMMA CoreStep == Core /\ [Next]_vars => Core'
<1> SUFFICES ASSUME Core, [Next]_vars PROVE Core'
  OBVIOUS
<1>1. ASSUME NEW c \in DOMAIN job, Files(c) PROVE Core'
  BY <1>1, UploadSteps, DownloadSteps DEF Files
<1>2. CASE GuestStops
  BY <1>2, CoreUnchanged DEF GuestStops
<1>3. CASE UNCHANGED vars
  BY <1>3, CoreUnchanged DEF vars, Core, Types
<1> QED BY <1>1, <1>2, <1>3, CallerCore, CommandSteps DEF Next

LEMMA CoreAlways == Spec => []Core
BY InitCore, CoreStep, PTL DEF Spec

(* Every variable stays in its type; only a command has processes, and     *)
(* only a file with a name is written.                                     *)
THEOREM CmdTypeCorrect == Spec => []CmdTypeOK
BY CoreAlways, CoreImplies, PTL

-----------------------------------------------------------------------------
(* The files of the uploads                                                *)

(* What an upload's i-th file holds, as far as the upload got. *)
FileOK(c, i) ==
  /\ i < next[c] => Holds(c, i)
  /\ i = next[c] /\ handler[c] = "write" => files[PathOf(c, i)] = <<>>
  /\ i > next[c] => IF PathOf(c, i) \in DOMAIN Old
                    THEN files[PathOf(c, i)] = Old[PathOf(c, i)]
                    ELSE PathOf(c, i) \notin DOMAIN files

Named(c, i) == OnlyWriter(c, i) /\ job[c].files[i].path # Empty

Written ==
  /\ DOMAIN Old \subseteq DOMAIN files
  /\ \A c \in Uploads :
       /\ handler[c] = "write" => Path(c) \in DOMAIN files
       /\ handler[c] = "ok" => next[c] = Len(job[c].files) + 1
       /\ \A i \in DOMAIN job[c].files : Named(c, i) => FileOK(c, i)

LEMMA SameJob ==
  ASSUME job' = job
  PROVE  /\ Uploads' = Uploads /\ Commands' = Commands
         /\ \A c : Kind(c)' = Kind(c)
         /\ \A c, i : /\ Named(c, i)' <=> Named(c, i)
                      /\ PathOf(c, i)' = PathOf(c, i)
                      /\ Content(c, i)' = Content(c, i)
BY DEF Uploads, Commands, Kind, Named, OnlyWriter, PathOf, Content, uploadPath

(* Steps that write no file and take no upload further. *)
LEMMA WrittenFrame ==
  ASSUME Written, job' = job, files' = files,
         \A c \in Uploads :
           /\ next'[c] = next[c]
           /\ handler'[c] \in {"write", "ok"} => handler'[c] = handler[c]
  PROVE  Written'
<1>1. ASSUME NEW c \in Uploads, NEW i \in DOMAIN job[c].files, FileOK(c, i)
      PROVE  FileOK(c, i)'
  <2>1. PathOf(c, i)' = PathOf(c, i) /\ Content(c, i)' = Content(c, i)
    BY SameJob
  <2>2. next'[c] = next[c] /\ (handler'[c] = "write" => handler[c] = "write")
    OBVIOUS
  <2> QED BY <1>1, <2>1, <2>2 DEF FileOK, Holds
<1>2. \A c \in Uploads : Path(c)' = Path(c)
  BY DEF Path, uploadPath
<1> QED BY <1>1, <1>2, SameJob DEF Written

(* Steps of c that write at most its next file. *)
LEMMA WrittenMoves ==
  ASSUME Core, Written, NEW c \in Uploads, UNCHANGED <<job>>,
         NEW a, NEW n \in {next[c], next[c] + 1},
         handler' = [handler EXCEPT ![c] = a],
         next' = [next EXCEPT ![c] = n],
         DOMAIN files \subseteq DOMAIN files',
         files' = files \/ next[c] \in DOMAIN job[c].files,
         \A p \in DOMAIN files' : files' # files /\ p # Path(c) =>
           p \in DOMAIN files /\ files'[p] = files[p],
         a = "write" => n = next[c] /\ Path(c) \in DOMAIN files',
         a = "ok" => n = Len(job[c].files) + 1,
         \A i \in DOMAIN job[c].files : i = next[c] /\ Named(c, i) => FileOK(c, i)'
  PROVE  Written'
<1>0. /\ c \in Calls /\ \A d \in Uploads : d \in Calls
      /\ next \in [Calls -> Nat \ {0}] /\ handler \in [Calls -> HandlerStates]
      /\ \A d \in Uploads : /\ DOMAIN job[d].files = 1..Len(job[d].files)
                            /\ Len(job[d].files) \in Nat
  BY UploadFacts DEF Core, Types
<1>1. DOMAIN Old \subseteq DOMAIN files'
  BY DEF Written
<1>2. ASSUME NEW d \in Uploads, NEW i \in DOMAIN job[d].files, Named(d, i),
             <<d, i>> # <<c, next[c]>>
      PROVE  FileOK(d, i)'
  <2>1. files' # files => PathOf(d, i) # Path(c)
    <3>1. next[c] \in DOMAIN job[c].files =>
            PathOf(c, next[c]) # PathOf(d, i)
      BY <1>2 DEF Named, OnlyWriter
    <3>2. Path(c) = PathOf(c, next[c])
      BY DEF Path, PathOf
    <3> QED BY <3>1, <3>2
  <2>2. /\ PathOf(d, i) \in DOMAIN files' <=> PathOf(d, i) \in DOMAIN files
        /\ PathOf(d, i) \in DOMAIN files =>
             files'[PathOf(d, i)] = files[PathOf(d, i)]
    BY <2>1
  <2>3. /\ FileOK(d, i) /\ DOMAIN Old \subseteq DOMAIN files
        /\ i = next[d] /\ handler[d] = "write" => PathOf(d, i) \in DOMAIN files
    BY <1>2 DEF Written, Path, PathOf
  <2>4. /\ i < next'[d] => i < next[d]
        /\ i > next'[d] => i > next[d]
        /\ ~(i = next'[d] /\ handler'[d] = "write" /\ ~(i = next[d] /\ handler[d] = "write"))
    <3>1. CASE d = c
      <4>1. i # next[c] /\ i \in Nat /\ next[c] \in Nat
        BY <1>0, <1>2, <3>1
      <4> QED BY <1>0, <3>1, <4>1
    <3>2. CASE d # c
      BY <1>0, <3>2
    <3> QED BY <3>1, <3>2
  <2> QED BY <2>2, <2>3, <2>4, SameJob DEF FileOK, Holds
<1>3. ASSUME NEW d \in Uploads
      PROVE  /\ handler'[d] = "write" => Path(d)' \in DOMAIN files'
             /\ handler'[d] = "ok" => next'[d] = Len(job[d].files) + 1
  <2>1. CASE d = c
    <3>1. a = "write" => Path(c)' = Path(c)
      BY <1>0 DEF Path, uploadPath
    <3> QED BY <1>0, <2>1, <3>1
  <2>2. CASE d # c
    <3>1. handler'[d] = handler[d] /\ next'[d] = next[d]
      BY <1>0, <2>2
    <3>2. Path(d)' = Path(d)
      BY <3>1 DEF Path, uploadPath
    <3> QED BY <3>1, <3>2 DEF Written
  <2> QED BY <2>1, <2>2
<1>4. \A d \in Uploads : \A i \in DOMAIN job[d].files :
        Named(d, i) => FileOK(d, i)'
  <2> SUFFICES ASSUME NEW d \in Uploads, NEW i \in DOMAIN job[d].files, Named(d, i)
               PROVE  FileOK(d, i)'
    OBVIOUS
  <2>1. CASE d = c /\ i = next[c]
    BY <2>1
  <2>2. CASE <<d, i>> # <<c, next[c]>>
    BY <1>2, <2>2
  <2> QED BY <2>1, <2>2
<1> QED BY <1>1, <1>3, <1>4, SameJob DEF Written

(* A step of an upload. *)
LEMMA UploadWritten ==
  ASSUME Core, Written, NEW c \in DOMAIN job,
         SkipFile(c) \/ CreateFile(c) \/ CreateFileFails(c)
           \/ WriteString(c) \/ WriteStringFails(c) \/ UploadDone(c)
  PROVE  Written'
<1>0. /\ c \in Uploads /\ c \in Calls /\ KindOK(c)
      /\ next[c] \in Nat \ {0} /\ next = [next EXCEPT ![c] = next[c]]
      /\ handler \in [Calls -> HandlerStates] /\ next \in [Calls -> Nat \ {0}]
      /\ files \in [DOMAIN files -> Contents]
  BY UploadSteps, JobFacts DEF Core, Types, Kinds
<1>1. CASE SkipFile(c)
  <2>1. /\ handler' = [handler EXCEPT ![c] = "files"]
        /\ next' = [next EXCEPT ![c] = next[c] + 1]
        /\ files' = files /\ job' = job
        /\ job[c].files[next[c]].path = Empty
    BY <1>1 DEF SkipFile, Goto
  <2>2. \A i \in DOMAIN job[c].files : i = next[c] /\ Named(c, i) => FileOK(c, i)'
    BY <2>1 DEF Named
  <2> QED BY <1>0, <2>1, <2>2, WrittenMoves
<1>2. CASE CreateFile(c)
  <2>1. /\ handler' = [handler EXCEPT ![c] = "write"]
        /\ next' = [next EXCEPT ![c] = next[c]]
        /\ next[c] \in DOMAIN job[c].files /\ job' = job
        /\ files' = [q \in DOMAIN files \cup {Path(c)} |->
                       IF q = Path(c) THEN <<>> ELSE files[q]]
    BY <1>0, <1>2 DEF CreateFile, Goto, WithFile
  <2>2. files'[Path(c)] = <<>> /\ DOMAIN files' = DOMAIN files \cup {Path(c)}
    BY <2>1
  <2>3. \A p \in DOMAIN files' : p # Path(c) =>
          p \in DOMAIN files /\ files'[p] = files[p]
    BY <2>1
  <2>4. \A i \in DOMAIN job[c].files : i = next[c] /\ Named(c, i) => FileOK(c, i)'
    <3> SUFFICES ASSUME NEW i \in DOMAIN job[c].files, i = next[c]
                 PROVE  FileOK(c, i)'
      OBVIOUS
    <3>1. PathOf(c, i)' = Path(c)
      BY <2>1 DEF PathOf, Path
    <3>2. next'[c] = i
      BY <1>0, <2>1
    <3> QED BY <1>0, <2>2, <3>1, <3>2 DEF FileOK
  <2> QED BY <1>0, <2>1, <2>2, <2>3, <2>4, WrittenMoves
<1>3. CASE CreateFileFails(c) \/ UploadDone(c)
  <2>1. PICK a \in {"error", "ok"} :
          /\ handler' = [handler EXCEPT ![c] = a]
          /\ a = "ok" => next[c] = Len(job[c].files) + 1
    BY <1>3 DEF CreateFileFails, UploadDone, Goto
  <2>2. next' = [next EXCEPT ![c] = next[c]] /\ files' = files /\ job' = job
        /\ handler[c] = "files" /\ next' = next
    BY <1>0, <1>3 DEF CreateFileFails, UploadDone, Goto
  <2>3. handler'[c] # "write"
    BY <1>0, <2>1
  <2>4. ASSUME NEW i \in DOMAIN job[c].files, Named(c, i)
        PROVE  FileOK(c, i)'
    <3>1. FileOK(c, i)
      BY <1>0, <2>4 DEF Written
    <3>2. PathOf(c, i)' = PathOf(c, i) /\ Content(c, i)' = Content(c, i)
      BY <2>2, SameJob
    <3> QED BY <2>2, <2>3, <3>1, <3>2 DEF FileOK, Holds
  <2> QED BY <1>0, <2>1, <2>2, <2>4, WrittenMoves
<1>4. CASE WriteString(c)
  <2>1. /\ handler' = [handler EXCEPT ![c] = "files"] /\ handler[c] = "write"
        /\ next' = [next EXCEPT ![c] = next[c] + 1]
        /\ files' = [files EXCEPT ![Path(c)] =
                       Overwritten(files[Path(c)], Content(c, next[c]))]
        /\ job' = job
    BY <1>4 DEF WriteString, Goto
  <2>2. next[c] \in DOMAIN job[c].files /\ Path(c) \in DOMAIN files
        /\ DOMAIN files' = DOMAIN files
    BY <1>0, <2>1 DEF KindOK, Written
  <2>3. \A p \in DOMAIN files' : p # Path(c) =>
          p \in DOMAIN files /\ files'[p] = files[p]
    BY <2>1
  <2>4. ASSUME NEW i \in DOMAIN job[c].files, i = next[c], Named(c, i)
        PROVE  FileOK(c, i)'
    <3>1. files[Path(c)] = <<>>
      <4>1. FileOK(c, i) /\ PathOf(c, i) = Path(c)
        BY <1>0, <2>4 DEF Written, PathOf, Path
      <4> QED BY <2>1, <2>4, <4>1 DEF FileOK
    <3>2. /\ Content(c, next[c]) \in Contents /\ <<>> \in Contents
          /\ Len(<<>>) <= Len(Content(c, next[c]))
      BY <1>0, <2>2, ContentFacts, EmptySeq DEF Core, Contents
    <3>3. Overwritten(files[Path(c)], Content(c, next[c])) = Content(c, next[c])
      BY <3>1, <3>2, OverwrittenFacts
    <3>4. /\ PathOf(c, i)' = Path(c) /\ Content(c, i)' = Content(c, next[c])
          /\ next'[c] = i + 1 /\ i \in Nat
      BY <1>0, <2>1, <2>4 DEF PathOf, Path, Content
    <3> QED BY <1>0, <2>1, <2>2, <3>3, <3>4 DEF FileOK, Holds
  <2> QED BY <1>0, <2>1, <2>2, <2>3, <2>4, WrittenMoves
<1>5. CASE WriteStringFails(c)
  <2>1. /\ handler' = [handler EXCEPT ![c] = "error"] /\ handler[c] = "write"
        /\ next' = [next EXCEPT ![c] = next[c]] /\ job' = job
    BY <1>0, <1>5 DEF WriteStringFails, Goto
  <2>2. \E x : files' = [files EXCEPT ![Path(c)] = x]
    BY <1>5 DEF WriteStringFails
  <2>3. /\ next[c] \in DOMAIN job[c].files /\ DOMAIN files' = DOMAIN files
        /\ \A p \in DOMAIN files' : p # Path(c) =>
             p \in DOMAIN files /\ files'[p] = files[p]
    BY <1>0, <2>1, <2>2 DEF KindOK
  <2>4. ASSUME NEW i \in DOMAIN job[c].files, i = next[c]
        PROVE  FileOK(c, i)'
    <3>1. next'[c] = i /\ i \in Nat /\ handler'[c] # "write"
      BY <1>0, <2>1, <2>4
    <3> QED BY <3>1 DEF FileOK
  <2> QED BY <1>0, <2>1, <2>3, <2>4, WrittenMoves
<1> QED BY <1>1, <1>2, <1>3, <1>4, <1>5

(* What steps of the callers do. *)
LEMMA CallerSteps ==
  ASSUME Core, NEW c \in DOMAIN job,
         Send(c) \/ SendFails(c) \/ Answered(c) \/ GivesUp(c)
  PROVE  /\ job' = job /\ files' = files /\ next' = next /\ answer' = answer
         /\ proc' = proc /\ wrote' = wrote /\ pipe' = pipe /\ left' = left
         /\ \A d \in Calls : d # c => handler'[d] = handler[d] /\ seen'[d] = seen[d]
         /\ \A d \in Calls : call[d] = "ok" => call'[d] = "ok"
         /\ \/ handler'[c] = handler[c] /\ seen'[c] = seen[c]
            \/ /\ handler[c] = "none" /\ handler'[c] = FirstStep[Kind(c)]
               /\ seen'[c] = {d \in Calls : call[d] = "ok"}
<1>1. /\ c \in Calls /\ handler \in [Calls -> HandlerStates]
      /\ seen \in [Calls -> SUBSET Calls] /\ call \in [Calls -> CallStates]
      /\ KindOK(c)
  BY JobFacts DEF Core, Types, Kinds
<1> QED BY <1>1 DEF Send, SendFails, Answered, GivesUp, KindOK, Kind, command

(* What a step of a command leaves alone. *)
LEMMA CommandLeaves ==
  ASSUME Core, NEW c \in DOMAIN job,
         \/ Run(c) \/ Command(c) \/ ChildPrintsAndExits(c) \/ ChildIsKilled(c)
         \/ \E s \in Streams : Scan(c, s)
  PROVE  /\ c \in Commands /\ job' = job /\ files' = files /\ next' = next
         /\ call' = call /\ seen' = seen
         /\ \A d \in Calls : d # c =>
              /\ handler'[d] = handler[d] /\ answer'[d] = answer[d]
              /\ proc'[d] = proc[d] /\ wrote'[d] = wrote[d]
              /\ pipe'[d] = pipe[d] /\ left'[d] = left[d]
<1>1. c \in Commands
  BY CommandSteps
<1>2. /\ c \in Calls /\ handler \in [Calls -> HandlerStates]
      /\ answer \in [Calls -> Seq(Values)]
      /\ proc \in [Calls -> {"none", "running", "exited", "reaped"}]
      /\ wrote \in [Calls -> Nat]
      /\ pipe \in [Calls -> [Streams -> Seq(Lines)]]
      /\ left \in [Calls -> {"none", "running", "exited", "killed"}]
  BY JobFacts DEF Core, Types
<1>3. /\ job' = job /\ files' = files /\ next' = next /\ call' = call /\ seen' = seen
  BY DEF Run, Command, ChildPrintsAndExits, ChildIsKilled, Scan, StartCommand,
     StartCommandFails, CombinedOutput, CopyOutput, Wait, WriteLine, Exit, caller
<1>4. ASSUME NEW d \in Calls, d # c
      PROVE  /\ handler'[d] = handler[d] /\ answer'[d] = answer[d]
             /\ proc'[d] = proc[d] /\ wrote'[d] = wrote[d]
             /\ pipe'[d] = pipe[d] /\ left'[d] = left[d]
  BY <1>2, <1>4 DEF Run, Command, ChildPrintsAndExits, ChildIsKilled, Scan,
     StartCommand, StartCommandFails, CombinedOutput, CopyOutput, Wait, WriteLine,
     Exit, Goto, command
<1> QED BY <1>1, <1>3, <1>4

(* What a step of an upload or a download leaves alone. *)
LEMMA FilesLeave ==
  ASSUME Core, NEW c \in DOMAIN job, Files(c)
  PROVE  /\ job' = job /\ call' = call /\ seen' = seen
         /\ proc' = proc /\ wrote' = wrote /\ pipe' = pipe /\ left' = left
         /\ Kind(c) \in {"upload", "download"}
         /\ \A d \in Calls : d # c =>
              handler'[d] = handler[d] /\ next'[d] = next[d] /\ answer'[d] = answer[d]
<1>1. /\ c \in Calls /\ handler \in [Calls -> HandlerStates]
      /\ next \in [Calls -> Nat \ {0}] /\ answer \in [Calls -> Seq(Values)]
  BY JobFacts DEF Core, Types
<1>2. Kind(c) \in {"upload", "download"}
  BY UploadSteps, DownloadSteps DEF Files, Uploads
<1> QED BY <1>1, <1>2 DEF Files, SkipFile, CreateFile, CreateFileFails, WriteString,
     WriteStringFails, UploadDone, BadQuery, ReadFile, DownloadDone, Goto, caller,
     command

LEMMA WrittenStep == Core /\ Written /\ [Next]_vars => Written'
<1> SUFFICES ASSUME Core, Written, [Next]_vars PROVE Written'
  OBVIOUS
<1>0. /\ \A d \in Uploads : d \in Calls /\ d \in DOMAIN job /\ Kind(d) = "upload"
      /\ handler \in [Calls -> HandlerStates] /\ next \in [Calls -> Nat \ {0}]
  BY UploadFacts DEF Core, Types, Uploads
<1>1. ASSUME NEW c \in DOMAIN job,
             Send(c) \/ SendFails(c) \/ Answered(c) \/ GivesUp(c)
      PROVE  Written'
  <2>1. FirstStep[Kind(c)] \notin {"write", "ok"}
    BY KindsApart DEF FirstStep, Core
  <2> QED BY <1>0, <1>1, <2>1, CallerSteps, WrittenFrame
<1>2. ASSUME NEW c \in DOMAIN job, BadQuery(c) \/ ReadFile(c) \/ DownloadDone(c)
      PROVE  Written'
  <2>1. job' = job /\ files' = files
    BY <1>2 DEF BadQuery, ReadFile, DownloadDone
  <2>2. Kind(c) = "download" /\ Files(c)
    BY <1>2, DownloadSteps DEF Files
  <2> QED BY <1>0, <2>1, <2>2, FilesLeave, WrittenFrame
<1>3. ASSUME NEW c \in DOMAIN job,
             \/ Run(c) \/ Command(c) \/ ChildPrintsAndExits(c) \/ ChildIsKilled(c)
             \/ \E s \in Streams : Scan(c, s)
      PROVE  Written'
  <2>1. \A d \in Uploads : d # c
    BY <1>0, <1>3, CommandLeaves DEF Commands
  <2> QED BY <1>0, <1>3, <2>1, CommandLeaves, WrittenFrame
<1>4. CASE GuestStops \/ UNCHANGED vars
  BY <1>4, WrittenFrame DEF GuestStops, vars
<1> QED BY <1>1, <1>2, <1>3, <1>4, UploadWritten DEF Next, Files

LEMMA InitWritten == Init => Written
<1> SUFFICES ASSUME Init PROVE Written
  OBVIOUS
<1>1. /\ Types
      /\ \A c \in Uploads : /\ c \in Calls
                            /\ DOMAIN job[c].files = 1..Len(job[c].files)
                            /\ Len(job[c].files) \in Nat
  BY InitCore, UploadFacts DEF Core
<1> QED BY <1>1 DEF Init, Written, FileOK

LEMMA WrittenAlways == Spec => [](Core /\ Written)
BY InitCore, InitWritten, CoreStep, WrittenStep, PTL DEF Spec

(* An upload that was answered left its files as they were sent.           *)
LEMMA UploadHolds ==
  ASSUME Core, Written, NEW c \in Uploads, NEW i \in DOMAIN job[c].files,
         Named(c, i), i < next[c] \/ call[c] = "ok"
  PROVE  Holds(c, i)
<1>1. FileOK(c, i) /\ KindOK(c)
  BY UploadFacts DEF Core, Kinds, Written
<1>2. i < next[c]
  <2>1. call[c] = "ok" => next[c] = Len(job[c].files) + 1
    BY <1>1 DEF KindOK, Written
  <2>2. i \in 1..Len(job[c].files) /\ Len(job[c].files) \in Nat
    BY UploadFacts DEF Core
  <2> QED BY <2>1, <2>2
<1> QED BY <1>1, <1>2 DEF FileOK

(* Beside any other calls, and whether or not its caller is still there,   *)
(* an upload writes its files in order, each whole and with nothing of     *)
(* what was there, and does not touch those behind one that failed         *)
(* (cmdserver/main.go:42-69).                                              *)
THEOREM UploadsAlwaysInOrder == Spec => []UploadsInOrder
<1>1. ASSUME Core, Written PROVE UploadsInOrder
  <2> SUFFICES ASSUME NEW c \in Uploads, NEW i \in DOMAIN job[c].files,
                      OnlyWriter(c, i), job[c].files[i].path # Empty
               PROVE  /\ i < next[c] \/ call[c] = "ok" => Holds(c, i)
                      /\ i > next[c] =>
                           IF PathOf(c, i) \in DOMAIN Old
                           THEN files[PathOf(c, i)] = Old[PathOf(c, i)]
                           ELSE PathOf(c, i) \notin DOMAIN files
    BY DEF UploadsInOrder
  <2>1. Named(c, i) /\ FileOK(c, i)
    BY <1>1 DEF Named, Written
  <2> QED BY <1>1, <2>1, UploadHolds DEF FileOK
<1> QED BY <1>1, WrittenAlways, PTL

-----------------------------------------------------------------------------
(* An upload and its retries                                               *)

(* Whatever writes the i-th file of c writes the same to it. *)
Alike(c, i) ==
  /\ job[c].files[i].path # Empty
  /\ \A d \in Uploads : \A j \in DOMAIN job[d].files :
       Writes(d, j, c, i) => Content(d, j) = Content(c, i)

Quiet(c, i) ==
  \A d \in Uploads : \A j \in DOMAIN job[d].files :
    Writes(d, j, c, i) => ~(next[d] = j /\ handler[d] \in {"write", "error"})

Truncated(c, i) == i < next[c] \/ (i = next[c] /\ handler[c] = "write")

(* Once it was truncated the file is no longer than what is written to it, *)
(* so that the next write covers it.                                       *)
RetryOf(c, i) ==
  /\ Truncated(c, i) => /\ PathOf(c, i) \in DOMAIN files
                        /\ Len(files[PathOf(c, i)]) <= Len(Content(c, i))
  /\ i < next[c] /\ Quiet(c, i) => Holds(c, i)

Retried == \A c \in Uploads : \A i \in DOMAIN job[c].files : Alike(c, i) => RetryOf(c, i)

LEMMA SameWriters ==
  ASSUME job' = job
  PROVE  \A c, i : /\ Alike(c, i)' <=> Alike(c, i)
                   /\ \A d, j : Writes(d, j, c, i)' <=> Writes(d, j, c, i)
BY SameJob DEF Alike, Writes

(* Nothing happened to the file, and nothing got nearer to it. *)
LEMMA RetryFrame ==
  ASSUME NEW c \in Uploads, NEW i \in DOMAIN job[c].files, RetryOf(c, i), job' = job,
         PathOf(c, i) \in DOMAIN files =>
           PathOf(c, i) \in DOMAIN files' /\ files'[PathOf(c, i)] = files[PathOf(c, i)],
         Truncated(c, i)' => Truncated(c, i),
         i < next'[c] => i < next[c],
         Quiet(c, i)' => Quiet(c, i)
  PROVE  RetryOf(c, i)'
<1>1. PathOf(c, i)' = PathOf(c, i) /\ Content(c, i)' = Content(c, i)
  BY SameJob
<1> QED BY <1>1 DEF RetryOf, Holds

(* Steps that write no file and take no upload further. *)
LEMMA RetriedFrame ==
  ASSUME Retried, job' = job, files' = files,
         \A c \in Uploads :
           /\ next'[c] = next[c]
           /\ handler'[c] \in {"write", "error"} <=> handler[c] \in {"write", "error"}
           /\ handler'[c] = "write" => handler[c] = "write"
  PROVE  Retried'
<1>1. ASSUME NEW c \in Uploads, NEW i \in DOMAIN job[c].files, Alike(c, i)
      PROVE  RetryOf(c, i)'
  <2>1. Truncated(c, i)' => Truncated(c, i)
    BY DEF Truncated
  <2>2. Quiet(c, i)' => Quiet(c, i)
    BY SameWriters, SameJob DEF Quiet
  <2> QED BY <1>1, <2>1, <2>2, RetryFrame DEF Retried
<1> QED BY <1>1, SameWriters, SameJob DEF Retried

(* Steps of an upload e that leave a file alone: those at another path, or *)
(* of which nothing is heard at any.                                       *)
LEMMA RetryElsewhere ==
  ASSUME Core, NEW e \in Uploads, job' = job,
         NEW a, NEW n \in {next[e], next[e] + 1},
         handler' = [handler EXCEPT ![e] = a], next' = [next EXCEPT ![e] = n],
         NEW c \in Uploads, NEW i \in DOMAIN job[c].files, RetryOf(c, i), Alike(c, i),
         PathOf(c, i) \in DOMAIN files =>
           PathOf(c, i) \in DOMAIN files' /\ files'[PathOf(c, i)] = files[PathOf(c, i)],
         a = "write" => n = next[e],
         n # next[e] \/ a = "write" => <<c, i>> # <<e, next[e]>>,
         handler[e] \in {"write", "error"} => ~Writes(e, next[e], c, i)
  PROVE  RetryOf(c, i)'
<1>0. /\ e \in Calls /\ c \in Calls /\ \A d \in Uploads : d \in Calls
      /\ i \in Nat /\ next[e] \in Nat
      /\ next \in [Calls -> Nat \ {0}] /\ handler \in [Calls -> HandlerStates]
  BY UploadFacts DEF Core, Types
<1>1. /\ Truncated(c, i)' => Truncated(c, i)
      /\ i < next'[c] => i < next[c]
  <2>1. CASE c = e
    <3>1. /\ next'[c] = n /\ handler'[c] = a
          /\ n # next[e] \/ a = "write" => i # next[e]
      BY <1>0, <2>1
    <3> QED BY <1>0, <2>1, <3>1 DEF Truncated
  <2>2. CASE c # e
    BY <1>0, <2>2 DEF Truncated
  <2> QED BY <2>1, <2>2
<1>2. ASSUME Quiet(c, i)' PROVE Quiet(c, i)
  <2> SUFFICES ASSUME NEW d \in Uploads, NEW j \in DOMAIN job[d].files,
                      Writes(d, j, c, i), next[d] = j, handler[d] \in {"write", "error"}
               PROVE  FALSE
    BY DEF Quiet
  <2>1. d # e
    OBVIOUS
  <2>2. next'[d] = j /\ handler'[d] \in {"write", "error"}
    BY <1>0, <2>1
  <2> QED BY <1>2, <2>2, SameWriters, SameJob DEF Quiet
<1> QED BY <1>1, <1>2, RetryFrame

(* A step of an upload. *)
LEMMA UploadRetried ==
  ASSUME Core, Retried, NEW e \in DOMAIN job,
         SkipFile(e) \/ CreateFile(e) \/ CreateFileFails(e)
           \/ WriteString(e) \/ WriteStringFails(e) \/ UploadDone(e)
  PROVE  Retried'
<1>0. /\ e \in Uploads /\ e \in Calls /\ KindOK(e)
      /\ next[e] \in Nat \ {0} /\ next = [next EXCEPT ![e] = next[e]]
      /\ handler \in [Calls -> HandlerStates] /\ next \in [Calls -> Nat \ {0}]
      /\ files \in [DOMAIN files -> Contents]
  BY UploadSteps, JobFacts DEF Core, Types, Kinds
<1>1. job' = job
  BY DEF SkipFile, CreateFile, CreateFileFails, WriteString, WriteStringFails, UploadDone
<1> SUFFICES ASSUME NEW c \in Uploads, NEW i \in DOMAIN job[c].files, Alike(c, i)
             PROVE  RetryOf(c, i)'
  BY <1>1, SameWriters, SameJob DEF Retried
<1>2. RetryOf(c, i) /\ PathOf(c, i)' = PathOf(c, i) /\ Content(c, i)' = Content(c, i)
  BY <1>1, SameJob DEF Retried
<1> DEFINE P == PathOf(c, i)
<1>3. PathOf(e, next[e]) = Path(e)
  BY DEF PathOf, Path
<1>4. CASE SkipFile(e)
  <2>1. /\ handler' = [handler EXCEPT ![e] = "files"] /\ handler[e] = "files"
        /\ next' = [next EXCEPT ![e] = next[e] + 1] /\ files' = files
        /\ job[e].files[next[e]].path = Empty
    BY <1>4 DEF SkipFile, Goto
  <2>2. <<c, i>> # <<e, next[e]>>
    BY <2>1 DEF Alike
  <2> QED BY <1>0, <1>1, <1>2, <2>1, <2>2, RetryElsewhere
<1>5. CASE CreateFileFails(e) \/ UploadDone(e)
  <2>1. PICK a \in {"error", "ok"} : handler' = [handler EXCEPT ![e] = a]
    BY <1>5 DEF CreateFileFails, UploadDone, Goto
  <2>2. /\ next' = [next EXCEPT ![e] = next[e]] /\ files' = files
        /\ handler[e] = "files"
    BY <1>0, <1>5 DEF CreateFileFails, UploadDone, Goto
  <2> QED BY <1>0, <1>1, <1>2, <2>1, <2>2, RetryElsewhere
<1>6. CASE CreateFile(e)
  <2>1. /\ handler' = [handler EXCEPT ![e] = "write"] /\ handler[e] = "files"
        /\ next' = [next EXCEPT ![e] = next[e]]
        /\ next[e] \in DOMAIN job[e].files /\ job[e].files[next[e]].path # Empty
        /\ files' = [q \in DOMAIN files \cup {Path(e)} |->
                       IF q = Path(e) THEN <<>> ELSE files[q]]
    BY <1>0, <1>6 DEF CreateFile, Goto, WithFile
  <2>2. CASE P # Path(e)
    BY <1>0, <1>1, <1>2, <1>3, <2>1, <2>2, RetryElsewhere
  <2>3. CASE P = Path(e)
    <3>1. P \in DOMAIN files' /\ files'[P] = <<>> /\ Len(<<>>) = 0
      BY <2>1, <2>3, EmptySeq
    <3>2. Len(Content(c, i)) \in Nat
      BY ContentFacts DEF Core
    <3>3. Writes(e, next[e], c, i) /\ next'[e] = next[e] /\ handler'[e] = "write"
      BY <1>0, <1>3, <2>1, <2>3 DEF Writes
    <3>4. ~Quiet(c, i)'
      BY <1>0, <1>1, <2>1, <3>3, SameWriters, SameJob DEF Quiet
    <3> QED BY <1>2, <3>1, <3>2, <3>4 DEF RetryOf
  <2> QED BY <2>2, <2>3
<1>7. ASSUME WriteString(e) \/ WriteStringFails(e)
      PROVE  /\ handler[e] = "write" /\ next[e] \in DOMAIN job[e].files
             /\ P # Path(e) => ~Writes(e, next[e], c, i) /\ <<c, i>> # <<e, next[e]>>
             /\ P = Path(e) =>
                  /\ Writes(e, next[e], c, i) /\ Content(e, next[e]) = Content(c, i)
                  /\ P \in DOMAIN files /\ files[P] \in Contents
                  /\ Len(files[P]) <= Len(Content(c, i))
  <2>1. handler[e] = "write"
    BY <1>7 DEF WriteString, WriteStringFails, Goto
  <2>2. next[e] \in DOMAIN job[e].files /\ job[e].files[next[e]].path # Empty
    BY <1>0, <2>1 DEF KindOK
  <2>3. ASSUME P = Path(e)
        PROVE  /\ Writes(e, next[e], c, i) /\ Content(e, next[e]) = Content(c, i)
               /\ P \in DOMAIN files
               /\ Len(files[P]) <= Len(Content(c, i))
    <3>1. Writes(e, next[e], c, i)
      BY <1>3, <2>2, <2>3 DEF Writes
    <3>2. Content(e, next[e]) = Content(c, i)
      BY <1>0, <2>2, <3>1 DEF Alike
    <3>3. Alike(e, next[e])
      BY <1>3, <2>2, <2>3, <3>2 DEF Alike, Writes
    <3>4. RetryOf(e, next[e]) /\ Truncated(e, next[e])
      BY <1>0, <2>1, <2>2, <3>3 DEF Retried, Truncated
    <3> QED BY <1>3, <2>3, <3>1, <3>2, <3>4 DEF RetryOf
  <2> QED BY <1>0, <1>3, <2>1, <2>2, <2>3 DEF Writes
<1>8. CASE WriteString(e)
  <2>1. /\ handler' = [handler EXCEPT ![e] = "files"]
        /\ next' = [next EXCEPT ![e] = next[e] + 1]
        /\ files' = [files EXCEPT ![Path(e)] =
                       Overwritten(files[Path(e)], Content(e, next[e]))]
    BY <1>8 DEF WriteString, Goto
  <2>2. CASE P # Path(e)
    <3>1. P \in DOMAIN files => P \in DOMAIN files' /\ files'[P] = files[P]
      BY <2>1, <2>2
    <3>2. ~Writes(e, next[e], c, i) /\ <<c, i>> # <<e, next[e]>>
      BY <1>7, <1>8, <2>2
    <3> QED BY <1>0, <1>1, <1>2, <2>1, <3>1, <3>2, RetryElsewhere
  <2>3. CASE P = Path(e)
    <3>1. Content(c, i) \in Contents /\ Len(Content(c, i)) \in Nat
      BY ContentFacts DEF Core
    <3>2. P \in DOMAIN files' /\ files'[P] = Content(c, i)
      BY <1>7, <1>8, <2>1, <2>3, <3>1, OverwrittenFacts
    <3> QED BY <1>2, <3>1, <3>2 DEF RetryOf, Holds
  <2> QED BY <2>2, <2>3
<1>9. CASE WriteStringFails(e)
  <2>1. /\ handler' = [handler EXCEPT ![e] = "error"]
        /\ next' = [next EXCEPT ![e] = next[e]]
    BY <1>0, <1>9 DEF WriteStringFails, Goto
  <2>2. PICK n \in 0..(Len(Content(e, next[e])) - 1) :
          files' = [files EXCEPT ![Path(e)] =
                      Overwritten(files[Path(e)], SubSeq(Content(e, next[e]), 1, n))]
    BY <1>9 DEF WriteStringFails
  <2>3. CASE P # Path(e)
    <3>1. P \in DOMAIN files => P \in DOMAIN files' /\ files'[P] = files[P]
      BY <2>2, <2>3
    <3>2. ~Writes(e, next[e], c, i)
      BY <1>7, <1>9, <2>3
    <3> QED BY <1>0, <1>1, <1>2, <2>1, <3>1, <3>2, RetryElsewhere
  <2>4. CASE P = Path(e)
    <3> DEFINE new == SubSeq(Content(e, next[e]), 1, n)
    <3>1. /\ Len(Content(c, i)) \in Nat /\ new \in Contents /\ Len(new) = n
          /\ n <= Len(Content(c, i))
      BY <1>0, <1>7, <1>9, <2>4, ContentFacts DEF Core
    <3> HIDE DEF new
    <3>2. P \in DOMAIN files' /\ files'[P] = Overwritten(files[P], new)
      BY <1>7, <1>9, <2>2, <2>4 DEF new
    <3>3. Len(files'[P]) <= Len(Content(c, i))
      BY <1>7, <1>9, <2>4, <3>1, <3>2, OverwrittenFacts
    <3>4. ~Quiet(c, i)'
      <4>1. Writes(e, next[e], c, i) /\ next'[e] = next[e] /\ handler'[e] = "error"
        BY <1>0, <1>7, <1>9, <2>1, <2>4
      <4> QED BY <1>0, <1>1, <1>7, <1>9, <4>1, SameWriters, SameJob DEF Quiet
    <3> QED BY <1>2, <3>2, <3>3, <3>4 DEF RetryOf
  <2> QED BY <2>3, <2>4
<1> QED BY <1>4, <1>5, <1>6, <1>8, <1>9

LEMMA RetriedStep == Core /\ Retried /\ [Next]_vars => Retried'
<1> SUFFICES ASSUME Core, Retried, [Next]_vars PROVE Retried'
  OBVIOUS
<1>0. /\ \A d \in Uploads : d \in Calls /\ d \in DOMAIN job /\ Kind(d) = "upload"
      /\ handler \in [Calls -> HandlerStates] /\ next \in [Calls -> Nat \ {0}]
  BY UploadFacts DEF Core, Types, Uploads
<1>1. ASSUME NEW c \in DOMAIN job,
             Send(c) \/ SendFails(c) \/ Answered(c) \/ GivesUp(c)
      PROVE  Retried'
  <2>1. FirstStep[Kind(c)] \notin {"write", "error"}
    BY KindsApart DEF FirstStep, Core
  <2> QED BY <1>0, <1>1, <2>1, CallerSteps, RetriedFrame
<1>2. ASSUME NEW c \in DOMAIN job, BadQuery(c) \/ ReadFile(c) \/ DownloadDone(c)
      PROVE  Retried'
  <2>1. job' = job /\ files' = files
    BY <1>2 DEF BadQuery, ReadFile, DownloadDone
  <2>2. Kind(c) = "download" /\ Files(c)
    BY <1>2, DownloadSteps DEF Files
  <2> QED BY <1>0, <2>1, <2>2, FilesLeave, RetriedFrame
<1>3. ASSUME NEW c \in DOMAIN job,
             \/ Run(c) \/ Command(c) \/ ChildPrintsAndExits(c) \/ ChildIsKilled(c)
             \/ \E s \in Streams : Scan(c, s)
      PROVE  Retried'
  <2>1. \A d \in Uploads : d # c
    BY <1>0, <1>3, CommandLeaves DEF Commands
  <2> QED BY <1>0, <1>3, <2>1, CommandLeaves, RetriedFrame
<1>4. CASE GuestStops \/ UNCHANGED vars
  BY <1>4, RetriedFrame DEF GuestStops, vars
<1> QED BY <1>1, <1>2, <1>3, <1>4, UploadRetried DEF Next, Files

LEMMA InitRetried == Init => Retried
<1> SUFFICES ASSUME Init, NEW c \in Uploads, NEW i \in DOMAIN job[c].files
             PROVE  RetryOf(c, i)
  BY DEF Retried
<1>1. Types
  BY InitCore DEF Core
<1>2. c \in Calls /\ i \in Nat /\ i >= 1
  BY <1>1, UploadFacts
<1>3. ~Truncated(c, i) /\ ~(i < next[c])
  BY <1>2 DEF Init, Truncated
<1> QED BY <1>3 DEF RetryOf

LEMMA RetriedAlways == Spec => [](Core /\ Retried)
BY InitCore, InitRetried, CoreStep, RetriedStep, PTL DEF Spec

(* Uploads that write the same to a file, a retry beside the call its      *)
(* caller gave up, leave it whole as soon as none of them is between its   *)
(* os.Create and the end of its write, or failed there                     *)
(* (cmdserver/main.go:56-70, server.go:1867, 1899).                        *)
THEOREM RetriesAlwaysWhole == Spec => []RetriesAreWhole
<1>1. ASSUME Retried PROVE RetriesAreWhole
  <2> SUFFICES ASSUME NEW c \in Uploads, NEW i \in DOMAIN job[c].files,
                      job[c].files[i].path # Empty, i < next[c],
                      \A d \in Uploads : \A j \in DOMAIN job[d].files :
                        Writes(d, j, c, i) =>
                          /\ Content(d, j) = Content(c, i)
                          /\ ~(next[d] = j /\ handler[d] \in {"write", "error"})
               PROVE  Holds(c, i)
    BY DEF RetriesAreWhole
  <2>1. Alike(c, i) /\ Quiet(c, i)
    BY DEF Alike, Quiet
  <2> QED BY <1>1, <2>1 DEF Retried, RetryOf
<1> QED BY <1>1, RetriedAlways, PTL

-----------------------------------------------------------------------------
(* What downloads read                                                     *)

Downloads == {d \in DOMAIN job : Kind(d) = "download"}

(* An upload's file under a relative path, which nobody else writes. *)
Relative(c, i) == Named(c, i) /\ ~Absolute(job[c].files[i].path)

(* A list that means the same in a URL reaches the guest as it is. *)
LEMMA PlainPaths ==
  ASSUME NEW s \in Paths, Plain(s)
  PROVE  filePaths(s) = Split(s)
<1>1. s \in Seq(STRING) /\ Len(s) \in Nat /\ DOMAIN s = 1..Len(s)
      /\ s = [i \in 1..Len(s) |-> s[i]]
  BY LenProperties DEF Paths
<1>2. \A x \in {"#", "&", ";", "%", " "} : ~Contains(s, x)
  BY <1>1 DEF Contains, Plain
<1>3. Upto(s, "#") = s /\ Upto(s, "&") = s
  BY <1>2 DEF Upto
<1>4. \A i \in DOMAIN s : s[i] \notin {"#", "+", "%2C", "%41"}
  BY DEF Plain
<1>5. [i \in DOMAIN s |-> CASE s[i] = "+" -> " " [] s[i] = "%2C" -> ","
                             [] s[i] = "%41" -> "A" [] OTHER -> s[i]] = s
  BY <1>1, <1>4
<1>6. ~\E i, j \in DOMAIN s : i < j /\ s[i] = "#" /\ s[j] = "%"
  BY <1>4
<1>7. filesParam(s) = s
  BY <1>2, <1>3, <1>5, <1>6, ZenonT(60) DEF filesParam
<1> QED BY <1>7 DEF filePaths

LEMMA SplitLength ==
  ASSUME NEW s \in Paths
  PROVE  Len(Split(s)) \in Nat /\ DOMAIN Split(s) = 1..Len(Split(s))
<1>1. Len(s) \in Nat /\ DOMAIN s = 1..Len(s)
  BY LenProperties DEF Paths
<1>2. IsFiniteSet(1..Len(s))
  BY <1>1, FS_Interval
<1>3. IsFiniteSet(Commas(s))
  BY <1>1, <1>2, FS_Subset DEF Commas
<1>4. Cardinality(Commas(s)) \in Nat
  BY <1>3, FS_CardinalityType
<1> QED BY <1>4 DEF Split

(* What d read so far of the files of uploads answered before it was made  *)
(* is what was uploaded.                                                   *)
ReadBy(d) ==
  /\ Len(answer[d]) = next[d] - 1
  /\ handler[d] = "none" => next[d] = 1
  /\ handler[d] = "ok" => next[d] = Len(filePaths(job[d].paths)) + 1
  /\ \A c \in seen[d] : call[c] = "ok"
  /\ \A c \in seen[d] \cap Uploads : \A i \in DOMAIN job[c].files :
       Relative(c, i) =>
         \A k \in 1..(next[d] - 1) :
           filePaths(job[d].paths)[k] = job[c].files[i].path =>
             answer[d][k] = Content(c, i)

ReadOK == \A d \in Downloads : ReadBy(d)

LEMMA ReadFrame ==
  ASSUME NEW d \in Downloads, ReadBy(d), job' = job,
         answer'[d] = answer[d], next'[d] = next[d], handler'[d] = handler[d],
         seen'[d] = seen[d], \A c \in seen[d] : call[c] = "ok" => call'[c] = "ok"
  PROVE  ReadBy(d)'
<1>1. \A c, i : /\ Relative(c, i)' <=> Relative(c, i)
                /\ Content(c, i)' = Content(c, i)
  BY SameJob DEF Relative
<1> QED BY <1>1, SameJob DEF ReadBy

LEMMA ReadStep == Core /\ Written /\ ReadOK /\ [Next]_vars => ReadOK'
<1> SUFFICES ASSUME Core, Written, ReadOK, [Next]_vars PROVE ReadOK'
  OBVIOUS
<1>0. /\ \A d \in DOMAIN job : d \in Calls
      /\ seen \in [Calls -> SUBSET Calls] /\ next \in [Calls -> Nat \ {0}]
      /\ handler \in [Calls -> HandlerStates] /\ answer \in [Calls -> Seq(Values)]
      /\ job' = job => Downloads' = Downloads
      /\ \A d \in Downloads : d \in DOMAIN job /\ ReadBy(d)
  BY JobFacts, SameJob DEF Core, Types, Downloads, ReadOK
<1>1. ASSUME NEW c \in DOMAIN job,
             Send(c) \/ SendFails(c) \/ Answered(c) \/ GivesUp(c)
      PROVE  ReadOK'
  <2>1. /\ job' = job /\ next' = next /\ answer' = answer
        /\ \A d \in Calls : d # c => handler'[d] = handler[d] /\ seen'[d] = seen[d]
        /\ \A d \in Calls : call[d] = "ok" => call'[d] = "ok"
        /\ \/ handler'[c] = handler[c] /\ seen'[c] = seen[c]
           \/ /\ handler[c] = "none" /\ handler'[c] = FirstStep[Kind(c)]
              /\ seen'[c] = {d \in Calls : call[d] = "ok"}
    BY <1>1, CallerSteps
  <2>2. ASSUME NEW d \in Downloads PROVE ReadBy(d)'
    <3>1. CASE d # c \/ (handler'[c] = handler[c] /\ seen'[c] = seen[c])
      <4>1. handler'[d] = handler[d] /\ seen'[d] = seen[d]
        BY <1>0, <2>1, <3>1
      <4> QED BY <1>0, <2>1, <4>1, ReadFrame
    <3>2. CASE /\ d = c /\ handler[c] = "none" /\ handler'[c] = FirstStep[Kind(c)]
               /\ seen'[c] = {e \in Calls : call[e] = "ok"}
      <4>1. next'[d] = 1 /\ Len(answer'[d]) = 0
        BY <1>0, <2>1, <3>2 DEF ReadBy
      <4>2. handler'[d] = "paths"
        BY <3>2 DEF FirstStep, Downloads
      <4>3. \A e \in seen'[d] : call'[e] = "ok"
        BY <2>1, <3>2
      <4>4. 1..(next'[d] - 1) = {} /\ Len(answer'[d]) = next'[d] - 1
        BY <4>1
      <4> QED BY <4>1, <4>2, <4>3, <4>4 DEF ReadBy
    <3> QED BY <2>1, <3>1, <3>2
  <2> QED BY <1>0, <2>1, <2>2 DEF ReadOK
<1>2. ASSUME NEW c \in DOMAIN job, Files(c), Kind(c) # "download"
      PROVE  ReadOK'
  <2>1. ASSUME NEW d \in Downloads PROVE ReadBy(d)'
    <3>1. d # c
      BY <1>2 DEF Downloads
    <3> QED BY <1>0, <1>2, <3>1, FilesLeave, ReadFrame
  <2> QED BY <1>0, <1>2, <2>1, FilesLeave DEF ReadOK
<1>3. ASSUME NEW c \in DOMAIN job, ReadFile(c)
      PROVE  ReadOK'
  <2>0. /\ Kind(c) = "download" /\ Files(c) /\ c \in Downloads /\ ReadBy(c)
    BY <1>0, <1>3, DownloadSteps DEF Files, Downloads
  <2> DEFINE p == downloadPath(filePaths(job[c].paths)[next[c]])
             read == IF p \in DOMAIN files THEN files[p] ELSE Unread
  <2>1. /\ handler' = [handler EXCEPT ![c] = "paths"] /\ job' = job
        /\ next' = [next EXCEPT ![c] = next[c] + 1]
        /\ answer' = [answer EXCEPT ![c] = Append(answer[c], read)]
    BY <1>3 DEF ReadFile, Goto
  <2>2. read \in Values
    <3>1. Unread \in Contents
      BY DEF Unread, Contents, Blocks
    <3> QED BY <3>1 DEF Values, Core, Types
  <2>3. ASSUME NEW b \in seen[c] \cap Uploads, NEW i \in DOMAIN job[b].files,
               Relative(b, i),
               filePaths(job[c].paths)[next[c]] = job[b].files[i].path
        PROVE  read = Content(b, i)
    <3>1. p = PathOf(b, i)
      BY <2>3 DEF downloadPath, uploadPath, PathOf, Relative
    <3>2. Holds(b, i)
      BY <2>0, <2>3, UploadHolds DEF ReadBy, Relative
    <3> QED BY <3>1, <3>2 DEF Holds
  <2> HIDE DEF read
  <2>4. /\ Len(answer'[c]) = Len(answer[c]) + 1
        /\ answer'[c][Len(answer[c]) + 1] = read
        /\ \A k \in 1..Len(answer[c]) : answer'[c][k] = answer[c][k]
    BY <1>0, <2>1, <2>2, AppendProperties
  <2>5. /\ next[c] \in Nat \ {0} /\ next'[c] = next[c] + 1
        /\ Len(answer[c]) = next[c] - 1 /\ handler'[c] = "paths"
    BY <1>0, <2>0, <2>1 DEF ReadBy
  <2>6. call' = call /\ seen' = seen
    BY <2>0, FilesLeave
  <2>7. ASSUME NEW b \in seen[c] \cap Uploads, NEW i \in DOMAIN job[b].files,
               Relative(b, i), NEW k \in 1..(next'[c] - 1),
               filePaths(job[c].paths)[k] = job[b].files[i].path
        PROVE  answer'[c][k] = Content(b, i)
    <3>1. CASE k = next[c]
      BY <2>3, <2>4, <2>5, <2>7, <3>1
    <3>2. CASE k \in 1..(next[c] - 1)
      BY <2>0, <2>4, <2>5, <2>7, <3>2 DEF ReadBy
    <3> QED BY <2>5, <3>1, <3>2
  <2>8. ReadBy(c)'
    <3>1. \A b, i : /\ Relative(b, i)' <=> Relative(b, i)
                    /\ Content(b, i)' = Content(b, i)
      BY <2>1, SameJob DEF Relative
    <3>2. Len(answer'[c]) = next'[c] - 1
      BY <2>4, <2>5
    <3>3. \A b \in seen'[c] : call'[b] = "ok"
      BY <2>0, <2>6 DEF ReadBy
    <3>4. Uploads' = Uploads
      BY <2>1, SameJob
    <3>5. filePaths(job[c].paths)' = filePaths(job[c].paths)
      BY <2>1
    <3>6. handler'[c] \notin {"none", "ok"}
      BY <2>5
    <3>7. ASSUME NEW b \in (seen[c] \cap Uploads)', NEW i \in (DOMAIN job[b].files)',
                 Relative(b, i)', NEW k \in 1..(next'[c] - 1),
                 filePaths(job[c].paths)'[k] = (job[b].files[i].path)'
          PROVE  answer'[c][k] = Content(b, i)'
      BY <2>1, <2>6, <2>7, <3>1, <3>4, <3>5, <3>7
    <3> QED BY <3>2, <3>3, <3>6, <3>7 DEF ReadBy
  <2>9. ASSUME NEW d \in Downloads, d # c PROVE ReadBy(d)'
    BY <1>0, <2>0, <2>9, FilesLeave, ReadFrame
  <2> QED BY <1>0, <2>1, <2>8, <2>9 DEF ReadOK
<1>4. ASSUME NEW c \in DOMAIN job, DownloadDone(c)
      PROVE  ReadOK'
  <2>0. Kind(c) = "download" /\ Files(c) /\ c \in Downloads /\ ReadBy(c)
    BY <1>0, <1>4, DownloadSteps DEF Files, Downloads
  <2>1. /\ handler'[c] = "ok" /\ job' = job /\ next' = next /\ answer' = answer
        /\ next[c] = Len(filePaths(job[c].paths)) + 1
    BY <1>0, <1>4 DEF DownloadDone, Goto
  <2>2. call' = call /\ seen' = seen
    BY <2>0, FilesLeave
  <2>3. ReadBy(c)'
    <3>1. \A b, i : /\ Relative(b, i)' <=> Relative(b, i)
                    /\ Content(b, i)' = Content(b, i)
      BY <2>1, SameJob DEF Relative
    <3> QED BY <2>0, <2>1, <2>2, <3>1, SameJob DEF ReadBy
  <2>4. ASSUME NEW d \in Downloads, d # c PROVE ReadBy(d)'
    BY <1>0, <2>0, <2>4, FilesLeave, ReadFrame
  <2> QED BY <1>0, <2>1, <2>3, <2>4 DEF ReadOK
<1>8. ASSUME NEW c \in DOMAIN job, BadQuery(c)
      PROVE  ReadOK'
  <2>0. Kind(c) = "download" /\ Files(c) /\ c \in Downloads /\ ReadBy(c)
    BY <1>0, <1>8, DownloadSteps DEF Files, Downloads
  <2>1. handler'[c] = "error" /\ job' = job /\ next' = next /\ answer' = answer
    BY <1>0, <1>8 DEF BadQuery, Goto
  <2>2. call' = call /\ seen' = seen
    BY <2>0, FilesLeave
  <2>3. ReadBy(c)'
    <3>1. \A b, i : /\ Relative(b, i)' <=> Relative(b, i)
                    /\ Content(b, i)' = Content(b, i)
      BY <2>1, SameJob DEF Relative
    <3> QED BY <2>0, <2>1, <2>2, <3>1, SameJob DEF ReadBy
  <2>4. ASSUME NEW d \in Downloads, d # c PROVE ReadBy(d)'
    BY <1>0, <2>0, <2>4, FilesLeave, ReadFrame
  <2> QED BY <1>0, <2>1, <2>3, <2>4 DEF ReadOK
<1>5. ASSUME NEW c \in DOMAIN job,
             \/ Run(c) \/ Command(c) \/ ChildPrintsAndExits(c) \/ ChildIsKilled(c)
             \/ \E s \in Streams : Scan(c, s)
      PROVE  ReadOK'
  <2>1. ASSUME NEW d \in Downloads PROVE ReadBy(d)'
    <3>1. d # c
      BY <1>5, CommandLeaves DEF Downloads, Commands
    <3> QED BY <1>0, <1>5, <3>1, CommandLeaves, ReadFrame
  <2> QED BY <1>0, <1>5, <2>1, CommandLeaves DEF ReadOK
<1>6. CASE GuestStops \/ UNCHANGED vars
  BY <1>0, <1>6, ReadFrame DEF GuestStops, vars, caller, ReadOK
<1>7. ASSUME NEW c \in DOMAIN job, Files(c)
      PROVE  ReadOK'
  <2>1. Kind(c) = "download" => BadQuery(c) \/ ReadFile(c) \/ DownloadDone(c)
    BY <1>7, UploadSteps DEF Files, Uploads
  <2> QED BY <1>2, <1>3, <1>4, <1>7, <1>8, <2>1
<1> QED BY <1>1, <1>5, <1>6, <1>7 DEF Next

LEMMA InitRead == Init => ReadOK
<1> SUFFICES ASSUME Init PROVE ReadOK
  OBVIOUS
<1>1. DOMAIN job \subseteq Calls /\ Len(<<>>) = 0
  BY JobsAssumption, EmptySeq DEF Init
<1> QED BY <1>1 DEF Init, ReadOK, ReadBy, Downloads

LEMMA ReadAlways == Spec => [](Core /\ Written /\ ReadOK)
BY InitCore, InitWritten, InitRead, CoreStep, WrittenStep, ReadStep, PTL DEF Spec

(* A download returns what an upload wrote under a relative path, if that  *)
(* upload was answered before the download was made, nobody else writes    *)
(* the file, and the list of paths means the same in a URL, into which     *)
(* server.go:1956 puts it as it is (cmdserver/main.go:49-53, 82-102).      *)
THEOREM AlwaysReadYourUploads == Spec => []ReadYourUploads
<1>1. ASSUME Core, ReadOK PROVE ReadYourUploads
  <2> SUFFICES ASSUME NEW d \in DOMAIN job, Kind(d) = "download", call[d] = "ok",
                      Plain(job[d].paths),
                      NEW c \in seen[d] \cap Uploads, NEW i \in DOMAIN job[c].files,
                      OnlyWriter(c, i), job[c].files[i].path # Empty,
                      ~Absolute(job[c].files[i].path),
                      NEW k \in DOMAIN Split(job[d].paths),
                      Split(job[d].paths)[k] = job[c].files[i].path
               PROVE  answer[d][k] = Content(c, i)
    BY DEF ReadYourUploads
  <2>1. ReadBy(d) /\ handler[d] = "ok" /\ Relative(c, i)
    BY <1>1 DEF ReadOK, Downloads, Core, Kinds, KindOK, Relative, Named
  <2>2. job[d].paths \in Paths
    BY <1>1, JobFacts DEF Core, Kind
  <2>3. filePaths(job[d].paths) = Split(job[d].paths)
    BY <2>2, PlainPaths
  <2>4. k \in 1..(next[d] - 1)
    BY <2>1, <2>2, <2>3, SplitLength DEF ReadBy
  <2> QED BY <2>1, <2>3, <2>4 DEF ReadBy
<1> QED BY <1>1, ReadAlways, PTL

-----------------------------------------------------------------------------
(* The output of blocking commands                                         *)

Runs == {c \in DOMAIN job : Kind(c) = "run"}

(* What command c and its child printed so far. *)
Printed(c) ==
  SubSeq(job[c].lines, 1, wrote[c])
    \o (IF left[c] = "exited" THEN <<ChildLine>> ELSE <<>>)

(* It is in the answer or still in the pipe; the child comes after the     *)
(* command, and the answer after both.                                     *)
CopiedBy(c) ==
  /\ answer[c] \o pipe[c]["stdout"] = Printed(c)
  /\ proc[c] \in {"none", "running", "exited"}
  /\ handler[c] \in {"none", "exec"} => proc[c] = "none"
  /\ left[c] # "none" => proc[c] = "exited"
  /\ left[c] # "killed"
  /\ proc[c] = "exited" =>
       wrote[c] = Len(job[c].lines) /\ (left[c] # "none" <=> job[c].child)
  /\ handler[c] = "ok" =>
       proc[c] = "exited" /\ left[c] # "running" /\ pipe[c]["stdout"] = <<>>

Copied == \A c \in Runs : CopiedBy(c)

LEMMA CopiedFrame ==
  ASSUME NEW c \in Runs, CopiedBy(c), job' = job, answer'[c] = answer[c],
         pipe'[c] = pipe[c], wrote'[c] = wrote[c], left'[c] = left[c],
         proc'[c] = proc[c],
         handler'[c] = handler[c] \/ (handler[c] = "none" /\ handler'[c] = "exec")
  PROVE  CopiedBy(c)'
<1>1. Printed(c)' = Printed(c)
  BY DEF Printed
<1> QED BY <1>1 DEF CopiedBy

LEMMA RunFacts ==
  ASSUME Core, NEW c \in Runs
  PROVE  /\ c \in Commands /\ c \in Calls /\ c \in DOMAIN job /\ Blocking(c)
         /\ answer[c] \in Seq(Values) /\ pipe[c]["stdout"] \in Seq(Values)
         /\ pipe[c]["stdout"] \in Seq(Lines)
         /\ job[c].lines \in Seq(Lines) /\ job[c].lines \in Seq(Values)
         /\ Len(job[c].lines) \in Nat /\ wrote[c] \in 0..Len(job[c].lines)
         /\ \A n \in 0..Len(job[c].lines) :
              SubSeq(job[c].lines, 1, n) \in Seq(Values)
         /\ job[c].child \in BOOLEAN /\ "stdout" \in Streams
<1>1. c \in DOMAIN job /\ c \in Commands /\ Blocking(c) /\ KindOK(c)
  BY DEF Runs, Commands, Blocking, Kind, Core, Kinds
<1>2. /\ c \in Calls /\ job[c].lines \in Seq(Lines) /\ Len(job[c].lines) \in Nat
      /\ job[c].child \in BOOLEAN
  BY <1>1, CommandFacts DEF Core
<1>3. Lines \subseteq Values /\ "stdout" \in Streams
  BY DEF Values, Streams
<1>4. pipe[c]["stdout"] \in Seq(Lines) /\ answer[c] \in Seq(Values) /\ wrote[c] \in Nat
  BY <1>2, <1>3 DEF Core, Types
<1>5. pipe[c]["stdout"] \in Seq(Values) /\ job[c].lines \in Seq(Values)
  BY <1>2, <1>3, <1>4, SeqMonotonic
<1>6. wrote[c] \in 0..Len(job[c].lines)
  BY <1>1, <1>2, <1>4 DEF KindOK
<1>7. ASSUME NEW n \in 0..Len(job[c].lines)
      PROVE  SubSeq(job[c].lines, 1, n) \in Seq(Values)
  <2>1. \A i \in 1..n : job[c].lines[i] \in Values
    BY <1>2, <1>5, ElementOfSeq
  <2>2. n \in Int /\ 1 \in Int
    BY <1>2
  <2> QED BY <2>1, <2>2, SubSeqProperties
<1> QED BY <1>1, <1>2, <1>3, <1>4, <1>5, <1>6, <1>7

(* A step of a blocking command, of its child or of the handler.           *)
LEMMA RunCopied ==
  ASSUME Core, NEW c \in Runs, CopiedBy(c),
         \/ Run(c) \/ Command(c) \/ ChildPrintsAndExits(c) \/ ChildIsKilled(c)
         \/ \E s \in Streams : Scan(c, s)
  PROVE  CopiedBy(c)'
<1>0. /\ c \in Calls /\ Blocking(c) /\ Kind(c) = "run" /\ KindOK(c)
      /\ handler \in [Calls -> HandlerStates] /\ answer \in [Calls -> Seq(Values)]
      /\ proc \in [Calls -> {"none", "running", "exited", "reaped"}]
      /\ wrote \in [Calls -> Nat]
      /\ pipe \in [Calls -> [Streams -> Seq(Lines)]]
      /\ left \in [Calls -> {"none", "running", "exited", "killed"}]
      /\ "stdout" \in Streams
  BY RunFacts DEF Core, Types, Kinds, Runs
<1>1. CASE StartCommand(c)
  <2>1. /\ handler[c] = "exec" /\ handler'[c] = "wait" /\ proc'[c] = "running"
        /\ UNCHANGED <<job, answer, wrote, pipe, left>>
    BY <1>0, <1>1 DEF StartCommand, Goto
  <2>2. Printed(c)' = Printed(c)
    BY <2>1 DEF Printed
  <2> QED BY <2>1, <2>2 DEF CopiedBy
<1>2. CASE StartCommandFails(c)
  <2>1. /\ handler[c] = "exec" /\ handler'[c] = "commandError"
        /\ UNCHANGED <<job, answer, proc, wrote, pipe, left>>
    BY <1>0, <1>2 DEF StartCommandFails, Goto, command
  <2>2. Printed(c)' = Printed(c)
    BY <2>1 DEF Printed
  <2> QED BY <2>1, <2>2 DEF CopiedBy
<1>3. CASE CombinedOutput(c)
  <2>1. /\ handler'[c] = "ok" /\ proc[c] = "exited" /\ left[c] # "running"
        /\ pipe[c]["stdout"] = <<>>
        /\ UNCHANGED <<job, answer, proc, wrote, pipe, left>>
    BY <1>0, <1>3 DEF CombinedOutput, Goto, command
  <2>2. Printed(c)' = Printed(c)
    BY <2>1 DEF Printed
  <2> QED BY <2>1, <2>2 DEF CopiedBy
<1>4. CASE CopyOutput(c)
  <2>1. /\ handler[c] = "wait" /\ pipe[c]["stdout"] # <<>>
        /\ answer' = [answer EXCEPT ![c] = Append(answer[c], Head(pipe[c]["stdout"]))]
        /\ pipe' = [pipe EXCEPT ![c] = [pipe[c] EXCEPT !["stdout"] = Tail(pipe[c]["stdout"])]]
        /\ UNCHANGED <<job, handler, proc, wrote, left>>
    BY <1>4 DEF CopyOutput
  <2>2. /\ answer'[c] = Append(answer[c], Head(pipe[c]["stdout"]))
        /\ pipe'[c]["stdout"] = Tail(pipe[c]["stdout"])
    BY <1>0, <2>1
  <2>3. answer'[c] \o pipe'[c]["stdout"] = answer[c] \o pipe[c]["stdout"]
    <3>1. answer[c] \in Seq(Values) /\ pipe[c]["stdout"] \in Seq(Values)
      BY RunFacts
    <3>2. \A s, t \in Seq(Values) : t # <<>> => Append(s, Head(t)) \o Tail(t) = s \o t
      BY MoveHead
    <3> QED BY <2>1, <2>2, <3>1, <3>2
  <2>4. Printed(c)' = Printed(c)
    BY <2>1 DEF Printed
  <2> QED BY <2>1, <2>3, <2>4 DEF CopiedBy
<1>5. CASE WriteLine(c)
  <2> DEFINE line == job[c].lines[wrote[c] + 1]
             said == SubSeq(job[c].lines, 1, wrote[c])
  <2>1. /\ proc[c] = "running" /\ wrote[c] < Len(job[c].lines)
        /\ pipe' = [pipe EXCEPT ![c] = [pipe[c] EXCEPT !["stdout"] =
                      Append(pipe[c]["stdout"], line)]]
        /\ wrote' = [wrote EXCEPT ![c] = wrote[c] + 1]
        /\ UNCHANGED <<job, handler, answer, proc, left>>
    BY <1>0, <1>5 DEF WriteLine, Into
  <2>2. /\ wrote[c] + 1 \in 1..Len(job[c].lines) /\ 1 \in 1..Len(job[c].lines)
        /\ 1 \in 1..(wrote[c] + 1) /\ wrote[c] + 1 \in 1..Len(job[c].lines)
        /\ wrote[c] + 1 - 1 = wrote[c]
    BY <2>1, RunFacts
  <2>3. line \in Values
    BY <2>2, RunFacts, ElementOfSeq
  <2>4. SubSeq(job[c].lines, 1, wrote[c] + 1) = said \o <<line>>
    <3>1. job[c].lines \in Seq(Values) /\ wrote[c] \in 0..(Len(job[c].lines) - 1)
      BY <2>1, <2>2, RunFacts
    <3> QED BY <3>1, OneMore
  <2>5. left[c] = "none" /\ Printed(c) = said \o <<>> /\ said \in Seq(Values)
    BY <2>1, RunFacts DEF CopiedBy, Printed
  <2>6. Printed(c) = said
    BY <2>5, ConcatEmptySeq
  <2>7. answer[c] \o Append(pipe[c]["stdout"], line) = said \o <<line>>
    <3>1. answer[c] \o pipe[c]["stdout"] = said
      BY <2>6 DEF CopiedBy
    <3>2. answer[c] \o Append(pipe[c]["stdout"], line)
            = (answer[c] \o pipe[c]["stdout"]) \o <<line>>
      <4>1. answer[c] \in Seq(Values) /\ pipe[c]["stdout"] \in Seq(Values)
        BY RunFacts
      <4>2. \A s, t \in Seq(Values), x \in Values : s \o Append(t, x) = (s \o t) \o <<x>>
        BY AppendAfter
      <4> QED BY <2>3, <4>1, <4>2
    <3> QED BY <3>1, <3>2
  <2>8. Printed(c)' = said \o <<line>>
    <3>1. wrote'[c] = wrote[c] + 1 /\ left'[c] = "none" /\ job'[c].lines = job[c].lines
      BY <1>0, <2>1, <2>5
    <3>2. Printed(c)' = SubSeq(job[c].lines, 1, wrote[c] + 1) \o <<>>
      BY <3>1 DEF Printed
    <3>3. SubSeq(job[c].lines, 1, wrote[c] + 1) \in Seq(Values)
      <4>1. wrote[c] + 1 \in 0..Len(job[c].lines)
        BY <2>2
      <4> QED BY <4>1, RunFacts
    <3> QED BY <2>4, <3>2, <3>3, ConcatEmptySeq
  <2>9. pipe'[c]["stdout"] = Append(pipe[c]["stdout"], line)
    BY <1>0, <2>1
  <2> QED BY <2>1, <2>5, <2>7, <2>8, <2>9 DEF CopiedBy
<1>6. CASE Exit(c)
  <2>1. /\ proc[c] = "running" /\ wrote[c] = Len(job[c].lines)
        /\ proc'[c] = "exited" /\ left[c] = "none"
        /\ left'[c] = IF job[c].child THEN "running" ELSE left[c]
        /\ UNCHANGED <<job, handler, answer, wrote, pipe>>
    BY <1>0, <1>6 DEF Exit, CopiedBy
  <2>2. left'[c] # "exited"
    BY <2>1
  <2>3. Printed(c)' = Printed(c)
    BY <2>1, <2>2 DEF Printed
  <2> QED BY <2>1, <2>3, RunFacts DEF CopiedBy
<1>7. CASE ChildPrintsAndExits(c)
  <2> DEFINE said == SubSeq(job[c].lines, 1, wrote[c])
  <2>1. /\ left[c] = "running" /\ left'[c] = "exited"
        /\ pipe'[c]["stdout"] = Append(pipe[c]["stdout"], ChildLine)
        /\ UNCHANGED <<job, handler, answer, proc, wrote>>
    BY <1>0, <1>7 DEF ChildPrintsAndExits
  <2>2. ChildLine \in Values
    BY DEF ChildLine, Values, Lines, Streams
  <2>3. said \in Seq(Values) /\ Printed(c) = said
    <3>1. said \in Seq(Values) /\ Printed(c) = said \o <<>>
      BY <2>1, RunFacts DEF Printed
    <3> QED BY <3>1, ConcatEmptySeq
  <2>4. answer[c] \o Append(pipe[c]["stdout"], ChildLine) = said \o <<ChildLine>>
    <3>1. answer[c] \o pipe[c]["stdout"] = said
      BY <2>3 DEF CopiedBy
    <3>2. answer[c] \o Append(pipe[c]["stdout"], ChildLine)
            = (answer[c] \o pipe[c]["stdout"]) \o <<ChildLine>>
      <4>1. answer[c] \in Seq(Values) /\ pipe[c]["stdout"] \in Seq(Values)
        BY RunFacts
      <4>2. \A s, t \in Seq(Values), x \in Values : s \o Append(t, x) = (s \o t) \o <<x>>
        BY AppendAfter
      <4> QED BY <2>2, <4>1, <4>2
    <3> QED BY <3>1, <3>2
  <2>5. Printed(c)' = said \o <<ChildLine>>
    BY <2>1 DEF Printed
  <2>6. handler[c] # "ok"
    BY <2>1 DEF CopiedBy
  <2> QED BY <2>1, <2>4, <2>5, <2>6 DEF CopiedBy
<1>8. CASE Wait(c) \/ ChildIsKilled(c) \/ \E s \in Streams : Scan(c, s)
  BY <1>0, <1>8 DEF Wait, ChildIsKilled, Scan, CopiedBy
<1> QED BY <1>1, <1>2, <1>3, <1>4, <1>5, <1>6, <1>7, <1>8 DEF Run, Command

LEMMA CopiedStep == Core /\ Copied /\ [Next]_vars => Copied'
<1> SUFFICES ASSUME Core, Copied, [Next]_vars PROVE Copied'
  OBVIOUS
<1>0. /\ \A d \in Runs : d \in Calls /\ d \in DOMAIN job /\ CopiedBy(d)
      /\ job' = job => Runs' = Runs
  BY RunFacts, SameJob DEF Runs, Copied
<1>1. ASSUME NEW c \in DOMAIN job,
             Send(c) \/ SendFails(c) \/ Answered(c) \/ GivesUp(c)
      PROVE  Copied'
  <2>1. ASSUME NEW d \in Runs PROVE CopiedBy(d)'
    <3>1. \/ handler'[d] = handler[d]
          \/ handler[d] = "none" /\ handler'[d] = FirstStep[Kind(d)]
      BY <1>0, <1>1, CallerSteps
    <3>2. FirstStep[Kind(d)] = "exec"
      BY DEF FirstStep, Runs
    <3> QED BY <1>0, <1>1, <3>1, <3>2, CallerSteps, CopiedFrame
  <2> QED BY <1>0, <1>1, <2>1, CallerSteps DEF Copied
<1>2. ASSUME NEW c \in DOMAIN job, Files(c) PROVE Copied'
  <2>1. ASSUME NEW d \in Runs PROVE CopiedBy(d)'
    <3>1. d # c
      BY <1>2, FilesLeave DEF Runs
    <3> QED BY <1>0, <1>2, <3>1, FilesLeave, CopiedFrame
  <2> QED BY <1>0, <1>2, <2>1, FilesLeave DEF Copied
<1>3. ASSUME NEW c \in DOMAIN job,
             \/ Run(c) \/ Command(c) \/ ChildPrintsAndExits(c) \/ ChildIsKilled(c)
             \/ \E s \in Streams : Scan(c, s)
      PROVE  Copied'
  <2>1. ASSUME NEW d \in Runs PROVE CopiedBy(d)'
    <3>1. CASE d = c
      BY <1>0, <1>3, <3>1, RunCopied
    <3>2. CASE d # c
      BY <1>0, <1>3, <3>2, CommandLeaves, CopiedFrame
    <3> QED BY <3>1, <3>2
  <2> QED BY <1>0, <1>3, <2>1, CommandLeaves DEF Copied
<1>4. CASE GuestStops \/ UNCHANGED vars
  BY <1>0, <1>4, CopiedFrame DEF GuestStops, vars, command, Copied
<1> QED BY <1>1, <1>2, <1>3, <1>4 DEF Next

LEMMA InitCopied == Init => Copied
<1> SUFFICES ASSUME Init, NEW c \in Runs PROVE CopiedBy(c)
  BY DEF Copied
<1>1. /\ c \in Calls /\ wrote[c] = 0 /\ left[c] = "none" /\ proc[c] = "none"
      /\ answer[c] = <<>> /\ pipe[c]["stdout"] = <<>> /\ handler[c] = "none"
  BY InitCore, RunFacts DEF Init
<1>2. SubSeq(job[c].lines, 1, 0) = <<>>
  BY SubSeqEmpty
<1>3. Printed(c) = <<>> \o <<>>
  BY <1>1, <1>2 DEF Printed
<1> QED BY <1>1, <1>3 DEF CopiedBy

LEMMA CopiedAlways == Spec => [](Core /\ Copied)
BY InitCore, InitCopied, CoreStep, CopiedStep, PTL DEF Spec

(* A blocking command that was answered has exited, so has every child     *)
(* with its output, and the answer is all they printed, for pipes of any   *)
(* size (cmdserver/main.go:185-218).                                       *)
THEOREM BlockingAlwaysComplete == Spec => []BlockingComplete
<1>1. ASSUME Core, Copied PROVE BlockingComplete
  <2> SUFFICES ASSUME NEW c \in DOMAIN job, Kind(c) = "run", call[c] = "ok"
               PROVE  /\ proc[c] = "exited" /\ left[c] # "running"
                      /\ answer[c] = job[c].lines
                           \o (IF job[c].child THEN <<ChildLine>> ELSE <<>>)
    BY DEF BlockingComplete
  <2>1. c \in Runs /\ CopiedBy(c) /\ handler[c] = "ok" /\ c \in Calls
    BY <1>1, RunFacts DEF Runs, Copied, Core, Kinds, KindOK
  <2>2. /\ proc[c] = "exited" /\ left[c] # "running" /\ left[c] # "killed"
        /\ pipe[c]["stdout"] = <<>> /\ wrote[c] = Len(job[c].lines)
        /\ left[c] # "none" <=> job[c].child
    BY <2>1 DEF CopiedBy
  <2>3. left[c] \in {"none", "running", "exited", "killed"}
    BY <1>1, <2>1 DEF Core, Types
  <2>4. answer[c] = Printed(c)
    BY <1>1, <2>1, <2>2, RunFacts, ConcatEmptySeq DEF CopiedBy
  <2>5. SubSeq(job[c].lines, 1, wrote[c]) = job[c].lines
    BY <1>1, <2>1, <2>2, RunFacts, SubSeqFull
  <2>6. left[c] = "exited" <=> job[c].child
    BY <2>2, <2>3
  <2> QED BY <2>2, <2>4, <2>5, <2>6 DEF Printed
<1> QED BY <1>1, CopiedAlways, PTL
=============================================================================
