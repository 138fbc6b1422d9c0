------------------------------ MODULE CmdServer ------------------------------
(***************************************************************************)
(* cmd/cmdserver, the HTTP server inside a guest, and its callers in       *)
(* pkg/server (VMCommand, VMFileUpload, VMFileDownload), which pass a      *)
(* request on with a client that gives up after 30 seconds.  The guest's   *)
(* handlers take no lock and do not look whether their caller is still     *)
(* there, so calls overlap, and go on after their caller was told of an    *)
(* error.  The guest may stop at any moment.                               *)
(*                                                                         *)
(* A path is a sequence of characters, of which only those matter that a   *)
(* path, a list of paths or a URL's query gives a meaning: another one     *)
(* stands for a run of text.  ".", ".." and repeated slashes, which the    *)
(* guest cleans from the path of an upload and of a download alike, are    *)
(* left out.  A file is a sequence of blocks.                              *)
(*                                                                         *)
(* What a command prints is a sequence of lines for stdout and stderr;     *)
(* a long line does not fit a bufio.Scanner (64KB), and a pipe holds       *)
(* PipeSize lines.  A command may leave a child behind when it exits,      *)
(* which has its output and prints one line.                               *)
(***************************************************************************)
EXTENDS Naturals, Sequences, SequencesExt, FiniteSets

CONSTANTS Calls,     \* requests of the REST API for one VM
          Jobs,      \* which of them are made, and what each asks for
          Old,       \* the files of the guest when it starts
          PipeSize

ASSUME PipeAssumption == PipeSize \in Nat \ {0}

VARIABLES
  job,       \* what each call that is made asks for
  call,      \* the call, at the REST server
  seen,      \* the calls that were answered "ok" before it was made
  handler,   \* where its handler in the guest is, or the answer it gave
  next,      \* the file it is at
  answer,    \* file contents or output for the answer
  files,     \* the guest's files
  proc,      \* the command
  wrote,     \* how many lines it printed
  pipe,      \* what is in its pipes
  scanning,  \* the pipes somebody reads
  left,      \* the child it left behind
  up         \* the guest runs

caller == <<call, seen>>
command == <<proc, wrote, pipe, scanning, left>>
vars == <<job, caller, handler, next, answer, files, command, up>>

Paths == Seq(STRING)
Empty == <<>>
baseDir == <<"/", "tmp/server_files/">>
Absolute(p) == p # Empty /\ Head(p) = "/"

(* Mutant of uploadPath: relative to the working directory. *)
pathFromRoot(p) == IF Absolute(p) THEN p ELSE <<"/">> \o p

(* A relative path is below baseDir; filepath.Join treats an absolute path *)
(* to be downloaded the same.                                              *)
uploadPath(p) == IF Absolute(p) THEN p ELSE baseDir \o p
downloadPath(p) == baseDir \o (IF Absolute(p) THEN Tail(p) ELSE p)

-----------------------------------------------------------------------------
(* The paths of a download on their way to the guest *)
Upto(s, x) ==
  IF ~Contains(s, x) THEN s
  ELSE SubSeq(s, 1, (CHOOSE i \in DOMAIN s : s[i] = x /\ \A j \in 1..(i - 1) : s[j] # x) - 1)

(* The value of the query parameter: the REST server puts the list into    *)
(* the URL as it is.  There "#" starts the fragment, which is not sent,    *)
(* and "&" another parameter; net/http refuses a request line with a       *)
(* space, and drops a parameter that has a semicolon or a "%" that starts  *)
(* no escape (in a fragment it refuses the URL).  An escape is one         *)
(* character here: "%2C" for the comma and "%41" for those of text.        *)
filesParam(s) ==
  LET sent == Upto(s, "#")
      value == Upto(sent, "&")
      unescaped == [i \in DOMAIN value |->
                      CASE value[i] = "+" -> " " [] value[i] = "%2C" -> ","
                        [] value[i] = "%41" -> "A" [] OTHER -> value[i]]
  IN IF \/ Contains(sent, " ") \/ Contains(value, ";") \/ Contains(value, "%")
        \/ \E i, j \in DOMAIN s : i < j /\ s[i] = "#" /\ s[j] = "%"
       THEN <<>> ELSE unescaped

(* strings.Split(s, ","): what is between two cuts, the ends among them. *)
Commas(s) == {i \in DOMAIN s : s[i] = ","}
Cut(s, k) ==
  CHOOSE i \in Commas(s) \cup {0, Len(s) + 1} :
    Cardinality({j \in Commas(s) \cup {0} : j < i}) = k
Split(s) ==
  [k \in 1..(Cardinality(Commas(s)) + 1) |-> SubSeq(s, Cut(s, k - 1) + 1, Cut(s, k) - 1)]

filePaths(s) == Split(filesParam(s))

-----------------------------------------------------------------------------
Unread == <<"unread">>
Content(c, i) == job[c].files[i].content

Streams == {"stdout", "stderr"}
ChildLine == [to |-> "stdout", long |-> FALSE]

(* What a caller can ask for: files to be written, a list of paths to be   *)
(* read, with commas in between, or a command, which prints and may leave  *)
(* a child behind.                                                         *)
Lines == [to : Streams, long : BOOLEAN]

ASSUME JobsAssumption ==
  \A j \in Jobs :
    /\ DOMAIN j \subseteq Calls
    /\ \A c \in DOMAIN j :
         \/ /\ j[c].kind = "upload"
            /\ j[c].files \in Seq([path : Paths, content : Seq(STRING)])
         \/ j[c].kind = "download" /\ j[c].paths \in Paths
         \/ /\ j[c].kind \in {"run", "start"}
            /\ j[c].lines \in Seq(Lines) /\ j[c].child \in BOOLEAN

ASSUME OldAssumption == Old \in [DOMAIN Old -> Seq(STRING)]

Init ==
  /\ job \in Jobs
  /\ call = [c \in Calls |-> "idle"]
  /\ seen = [c \in Calls |-> {}]
  /\ handler = [c \in Calls |-> "none"]
  /\ next = [c \in Calls |-> 1]
  /\ answer = [c \in Calls |-> <<>>]
  /\ files = Old
  /\ proc = [c \in Calls |-> "none"]
  /\ wrote = [c \in Calls |-> 0]
  /\ pipe = [c \in Calls |-> [s \in Streams |-> <<>>]]
  /\ scanning = [c \in Calls |-> Streams]
  /\ left = [c \in Calls |-> "none"]
  /\ up = TRUE

-----------------------------------------------------------------------------
(* The REST server *)
FirstStep == [upload |-> "files", download |-> "paths", run |-> "exec", start |-> "exec"]

Send(c) ==
  /\ up
  /\ call[c] = "idle"
  /\ job[c].kind = "download" => job[c].paths # Empty
  /\ call' = [call EXCEPT ![c] = "sent"]
  /\ seen' = [seen EXCEPT ![c] = {d \in Calls : call[d] = "ok"}]
  /\ handler' = [handler EXCEPT ![c] = FirstStep[job[c].kind]]
  /\ UNCHANGED <<job, next, answer, files, command, up>>

(* An empty request, no such VM, or nobody listens at its address. *)
SendFails(c) ==
  /\ call[c] = "idle"
  /\ call' = [call EXCEPT ![c] = "error"]
  /\ UNCHANGED <<job, seen, handler, next, answer, files, command, up>>

Answers == {"ok", "commandError", "error"}

Answered(c) ==
  /\ call[c] = "sent"
  /\ handler[c] \in Answers
  /\ call' = [call EXCEPT ![c] = handler[c]]
  /\ UNCHANGED <<job, seen, handler, next, answer, files, command, up>>

(* 30 seconds are over, the user went away, or the connection broke. *)
GivesUp(c) ==
  /\ call[c] = "sent"
  /\ call' = [call EXCEPT ![c] = "error"]
  /\ UNCHANGED <<job, seen, handler, next, answer, files, command, up>>

-----------------------------------------------------------------------------
(* The guest *)
Goto(c, from, to) ==
  /\ up
  /\ handler[c] = from
  /\ handler' = [handler EXCEPT ![c] = to]

(* uploadFileHandler *)
Path(c) == uploadPath(job[c].files[next[c]].path)

SkipFile(c) ==
  /\ Goto(c, "files", "files")
  /\ next[c] \in DOMAIN job[c].files /\ job[c].files[next[c]].path = Empty
  /\ next' = [next EXCEPT ![c] = @ + 1]
  /\ UNCHANGED <<job, caller, answer, files, command, up>>

WithFile(p, content) ==
  [q \in DOMAIN files \cup {p} |-> IF q = p THEN content ELSE files[q]]

(* Mutant: a file that exists is not truncated. *)
OpenFile(c) ==
  /\ Goto(c, "files", "write")
  /\ next[c] \in DOMAIN job[c].files /\ job[c].files[next[c]].path # Empty
  /\ files' = WithFile(Path(c), IF Path(c) \in DOMAIN files THEN files[Path(c)] ELSE <<>>)
  /\ UNCHANGED <<job, caller, next, answer, command, up>>

(* Mutant: an empty path is not skipped. *)
CreateAnyFile(c) ==
  /\ Goto(c, "files", "write")
  /\ next[c] \in DOMAIN job[c].files
  /\ files' = WithFile(Path(c), <<>>)
  /\ UNCHANGED <<job, caller, next, answer, command, up>>

CreateFile(c) ==
  /\ Goto(c, "files", "write")
  /\ next[c] \in DOMAIN job[c].files /\ job[c].files[next[c]].path # Empty
  /\ files' = WithFile(Path(c), <<>>)
  /\ UNCHANGED <<job, caller, next, answer, command, up>>

CreateFileFails(c) ==
  /\ Goto(c, "files", "error")
  /\ next[c] \in DOMAIN job[c].files /\ job[c].files[next[c]].path # Empty
  /\ UNCHANGED <<job, caller, next, answer, files, command, up>>

(* Mutant of Overwritten: the file was opened to be appended to. *)
Appended(old, new) == old \o new

(* Blocks written from the start of the file, over what another upload may *)
(* have put there since it was truncated.                                  *)
Overwritten(old, new) == new \o SubSeq(old, Len(new) + 1, Len(old))

WriteString(c) ==
  /\ Goto(c, "write", "files")
  /\ files' = [files EXCEPT ![Path(c)] = Overwritten(@, Content(c, next[c]))]
  /\ next' = [next EXCEPT ![c] = @ + 1]
  /\ UNCHANGED <<job, caller, answer, command, up>>

(* No space left: some of it was written. *)
WriteStringFails(c) ==
  /\ Goto(c, "write", "error")
  /\ \E n \in 0..(Len(Content(c, next[c])) - 1) :
       files' = [files EXCEPT ![Path(c)] =
                   Overwritten(@, SubSeq(Content(c, next[c]), 1, n))]
  /\ UNCHANGED <<job, caller, next, answer, command, up>>

UploadDone(c) ==
  /\ Goto(c, "files", "ok")
  /\ next[c] = Len(job[c].files) + 1
  /\ UNCHANGED <<job, caller, next, answer, files, command, up>>

(* downloadFileHandler: no paths, or a request net/http refuses *)
BadQuery(c) ==
  /\ Goto(c, "paths", "error")
  /\ filesParam(job[c].paths) = <<>>
  /\ UNCHANGED <<job, caller, next, answer, files, command, up>>

(* A file that cannot be read has an error of its own and does not fail    *)
(* the request.                                                            *)
ReadFile(c) ==
  /\ Goto(c, "paths", "paths")
  /\ filesParam(job[c].paths) # <<>>
  /\ next[c] \in DOMAIN filePaths(job[c].paths)
  /\ LET p == downloadPath(filePaths(job[c].paths)[next[c]])
         read == IF p \in DOMAIN files THEN files[p] ELSE Unread
     IN answer' = [answer EXCEPT ![c] = Append(@, read)]
  /\ next' = [next EXCEPT ![c] = @ + 1]
  /\ UNCHANGED <<job, caller, files, command, up>>

DownloadDone(c) ==
  /\ Goto(c, "paths", "ok")
  /\ next[c] = Len(filePaths(job[c].paths)) + 1
  /\ UNCHANGED <<job, caller, next, answer, files, command, up>>

-----------------------------------------------------------------------------
(* runCommandHandler *)
Blocking(c) == job[c].kind = "run"

(* A background command is answered as soon as it runs. *)
StartCommand(c) ==
  /\ Goto(c, "exec", IF Blocking(c) THEN "wait" ELSE "ok")
  /\ proc' = [proc EXCEPT ![c] = "running"]
  /\ UNCHANGED <<job, caller, next, answer, files, wrote, pipe, scanning, left, up>>

StartCommandFails(c) ==
  /\ Goto(c, "exec", "commandError")
  /\ UNCHANGED <<job, caller, next, answer, files, command, up>>

(* Mutant: what is still in the pipe, and whoever may still write to it,   *)
(* is not waited for.                                                      *)
OutputSoFar(c) ==
  /\ Goto(c, "wait", "ok")
  /\ proc[c] = "exited"
  /\ UNCHANGED <<job, caller, next, answer, files, command, up>>

(* CombinedOutput: one pipe for both streams, copied to its end. *)
CombinedOutput(c) ==
  /\ Goto(c, "wait", "ok")
  /\ proc[c] = "exited" /\ left[c] # "running"
  /\ pipe[c].stdout = <<>>
  /\ UNCHANGED <<job, caller, next, answer, files, command, up>>

CopyOutput(c) ==
  /\ up /\ handler[c] = "wait"
  /\ pipe[c].stdout # <<>>
  /\ answer' = [answer EXCEPT ![c] = Append(@, Head(pipe[c].stdout))]
  /\ pipe' = [pipe EXCEPT ![c].stdout = Tail(@)]
  /\ UNCHANGED <<job, caller, handler, next, files, proc, wrote, scanning, left, up>>

(* Mutant: nobody reads stderr. *)
ScanStdout(c, s) ==
  /\ up /\ proc[c] # "none" /\ ~Blocking(c)
  /\ s \in scanning[c] \ {"stderr"} /\ pipe[c][s] # <<>>
  /\ pipe' = [pipe EXCEPT ![c][s] = Tail(@)]
  /\ scanning' = [scanning EXCEPT ![c] = IF Head(pipe[c][s]).long THEN @ \ {s} ELSE @]
  /\ UNCHANGED <<job, caller, handler, next, answer, files, proc, wrote, left, up>>

(* The goroutines of a background command log its lines.  Scan returns     *)
(* false at a line that is too long, and nobody reads the pipe any more.   *)
Scan(c, s) ==
  /\ up /\ proc[c] # "none" /\ ~Blocking(c)
  /\ s \in scanning[c] /\ pipe[c][s] # <<>>
  /\ pipe' = [pipe EXCEPT ![c][s] = Tail(@)]
  /\ scanning' = [scanning EXCEPT ![c] = IF Head(pipe[c][s]).long THEN @ \ {s} ELSE @]
  /\ UNCHANGED <<job, caller, handler, next, answer, files, proc, wrote, left, up>>

(* cmd.Wait closes the pipes, read to their end or not. *)
Wait(c) ==
  /\ up /\ proc[c] = "exited" /\ ~Blocking(c)
  /\ proc' = [proc EXCEPT ![c] = "reaped"]
  /\ pipe' = [pipe EXCEPT ![c] = [s \in Streams |-> <<>>]]
  /\ scanning' = [scanning EXCEPT ![c] = {}]
  /\ UNCHANGED <<job, caller, handler, next, answer, files, wrote, left, up>>

-----------------------------------------------------------------------------
(* The command and its child *)
Into(c, line) == IF Blocking(c) THEN "stdout" ELSE line.to

WriteLine(c) ==
  /\ up /\ proc[c] = "running" /\ wrote[c] < Len(job[c].lines)
  /\ LET line == job[c].lines[wrote[c] + 1]
     IN /\ Len(pipe[c][Into(c, line)]) < PipeSize
        /\ pipe' = [pipe EXCEPT ![c][Into(c, line)] = Append(@, line)]
  /\ wrote' = [wrote EXCEPT ![c] = @ + 1]
  /\ UNCHANGED <<job, caller, handler, next, answer, files, proc, scanning, left, up>>

Exit(c) ==
  /\ up /\ proc[c] = "running" /\ wrote[c] = Len(job[c].lines)
  /\ proc' = [proc EXCEPT ![c] = "exited"]
  /\ left' = [left EXCEPT ![c] = IF job[c].child THEN "running" ELSE @]
  /\ UNCHANGED <<job, caller, handler, next, answer, files, wrote, pipe, scanning, up>>

ChildPrintsAndExits(c) ==
  /\ up /\ left[c] = "running" /\ proc[c] # "reaped"
  /\ Len(pipe[c].stdout) < PipeSize
  /\ pipe' = [pipe EXCEPT ![c].stdout = Append(@, ChildLine)]
  /\ left' = [left EXCEPT ![c] = "exited"]
  /\ UNCHANGED <<job, caller, handler, next, answer, files, proc, wrote, scanning, up>>

(* SIGPIPE *)
ChildIsKilled(c) ==
  /\ up /\ left[c] = "running" /\ proc[c] = "reaped"
  /\ left' = [left EXCEPT ![c] = "killed"]
  /\ UNCHANGED <<job, caller, handler, next, answer, files, proc, wrote, pipe, scanning, up>>

GuestStops ==
  /\ up
  /\ up' = FALSE
  /\ UNCHANGED <<job, caller, handler, next, answer, files, command>>

-----------------------------------------------------------------------------
Files(c) ==
  \/ SkipFile(c) \/ CreateFile(c) \/ CreateFileFails(c)
  \/ WriteString(c) \/ WriteStringFails(c) \/ UploadDone(c)
  \/ BadQuery(c) \/ ReadFile(c) \/ DownloadDone(c)

Run(c) ==
  \/ StartCommand(c) \/ StartCommandFails(c)
  \/ CombinedOutput(c) \/ CopyOutput(c) \/ Wait(c)

Command(c) == WriteLine(c) \/ Exit(c)

Next ==
  \/ \E c \in DOMAIN job :
       \/ Send(c) \/ SendFails(c) \/ Answered(c) \/ GivesUp(c)
       \/ Files(c) \/ Run(c) \/ \E s \in Streams : Scan(c, s)
       \/ Command(c) \/ ChildPrintsAndExits(c) \/ ChildIsKilled(c)
  \/ GuestStops

Spec == Init /\ [][Next]_vars

(* The goroutines that run a command and read its output run, and a        *)
(* command that can go on does.  Nothing is said of the callers, of the    *)
(* other handlers, nor of a child that was left behind: it may be a        *)
(* daemon.                                                                 *)
Fairness ==
  \A c \in Calls :
    /\ WF_vars(Run(c))
    /\ \A s \in Streams : WF_vars(Scan(c, s))
    /\ WF_vars(Command(c))

FairSpec == Spec /\ Fairness

-----------------------------------------------------------------------------
(* Properties *)
Kind(c) == job[c].kind
Uploads == {c \in DOMAIN job : Kind(c) = "upload"}
Commands == {c \in DOMAIN job : Kind(c) \in {"run", "start"}}

PathOf(c, i) == uploadPath(job[c].files[i].path)

(* The i-th file of upload c, which no other upload and no other entry of  *)
(* it writes.                                                              *)
OnlyWriter(c, i) ==
  \A d \in Uploads : \A j \in DOMAIN job[d].files :
    <<d, j>> = <<c, i>> \/ PathOf(d, j) # PathOf(c, i)

Holds(c, i) == PathOf(c, i) \in DOMAIN files /\ files[PathOf(c, i)] = Content(c, i)

(* Only a command has processes, and only a file with a name is written.   *)
CmdTypeOK ==
  /\ call \in [Calls -> {"idle", "sent"} \cup Answers]
  /\ handler \in [Calls -> {"none", "files", "write", "paths", "exec", "wait"} \cup Answers]
  /\ \A c \in DOMAIN job :
       /\ handler[c] = "write" => job[c].files[next[c]].path # Empty
       /\ c \notin Commands => proc[c] = "none"
       /\ wrote[c] > 0 => proc[c] # "none" /\ wrote[c] <= Len(job[c].lines)
       /\ \A s \in Streams : Len(pipe[c][s]) <= PipeSize
  /\ proc \in [Calls -> {"none", "running", "exited", "reaped"}]
  /\ left \in [Calls -> {"none", "running", "exited", "killed"}]
  /\ scanning \in [Calls -> SUBSET Streams]
  /\ up \in BOOLEAN

(* The files of an upload are written one after the other, each with its   *)
(* whole content and nothing of what was there before; those behind the    *)
(* one that failed are not touched.  So an upload that was answered "ok"   *)
(* left all of its files whole, and one whose caller gave up leaves them   *)
(* so in the end (cmdserver/main.go:42-69).                                *)
UploadsInOrder ==
  \A c \in Uploads : \A i \in DOMAIN job[c].files :
    OnlyWriter(c, i) /\ job[c].files[i].path # Empty =>
      LET p == PathOf(c, i) IN
      /\ i < next[c] \/ call[c] = "ok" => Holds(c, i)
      /\ i > next[c] =>
           IF p \in DOMAIN Old THEN files[p] = Old[p] ELSE p \notin DOMAIN files

(* No character that filesParam gives a meaning. *)
Plain(s) == \A i \in DOMAIN s : s[i] \notin {"#", "&", ";", "+", "%", "%2C", "%41", " "}

(* A file that was uploaded under a relative path is downloaded under that *)
(* path with the content uploaded, by every download made after the upload *)
(* was answered (cmdserver/main.go:49-53, 82-102, server.go:1859-1907,     *)
(* 1946-1983), if the list of paths means the same in a URL.  A list that  *)
(* does not reads other files or none, and under an absolute path the      *)
(* download looks for the path below baseDir; both are answered "ok".      *)
ReadYourUploads ==
  \A d \in DOMAIN job : Kind(d) = "download" /\ call[d] = "ok" /\ Plain(job[d].paths) =>
    \A c \in seen[d] \cap Uploads : \A i \in DOMAIN job[c].files :
      LET p == job[c].files[i].path IN
      OnlyWriter(c, i) /\ p # Empty /\ ~Absolute(p) =>
        \A k \in DOMAIN Split(job[d].paths) :
          Split(job[d].paths)[k] = p => answer[d][k] = Content(c, i)

(* Entry j of upload d writes the file the i-th of c does. *)
Writes(d, j, c, i) == job[d].files[j].path # Empty /\ PathOf(d, j) = PathOf(c, i)

(* An upload and its retries, whose handlers overlap when a caller gave up *)
(* (server.go:1867, 1899): if all that write a file write the same to it,  *)
(* c has written it, and none is between its os.Create and the end of its  *)
(* write or failed there, the file is whole, in whatever order they were   *)
(* truncated and written (cmdserver/main.go:56-70).                        *)
RetriesAreWhole ==
  \A c \in Uploads : \A i \in DOMAIN job[c].files :
    /\ job[c].files[i].path # Empty
    /\ i < next[c]
    /\ \A d \in Uploads : \A j \in DOMAIN job[d].files :
         Writes(d, j, c, i) =>
           /\ Content(d, j) = Content(c, i)
           /\ ~(next[d] = j /\ handler[d] \in {"write", "error"})
    => Holds(c, i)

(* server-api.yaml:474, "Whether to wait for the command to complete       *)
(* before returning": a blocking command that was answered has exited, and *)
(* so has every child that had its output, and the answer is all they      *)
(* printed, long lines included (cmdserver/main.go:185-218).               *)
BlockingComplete ==
  \A c \in DOMAIN job : Kind(c) = "run" /\ call[c] = "ok" =>
    /\ proc[c] = "exited" /\ left[c] # "running"
    /\ answer[c] = job[c].lines \o (IF job[c].child THEN <<ChildLine>> ELSE <<>>)

(* A command that would end is not held up by its output, whether or not   *)
(* its caller is still there: somebody reads both pipes to their end.  Of  *)
(* background commands this is said of those that print no long line       *)
(* (cmdserver/main.go:267-288).                                            *)
CommandsEnd ==
  \A c \in Calls :
    proc[c] = "running" /\ (Blocking(c) \/ \A k \in DOMAIN job[c].lines : ~job[c].lines[k].long)
      ~> proc[c] # "running" \/ ~up
=============================================================================
