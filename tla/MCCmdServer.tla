----------------------------- MODULE MCCmdServer -----------------------------
(* Small instances of CmdServer: calls that use the same files, and        *)
(* commands next to each other.                                             *)
EXTENDS CmdServer, TLC

CONSTANTS c1, c2, c3

MCCalls == {c1, c2, c3}

File(p, content) == [path |-> p, content |-> content]
Upload(fs) == [kind |-> "upload", files |-> fs]
Download(ps) == [kind |-> "download", paths |-> ps]

Out(l) == [to |-> "stdout", long |-> l]
Err == [to |-> "stderr", long |-> FALSE]
Cmd(k, ls, c) == [kind |-> k, lines |-> ls, child |-> c]

MCOld == uploadPath(<<"a">>) :> <<"old", "old", "old">>

Three(p) == Upload(<<File(<<"a">>, <<"x", "y">>), File(Empty, <<"x">>), File(p, <<"z">>)>>)
One(p) == Upload(<<File(p, <<"w">>)>>)

(* An upload of file a, an empty path and a second file; its retry, or     *)
(* another upload, of file a too or not; a download of both files.         *)
FileJobs ==
  { c1 :> Three(p) @@ c2 :> second @@ c3 :> Download(<<"a", ",">> \o p) :
      p \in {<<"b">>, <<"/", "b">>, <<"b", "+">>},
      second \in {Three(<<"b">>), One(<<"a">>), One(<<"c">>)} }

(* Lists that mean something else in a URL: less, more paths, or nothing.  *)
OddLists ==
  { <<"a", "#", ",", "b">>, <<"b", "%2C", "a">>, <<"&", "a">>, <<"a", ";">>,
    <<"a", ",", " ", "b">>, <<"a", "%">>, <<"a", "#", "%">>, <<"%41">> }

OddJobs == { c1 :> One(<<"a">>) @@ c3 :> Download(ps) : ps \in OddLists }

Outputs == {<<>>, <<Out(FALSE), Err, Err>>, <<Out(TRUE), Out(FALSE), Out(FALSE)>>}

CommandJobs ==
  { c1 :> Cmd("run", x, child) @@ c2 :> Cmd("start", y, child) :
      x \in Outputs, y \in Outputs, child \in BOOLEAN }

MCJobs == FileJobs \cup OddJobs \cup CommandJobs
=============================================================================
