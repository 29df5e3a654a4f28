------------------------------ MODULE Request -------------------------------
(***************************************************************************)
(* One request as the thread pool server serves it: doit and the functions *)
(* it calls (septhreadpool_server.c), on one connection.  The client sends *)
(* some lines and closes its side; the file its URI names may change while *)
(* the request is served, and the client may leave at any time.            *)
(*                                                                         *)
(* A line is abstracted to what doit distinguishes: a GET request line for *)
(* a file or for a CGI program, any other request line, a header, or an    *)
(* empty line, which ends the headers.  Rio_readlineb delivers one line per  *)
(* call (modules Rio, LineReader); at the end of the stream it returns 0   *)
(* and leaves the caller's buffer as it was, which no caller looks at.     *)
(* The child of serve_dynamic is followed to its end.  The rest of the     *)
(* server is environment: the SIGCHLD handler and the Wait of any other    *)
(* worker may reap this child, and this Wait may return for another's.     *)
(* The system may refuse what doit asks of it at any time: a descriptor,   *)
(* memory, a process.                                                      *)
(*                                                                         *)
(* No name is also one of Rio: ConnectionProofs extends both modules.      *)
(***************************************************************************)
EXTENDS Naturals, Sequences

CONSTANTS
  Requests,        \* what clients send: a set of sequences of lines
  FilesChange,     \* whether files change while they are served
  ClientsLeave     \* whether clients leave before the end of the reply

RequestLines == {"static", "dynamic", "other"}
Lines == RequestLines \cup {"header", "blank"}

ASSUME RequestAssumption ==
  /\ Requests \subseteq Seq(Lines)
  /\ FilesChange \in BOOLEAN /\ ClientsLeave \in BOOLEAN

(* What doit and the calls after it can meet under a name: stat fails; not *)
(* a regular file, or without its owner's permission; an empty file; one   *)
(* that passes the tests of doit, which look at the owner's bits, but that *)
(* the server cannot open or run; a file it can.                           *)
Files == {"absent", "forbidden", "empty", "closed", "full"}
Served == {"empty", "closed", "full"}

VARIABLES
  sent,      \* what the client sends on this connection
  lines,     \* what doit has not read of it
  file,      \* the file that the URI names
  left,      \* the client has left
  changed,   \* the file has changed since the request began
  line,      \* doit's method and uri: what it makes of the request line
  hdr,       \* read_requesthdrs's buf
  size,      \* the size that stat returned
  at,        \* where doit is
  todo,      \* what the calls of Rio_writen ahead write
  out,       \* what the client was sent
  child,     \* the child that serve_dynamic forks
  refused    \* the system has refused the server or its child something

input == <<sent, file, left, changed>>
forked == <<child, refused>>
vars == <<sent, lines, file, left, changed, line, hdr, size, at, todo, out, child, refused>>

RequestTypeOK ==
  /\ sent \in Requests /\ lines \in Seq(Lines)
  /\ file \in Files
  /\ left \in BOOLEAN /\ changed \in BOOLEAN
  /\ line \in RequestLines /\ hdr \in Lines
  /\ size \in {0, 1}
  /\ at \in {"line", "firsthdr", "hdrs", "stat", "error", "head", "open", "body",
             "munmap", "cgihead", "fork", "wait", "done", "exited"}
  /\ todo \in Seq({"501", "404", "403", "200", "type", "length", "server", "body"})
  /\ out \in Seq({"501", "404", "403", "200", "type", "length", "server", "body", "output", "log"})
  /\ child \in {"none", "running", "ended", "reaped"} /\ refused \in BOOLEAN

(* line and hdr are locals: they hold what the stack held before.          *)
RequestInit ==
  /\ sent \in Requests /\ lines = sent
  /\ file \in Files
  /\ left = FALSE /\ changed = FALSE
  /\ line \in RequestLines /\ hdr \in {"header", "blank"}
  /\ size = 0
  /\ at = "line"
  /\ todo = << >> /\ out = << >>
  /\ child = "none" /\ refused = FALSE

-----------------------------------------------------------------------------
Goto(from, to) == at = from /\ at' = to

(* Faulty: an empty string at the end of the stream.                       *)
ReadlineEmpties(b, old) ==
  IF lines = << >> THEN b = "" /\ UNCHANGED lines
                   ELSE b = Head(lines) /\ lines' = Tail(lines)

(* Rio_readlineb(&rio, b, MAXLINE), where old is what the buffer b holds.  *)
Readline(b, old) ==
  IF lines = << >> THEN b = old /\ UNCHANGED lines
                   ELSE b = Head(lines) /\ lines' = Tail(lines)

(* Faulty: the page is not written.                                        *)
ClienterrorNoPage(from, errnum) ==
  /\ Goto(from, "error")
  /\ todo' = <<errnum, "type", "length">>

(* clienterror: four writes.                                               *)
Clienterror(from, errnum) ==
  /\ Goto(from, "error")
  /\ todo' = <<errnum, "type", "length", "body">>

(* The method that sscanf finds in the request line: in a header one that  *)
(* is not GET; in an empty line none, and method and uri hold what the     *)
(* stack held before.                                                      *)
Parse(l) == CASE l \in RequestLines -> {l}
              [] l = "header" -> {"other"}
              [] l = "blank" -> RequestLines

(* The request line, of which doit looks at the method.                    *)
ReadLine ==
  /\ \E l \in Lines : Readline(l, line) /\ line' \in Parse(l)
  /\ IF line' = "other"
     THEN Clienterror("line", "501")
     ELSE Goto("line", "firsthdr") /\ UNCHANGED todo
  /\ UNCHANGED <<input, hdr, size, out, forked>>

(* Faulty: compares with another end of line.                              *)
ReadHdrNoBlank ==
  /\ \/ Goto("firsthdr", "hdrs") /\ Readline(hdr', hdr)
     \/ Goto("hdrs", "hdrs") /\ Readline(hdr', hdr)
  /\ UNCHANGED <<input, line, size, todo, out, forked>>

(* read_requesthdrs                                                        *)
ReadHdr ==
  /\ \/ Goto("firsthdr", "hdrs") /\ Readline(hdr', hdr)
     \/ Goto("hdrs", "hdrs") /\ hdr # "blank" /\ Readline(hdr', hdr)
     \/ Goto("hdrs", "stat") /\ hdr = "blank" /\ UNCHANGED <<hdr, lines>>
  /\ UNCHANGED <<input, line, size, todo, out, forked>>

(* A read from a client that has left may fail; Rio_readlineb exits.       *)
ReadlineError ==
  /\ left
  /\ at \in {"line", "firsthdr"} \/ (at = "hdrs" /\ hdr # "blank")
  /\ at' = "exited"
  /\ UNCHANGED <<input, lines, line, hdr, size, todo, out, forked>>

(* Faulty: does not test the permissions.                                  *)
StatNoPermission ==
  /\ \/ file = "absent" /\ Clienterror("stat", "404") /\ UNCHANGED size
     \/ /\ file # "absent"
        /\ size' = IF file = "empty" THEN 0 ELSE 1
        /\ IF line = "dynamic"
           THEN Goto("stat", "cgihead") /\ todo' = <<"200", "server">>
           ELSE Goto("stat", "head") /\ todo' = <<"200">>
  /\ UNCHANGED <<input, lines, line, hdr, out, forked>>

(* stat and the tests on its result.                                       *)
Stat ==
  /\ \/ file = "absent" /\ Clienterror("stat", "404") /\ UNCHANGED size
     \/ file = "forbidden" /\ Clienterror("stat", "403") /\ UNCHANGED size
     \/ /\ file \in Served
        /\ size' = IF file = "empty" THEN 0 ELSE 1
        /\ IF line = "dynamic"
           THEN Goto("stat", "cgihead") /\ todo' = <<"200", "server">>
           ELSE Goto("stat", "head") /\ todo' = <<"200">>
  /\ UNCHANGED <<input, lines, line, hdr, out, forked>>

(* A write to a client that has left may still be buffered, or fail.       *)
(* Rio_writen then exits; the second write of serve_dynamic is a plain     *)
(* rio_writen.                                                             *)
Write ==
  /\ todo # << >>
  /\ \/ /\ ~left
        /\ out' = Append(out, Head(todo)) /\ todo' = Tail(todo)
        /\ UNCHANGED at
     \/ /\ left
        /\ todo' = Tail(todo)
        /\ UNCHANGED <<out, at>>
     \/ /\ left /\ Head(todo) # "server"
        /\ at' = "exited" /\ todo' = << >>
        /\ UNCHANGED out
  /\ UNCHANGED <<input, lines, line, hdr, size, forked>>

(* What follows when the writes are done.                                  *)
Written ==
  /\ todo = << >>
  /\ \/ Goto("error", "done")
     \/ Goto("head", "open")
     \/ Goto("body", "munmap")
     \/ Goto("cgihead", "fork")
  /\ UNCHANGED <<input, lines, line, hdr, size, todo, out, forked>>

(* open, mmap, Close(srcfd).  Nothing looks at the results of open and     *)
(* mmap.  If open fails, Close(-1) exits; if mmap does, or the file has    *)
(* shrunk, writing from there does.  mmap of no bytes fails, but nothing   *)
(* is written.  A file whose owner may not read it may still open.         *)
Open ==
  /\ \/ /\ file \in {"absent", "closed", "forbidden"} \/ (size = 1 /\ file = "empty")
        /\ Goto("open", "exited") /\ UNCHANGED <<todo, refused>>
     \/ Goto("open", "exited") /\ refused' = TRUE /\ UNCHANGED todo
     \/ /\ file \in {"forbidden", "full"} \/ (size = 0 /\ file = "empty")
        /\ Goto("open", "body") /\ UNCHANGED refused
        /\ todo' = IF size = 0 THEN << >> ELSE <<"body">>
  /\ UNCHANGED <<input, lines, line, hdr, size, out, child>>

(* mmap of no bytes has failed, and so does Munmap.                        *)
DoMunmap ==
  /\ Goto("munmap", IF size = 0 THEN "exited" ELSE "done")
  /\ UNCHANGED <<input, lines, line, hdr, size, todo, out, forked>>

(* Fork, which exits if the system refuses it.                             *)
Fork ==
  /\ \/ Goto("fork", "wait") /\ child' = "running" /\ UNCHANGED refused
     \/ Goto("fork", "exited") /\ refused' = TRUE /\ UNCHANGED child
  /\ UNCHANGED <<input, lines, line, hdr, size, todo, out>>

(* Wait(NULL), which exits if there is no child left to wait for.          *)
Wait ==
  /\ \/ child = "ended" /\ child' = "reaped" /\ Goto("wait", "done")
     \/ child = "reaped" /\ UNCHANGED child /\ Goto("wait", "exited")
  /\ UNCHANGED <<input, lines, line, hdr, size, todo, out, refused>>

Doit == \/ ReadLine \/ ReadHdr \/ ReadlineError \/ Stat \/ Write \/ Written \/ Open \/ DoMunmap
        \/ Fork \/ Wait

-----------------------------------------------------------------------------
Gets(x) == out' = IF left THEN out ELSE Append(out, x)

(* The child runs the program on the connection, to its end.  If it cannot *)
(* be run, Execve exits, and exit writes what the server's stdio buffer    *)
(* held at the fork, its log, to the connection, if it held anything.      *)
ChildEnds ==
  /\ child = "running" /\ child' = "ended"
  /\ \/ file \in {"forbidden", "full"} /\ Gets("output") /\ UNCHANGED refused
     \/ /\ IF file = "full" THEN refused' = TRUE ELSE UNCHANGED refused
        /\ Gets("log") \/ UNCHANGED out
  /\ UNCHANGED <<input, lines, line, hdr, size, at, todo>>

(* The handler, or the Wait of another worker.                             *)
Reap ==
  /\ child = "ended" /\ child' = "reaped"
  /\ UNCHANGED <<input, lines, line, hdr, size, at, todo, out, refused>>

(* A child of another worker ends, and Wait returns for it.                *)
WaitReturnsEarly ==
  /\ Goto("wait", "done")
  /\ UNCHANGED <<input, lines, line, hdr, size, todo, out, forked>>

(* Nothing more can reach the client: its end of stream.                   *)
Over == at \in {"done", "exited"} /\ child # "running"

ClientLeaves ==
  /\ ClientsLeave /\ ~left /\ ~Over
  /\ left' = TRUE
  /\ UNCHANGED <<sent, lines, file, changed, line, hdr, size, at, todo, out, forked>>

FileChanges ==
  /\ FilesChange /\ ~Over
  /\ file' \in Files \ {file}
  /\ changed' = TRUE
  /\ UNCHANGED <<sent, lines, left, line, hdr, size, at, todo, out, forked>>

RequestNext == \/ Doit \/ ChildEnds \/ Reap \/ WaitReturnsEarly
               \/ ClientLeaves \/ FileChanges

RequestSpec == RequestInit /\ [][RequestNext]_vars
FairRequestSpec == RequestSpec /\ WF_vars(Doit) /\ WF_vars(ChildEnds)
-----------------------------------------------------------------------------
(* The method of the client's first line.                                  *)
Method == IF Head(sent) = "header" THEN "other" ELSE Head(sent)

(* A request with the end of its headers, if doit is to read them.         *)
Whole ==
  /\ sent # << >> /\ Head(sent) # "blank"
  /\ Method = "other" \/ \E i \in 2..Len(sent) : sent[i] = "blank"

ErrorPage(errnum) == <<errnum, "type", "length", "body">>

(* The replies to a request, by its method and its file.  A program that   *)
(* cannot be run has been answered 200 before Execve fails: its client     *)
(* gets no output, or the server's log in its place.                       *)
RepliesTo ==
  CASE Method = "other" -> {ErrorPage("501")}
    [] Method # "other" /\ file = "absent" -> {ErrorPage("404")}
    [] Method # "other" /\ file = "forbidden" -> {ErrorPage("403")}
    [] Method = "static" /\ file \in Served -> {<<"200", "body">>}
    [] Method = "dynamic" /\ file = "full" /\ ~refused -> {<<"200", "server", "output">>}
    [] Method = "dynamic" /\ file \in Served /\ (file = "full" => refused) ->
         {<<"200", "server">>, <<"200", "server", "log">>}

(* A client that sends a whole request, stays, and names a file that does  *)
(* not change, on a server that does not exit meanwhile, has at its end of *)
(* stream exactly one reply, the one that its method and its file call     *)
(* for: no page of a file that is empty or could not be opened, whichever  *)
(* child Wait returned for, whatever the stack held and whatever follows   *)
(* the headers.  The server's log is in it only if a program that passed   *)
(* the tests of doit could not be run.                                     *)
RightReply == at = "done" /\ Over /\ Whole /\ ~left /\ ~changed => out \in RepliesTo

(* A request makes a wrapper exit the server only if its client leaves,    *)
(* its file changes meanwhile, the system refuses a call, the child is     *)
(* reaped by others than its Wait, or a page is asked for that is empty or *)
(* passes doit's tests and cannot be opened.                               *)
ExitsForCause ==
  at = "exited" => \/ left \/ changed \/ refused \/ child = "reaped"
                   \/ line = "static" /\ file \in {"empty", "closed"}

(* doit returns, or exits, for every client that sends a whole request.    *)
WholeRequestsEnd == Whole ~> at \in {"done", "exited"}

(* read_requesthdrs reads and ignores the headers ("读并忽略请求报头") of  *)
(* every client: doit comes to an end.                                     *)
EveryRequestEnds == <>(at \in {"done", "exited"})
=============================================================================
