-------------------------------- MODULE Rio ---------------------------------
(***************************************************************************)
(* The Rio package (common.c): the buffered reader rio_t and the calls     *)
(* rio_readlineb and rio_readnb, by one reader on one connection.  The     *)
(* kernel's read moves any number of bytes up to what is asked and         *)
(* available, may be interrupted by a signal before it moves any, and may  *)
(* fail.  A byte is named by its position in the stream.                   *)
(***************************************************************************)
EXTENDS Integers, Sequences

CONSTANTS
  BufSize,      \* RIO_BUFSIZE
  Limits,       \* the sizes callers pass (maxlen, n)
  MaxLen        \* length of the longest stream (bound)

ASSUME RioAssumption ==
  BufSize \in Nat \ {0} /\ Limits \subseteq Nat \ {0} /\ MaxLen \in Nat

VARIABLES
  len, newlines,  \* what the peer sends before it closes
  sock,           \* bytes the kernel has handed out
  rio,            \* the unread bytes of rio_buf: rio_cnt of them from rio_bufptr
  usr,            \* what the running call has put in usrbuf
  call, limit,    \* the running call and the size it was given
  got,            \* bytes returned by all calls, in order
  rc              \* what the last call returned

reader == <<sock, rio, usr, call, limit, got, rc>>
stream == <<len, newlines>>

TypeOK ==
  /\ len \in 0..MaxLen /\ newlines \subseteq 1..len
  /\ sock \in 0..len
  /\ rio \in Seq(1..len) /\ Len(rio) <= BufSize
  /\ usr \in Seq(1..len) /\ got \in Seq(1..len)
  /\ call \in {"none", "line", "bytes", "failed"}
  /\ limit \in Limits \cup {0}
  /\ rc \in -1..len

(* rio_readinitb                                                           *)
Init ==
  /\ len \in 0..MaxLen /\ newlines \in SUBSET (1..len)
  /\ sock = 0
  /\ rio = << >>
  /\ usr = << >>
  /\ call = "none" /\ limit = 0
  /\ got = << >>
  /\ rc = 0

Call(kind, m) ==
  /\ call = "none"
  /\ call' = kind /\ limit' = m /\ usr' = << >>
  /\ UNCHANGED <<stream, sock, rio, got, rc>>

Return ==
  /\ call' = "none" /\ limit' = 0 /\ usr' = << >>
  /\ got' = got \o usr
  /\ rc' = Len(usr)
  /\ UNCHANGED <<stream, sock, rio>>

(* Faulty: n <= maxlen.                                                    *)
WantsOneMore ==
  \/ /\ call = "line" /\ Len(usr) + 1 <= limit
     /\ \A i \in 1..Len(usr) : usr[i] \notin newlines
  \/ call = "bytes" /\ Len(usr) < limit

(* The loop conditions: n < maxlen and no newline yet; nleft > 0.          *)
WantsMore ==
  \/ /\ call = "line" /\ Len(usr) + 1 < limit
     /\ \A i \in 1..Len(usr) : usr[i] \notin newlines
  \/ call = "bytes" /\ Len(usr) < limit

(* Faulty: counts bytes that were asked for and did not come.              *)
RefillWhole ==
  /\ WantsMore /\ rio = << >> /\ sock < len
  /\ rio' = [i \in 1..BufSize |-> sock + i]
  /\ sock' = sock + BufSize
  /\ UNCHANGED <<stream, usr, call, limit, got, rc>>

(* rio_read with an empty buffer.  A read() that a signal interrupts moves *)
(* nothing and is repeated.                                                *)
Refill ==
  /\ WantsMore /\ rio = << >>
  /\ \E n \in 1..BufSize :
       /\ sock + n <= len
       /\ rio' = [i \in 1..n |-> sock + i]
       /\ sock' = sock + n
  /\ UNCHANGED <<stream, usr, call, limit, got, rc>>

(* Faulty: goes on when the end of the stream cuts a line.                 *)
EndOfFileAtStart ==
  /\ WantsMore /\ rio = << >> /\ sock = len
  /\ usr = << >>
  /\ Return

(* read() returns 0: the call returns what it has.                         *)
EndOfFile ==
  /\ WantsMore /\ rio = << >> /\ sock = len
  /\ Return

(* read() fails, and the wrapper calls unix_error.                         *)
ReadError ==
  /\ WantsMore /\ rio = << >>
  /\ call' = "failed" /\ limit' = 0 /\ usr' = << >> /\ rc' = -1
  /\ UNCHANGED <<stream, sock, rio, got>>

(* rio_read copies min(n, rio_cnt) bytes; rio_readlineb asks for one.      *)
Asked == IF call = "line" THEN 1 ELSE limit - Len(usr)
(* Faulty: empties rio_buf whatever was copied.                            *)
CopyAndDrop ==
  /\ WantsMore /\ rio # << >>
  /\ LET n == IF Len(rio) < Asked THEN Len(rio) ELSE Asked
     IN usr' = usr \o SubSeq(rio, 1, n)
  /\ rio' = << >>
  /\ UNCHANGED <<stream, sock, call, limit, got, rc>>

Copy ==
  /\ WantsMore /\ rio # << >>
  /\ LET n == IF Len(rio) < Asked THEN Len(rio) ELSE Asked
     IN /\ usr' = usr \o SubSeq(rio, 1, n)
        /\ rio' = SubSeq(rio, n + 1, Len(rio))
  /\ UNCHANGED <<stream, sock, call, limit, got, rc>>

(* The loop ends: a newline, maxlen - 1 bytes, or n bytes.                 *)
Finish ==
  /\ call \in {"line", "bytes"} /\ ~WantsMore
  /\ Return

Next ==
  \/ \E kind \in {"line", "bytes"}, m \in Limits : Call(kind, m)
  \/ Refill \/ EndOfFile \/ ReadError \/ Copy \/ Finish

Spec == Init /\ [][Next]_<<stream, reader>>
-----------------------------------------------------------------------------
(* Between socket and callers no byte is lost, duplicated or moved:        *)
(* what was returned, what the running call holds and what the buffer      *)
(* keeps for the next call are, in this order, all that was read.          *)
NoByteLost ==
  call # "failed" => got \o usr \o rio = [i \in 1..sock |-> i]

(* The calls cut the stream into lines and blocks as LineReader says,      *)
(* however the kernel cuts it into reads and however calls for lines and   *)
(* for bytes alternate.                                                    *)
LR == INSTANCE LineReader
IsLineReader == LR!Spec

(* A call returns once the peer has sent the bytes or closed.              *)
CallsReturn == call \in {"line", "bytes"} ~> call \in {"none", "failed"}
FairSpec == Spec /\ WF_<<stream, reader>>(Refill \/ EndOfFile \/ Copy \/ Finish)
=============================================================================
