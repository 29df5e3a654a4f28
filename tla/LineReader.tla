----------------------------- MODULE LineReader -----------------------------
(***************************************************************************)
(* What the buffered readers of the Rio package promise a caller of        *)
(* rio_readlineb and rio_readnb: the calls cut the byte stream of the peer *)
(* into consecutive pieces.  A line call returns the bytes up to and       *)
(* including the next newline, at most limit - 1 of them, a bytes call the *)
(* next n bytes; both return less at the end of the stream only.  A byte   *)
(* is named by its position in the stream.                                 *)
(***************************************************************************)
EXTENDS Integers, Sequences, FiniteSetsExt

CONSTANTS Limits           \* the sizes callers pass

VARIABLES
  len, newlines,           \* the stream: its length, where its newlines are
  got,                     \* the bytes returned so far, in order
  rc,                      \* what the last call returned
  call, limit              \* "none", "line", "bytes" or "failed", and its size

vars == <<len, newlines, got, rc, call, limit>>

Positions(p, q) == [i \in 1..(q - p) |-> p + i]

LineEnd(p, m) ==
  Min({q \in p..len : q = len \/ (q > p /\ q \in newlines) \/ q = p + m - 1})
BytesEnd(p, n) == Min({len, p + n})

Init ==
  /\ got = << >>
  /\ rc = 0
  /\ call = "none" /\ limit = 0

Call(kind, m) ==
  /\ call = "none"
  /\ call' = kind /\ limit' = m
  /\ UNCHANGED <<len, newlines, got, rc>>

Return(end) ==
  /\ got' = got \o Positions(Len(got), end)
  /\ rc' = end - Len(got)
  /\ call' = "none" /\ limit' = 0
  /\ UNCHANGED <<len, newlines>>

(* The connection fails; Rio_readlineb and Rio_readnb exit.                *)
Fail ==
  /\ call \in {"line", "bytes"}
  /\ call' = "failed" /\ limit' = 0 /\ rc' = -1
  /\ UNCHANGED <<len, newlines, got>>

Next ==
  \/ \E kind \in {"line", "bytes"}, m \in Limits : Call(kind, m)
  \/ call = "line" /\ Return(LineEnd(Len(got), limit))
  \/ call = "bytes" /\ Return(BytesEnd(Len(got), limit))
  \/ Fail

Spec == Init /\ [][Next]_vars
=============================================================================
