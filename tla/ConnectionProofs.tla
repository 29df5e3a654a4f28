-------------------------- MODULE ConnectionProofs --------------------------
(***************************************************************************)
(* Theorems about what the thread pool server does with one connection:    *)
(* Rio, which reads it, and Request, the request that it serves.           *)
(*                                                                         *)
(* Rio: for every size of the buffer, every length of the stream, every    *)
(* place of its newlines and every size that callers pass.  The readers    *)
(* implement LineReader: what the kernel hands out and what the buffer     *)
(* keeps between calls can not be told from what they return.              *)
(*                                                                         *)
(* Request: for every set of sequences of lines that clients send.         *)
(***************************************************************************)
EXTENDS Rio, Request, SequenceTheorems, TLAPS

(* The positions after p, up to q.                                         *)
Bytes(p, q) == [i \in 1..(q - p) |-> p + i]

(* What was returned, what the running call holds and what the buffer      *)
(* keeps are consecutive pieces of what was read.                          *)
Pieces ==
  call # "failed" =>
    /\ Len(got) + Len(usr) <= sock
    /\ got = Bytes(0, Len(got))
    /\ usr = Bytes(Len(got), Len(got) + Len(usr))
    /\ rio = Bytes(Len(got) + Len(usr), sock)

(* A line call stops at a newline, or when one byte is left for the zero.  *)
CallInv ==
  /\ call \in {"line", "bytes"} => limit \in Limits
  /\ call \notin {"line", "bytes"} => usr = << >>
  /\ call = "line" => /\ Len(usr) < limit
                      /\ \A i \in 1..Len(usr) : usr[i] \in newlines => i = Len(usr)
  /\ call = "bytes" => Len(usr) <= limit

IInv == TypeOK /\ Pieces /\ CallInv

-----------------------------------------------------------------------------
(* Facts about consecutive pieces.                                         *)
LEMMA BytesType ==
  ASSUME NEW n \in Nat, NEW p \in Nat, NEW q \in Nat, p <= q, q <= n
  PROVE  /\ Bytes(p, q) \in Seq(1..n) /\ Len(Bytes(p, q)) = q - p
         /\ \A i \in 1..(q - p) : Bytes(p, q)[i] = p + i
<1>1. q - p \in Nat /\ \A i \in 1..(q - p) : p + i \in 1..n
  OBVIOUS
<1> QED
  BY <1>1 DEF Bytes

LEMMA BytesJoin ==
  ASSUME NEW p \in Nat, NEW q \in Nat, NEW r \in Nat, p <= q, q <= r
  PROVE  Bytes(p, q) \o Bytes(q, r) = Bytes(p, r)
<1>0a. /\ Bytes(p, q) \in Seq(1..r) /\ Len(Bytes(p, q)) = q - p
       /\ \A i \in 1..(q - p) : Bytes(p, q)[i] = p + i
  BY BytesType
<1>0b. /\ Bytes(q, r) \in Seq(1..r) /\ Len(Bytes(q, r)) = r - q
       /\ \A i \in 1..(r - q) : Bytes(q, r)[i] = q + i
  BY BytesType
<1>0c. /\ Bytes(p, r) \in Seq(1..r) /\ Len(Bytes(p, r)) = r - p
       /\ \A i \in 1..(r - p) : Bytes(p, r)[i] = p + i
  BY BytesType
<1>1. PICK s \in Seq(1..r) : /\ s = Bytes(p, q) /\ Len(s) = q - p
                             /\ \A i \in 1..(q - p) : s[i] = p + i
  BY <1>0a
<1>2. PICK t \in Seq(1..r) : /\ t = Bytes(q, r) /\ Len(t) = r - q
                             /\ \A i \in 1..(r - q) : t[i] = q + i
  BY <1>0b
<1>3. PICK u \in Seq(1..r) : /\ u = Bytes(p, r) /\ Len(u) = r - p
                             /\ \A i \in 1..(r - p) : u[i] = p + i
  BY <1>0c
<1>4. PICK v \in Seq(1..r) :
        /\ v = s \o t /\ Len(v) = r - p
        /\ \A i \in 1..(r - p) : v[i] = IF i <= q - p THEN s[i] ELSE t[i - (q - p)]
  <2>1. Len(s) + Len(t) = r - p
    BY <1>1, <1>2
  <2>2. /\ s \o t \in Seq(1..r) /\ Len(s \o t) = Len(s) + Len(t)
        /\ \A i \in 1..Len(s) + Len(t) :
             (s \o t)[i] = IF i <= Len(s) THEN s[i] ELSE t[i - Len(s)]
    BY ConcatProperties
  <2>3. /\ Len(s \o t) = r - p
        /\ \A i \in 1..(r - p) : (s \o t)[i] = IF i <= q - p THEN s[i] ELSE t[i - (q - p)]
    BY <1>1, <2>1, <2>2
  <2> QED
    BY <2>2, <2>3
<1>5. \A i \in 1..(r - p) : v[i] = u[i]
  <2> SUFFICES ASSUME NEW i \in 1..(r - p) PROVE v[i] = p + i
    BY <1>3
  <2>1. CASE i <= q - p
    BY <1>1, <1>4, <2>1
  <2>2. CASE i > q - p
    <3>1. i - (q - p) \in 1..(r - q)
      BY <2>2
    <3> QED
      BY <1>2, <1>4, <2>2, <3>1
  <2> QED
    BY <2>1, <2>2
<1>6. v = u
  BY <1>3, <1>4, <1>5, SeqEqual
<1> QED
  BY <1>1, <1>2, <1>3, <1>4, <1>6

LEMMA BytesSplit ==
  ASSUME NEW p \in Nat, NEW q \in Nat, NEW m \in Nat, NEW n \in Nat, m = p + n, m <= q
  PROVE  /\ SubSeq(Bytes(p, q), 1, n) = Bytes(p, m)
         /\ SubSeq(Bytes(p, q), n + 1, q - p) = Bytes(m, q)
<1>0a. /\ Bytes(p, q) \in Seq(1..q) /\ Len(Bytes(p, q)) = q - p
       /\ \A i \in 1..(q - p) : Bytes(p, q)[i] = p + i
  BY BytesType
<1>0b. /\ Bytes(p, m) \in Seq(1..q) /\ Len(Bytes(p, m)) = m - p
       /\ \A i \in 1..(m - p) : Bytes(p, m)[i] = p + i
  BY BytesType
<1>0c. /\ Bytes(m, q) \in Seq(1..q) /\ Len(Bytes(m, q)) = q - m
       /\ \A i \in 1..(q - m) : Bytes(m, q)[i] = m + i
  BY BytesType
<1>1. PICK s \in Seq(1..q) : /\ s = Bytes(p, q) /\ Len(s) = q - p
                             /\ \A i \in 1..(q - p) : s[i] = p + i
  BY <1>0a
<1>2. PICK t \in Seq(1..q) : /\ t = Bytes(p, m) /\ Len(t) = n
                             /\ \A i \in 1..n : t[i] = p + i
  <2>1. m - p = n
    OBVIOUS
  <2> QED
    BY <1>0b, <2>1
<1>3. PICK u \in Seq(1..q) : /\ u = Bytes(m, q) /\ Len(u) = q - m
                             /\ \A i \in 1..(q - m) : u[i] = m + i
  BY <1>0c
<1>4. \A i \in 1..(q - p) : s[i] \in 1..q
  BY <1>1
<1>5. SubSeq(s, 1, n) = t
  <2>1. \A i \in 1..n : s[i] \in 1..q
    BY <1>4
  <2>2. PICK v \in Seq(1..q) : /\ v = SubSeq(s, 1, n) /\ Len(v) = n
                               /\ \A i \in 1..n : v[i] = s[i]
    <3>1. /\ SubSeq(s, 1, n) \in Seq(1..q) /\ Len(SubSeq(s, 1, n)) = n
          /\ \A i \in 1..n : SubSeq(s, 1, n)[i] = s[i]
      BY <2>1, SubSeqProperties
    <3> QED
      BY <3>1
  <2>3. \A i \in 1..n : v[i] = t[i]
    BY <1>1, <1>2, <2>2
  <2> QED
    BY <1>2, <2>2, <2>3, SeqEqual
<1>6. SubSeq(s, n + 1, q - p) = u
  <2>1. \A i \in (n + 1)..(q - p) : s[i] \in 1..q
    BY <1>4
  <2>2. PICK v \in Seq(1..q) : /\ v = SubSeq(s, n + 1, q - p) /\ Len(v) = q - m
                               /\ \A i \in 1..(q - m) : v[i] = s[n + i]
    <3>1. /\ SubSeq(s, n + 1, q - p) \in Seq(1..q) /\ Len(SubSeq(s, n + 1, q - p)) = q - m
          /\ \A i \in 1..(q - m) : SubSeq(s, n + 1, q - p)[i] = s[n + i]
      BY <2>1, SubSeqProperties
    <3> QED
      BY <3>1
  <2>3. \A i \in 1..(q - m) : s[n + i] = m + i
    BY <1>1
  <2>4. \A i \in 1..(q - m) : v[i] = u[i]
    BY <1>3, <2>2, <2>3
  <2> QED
    BY <1>3, <2>2, <2>4, SeqEqual
<1> QED
  BY <1>1, <1>2, <1>3, <1>5, <1>6
-----------------------------------------------------------------------------
LEMMA InitInv == Init => IInv
<1> SUFFICES ASSUME Init PROVE IInv
  OBVIOUS
<1>1. TypeOK
  BY RioAssumption DEF Init, TypeOK
<1>2. Pieces
  BY DEF Init, Pieces, Bytes
<1>3. CallInv
  BY DEF Init, CallInv
<1> QED
  BY <1>1, <1>2, <1>3 DEF IInv

(* The sizes of the pieces.                                                *)
LEMMA Sizes ==
  ASSUME IInv
  PROVE  /\ len \in Nat /\ sock \in Nat /\ sock <= len
         /\ Len(got) \in Nat /\ Len(usr) \in Nat /\ Len(rio) \in Nat
         /\ limit \in Nat /\ limit \in Int
         /\ call \in {"line", "bytes"} => limit > 0
         /\ call # "failed" => Len(rio) = sock - (Len(got) + Len(usr))
<1>1. /\ len \in Nat /\ sock \in Nat /\ sock <= len /\ limit \in Nat
      /\ call \in {"line", "bytes"} => limit > 0
  BY RioAssumption DEF IInv, TypeOK, CallInv
<1>2. Len(got) \in Nat /\ Len(usr) \in Nat /\ Len(rio) \in Nat
  BY LenProperties DEF IInv, TypeOK
<1>3. ASSUME call # "failed" PROVE Len(rio) = sock - (Len(got) + Len(usr))
  <2>1. PICK h \in Nat, q \in Nat :
          h = Len(got) + Len(usr) /\ q = sock /\ h <= q /\ rio = Bytes(h, q)
    BY <1>1, <1>2, <1>3 DEF IInv, Pieces
  <2>2. Len(Bytes(h, q)) = q - h
    <3>1. h <= q
      BY <2>1
    <3> QED
      BY <3>1, BytesType
  <2> QED
    BY <2>1, <2>2
<1> QED
  BY <1>1, <1>2, <1>3

LEMMA CallStep ==
  ASSUME NEW kind \in {"line", "bytes"}, NEW m \in Limits
  PROVE  IInv /\ Call(kind, m) => IInv'
<1> SUFFICES ASSUME IInv, Call(kind, m) PROVE IInv'
  OBVIOUS
<1>1. /\ call = "none" /\ call' = kind /\ limit' = m /\ usr' = << >>
      /\ UNCHANGED <<len, newlines, sock, rio, got, rc>>
  BY DEF Call, stream
<1>2. m \in Nat /\ m > 0 /\ Len(<< >>) = 0 /\ << >> \in Seq(1..len)
  BY RioAssumption
<1>3. usr = << >> /\ usr' = usr
  BY <1>1 DEF IInv, CallInv
<1>4. TypeOK'
  BY <1>1, <1>2 DEF IInv, TypeOK
<1>5. Pieces'
  BY <1>1, <1>3 DEF IInv, Pieces
<1>6. CallInv'
  BY <1>1, <1>2 DEF CallInv
<1> QED
  BY <1>4, <1>5, <1>6 DEF IInv

LEMMA RefillStep == IInv /\ Refill => IInv'
<1> SUFFICES ASSUME IInv, Refill PROVE IInv'
  OBVIOUS
<1>1. PICK n \in 1..BufSize :
        /\ sock + n <= len /\ rio' = [k \in 1..n |-> sock + k] /\ sock' = sock + n
        /\ rio = << >> /\ call \in {"line", "bytes"}
        /\ UNCHANGED <<len, newlines, usr, call, limit, got, rc>>
  BY DEF Refill, WantsMore, stream
<1>2. PICK s \in Nat : s = sock + n
  BY <1>1, Sizes, RioAssumption
<1>3. /\ rio' = Bytes(sock, s) /\ s \in 0..len /\ sock' = s
      /\ Len(got) + Len(usr) = sock
  <2>1. s - sock = n /\ n \in Nat
    BY <1>1, <1>2, Sizes, RioAssumption
  <2>2. Len(rio) = 0
    BY <1>1
  <2> QED
    <3>1. Len(got) + Len(usr) = sock
      <4>1. /\ 0 = sock - (Len(got) + Len(usr)) /\ sock \in Nat
            /\ Len(got) \in Nat /\ Len(usr) \in Nat
        BY <1>1, <2>2, Sizes
      <4> QED
        BY <4>1
    <3>2. rio' = Bytes(sock, s)
      BY <1>1, <2>1 DEF Bytes
    <3> QED
      BY <1>1, <1>2, <3>1, <3>2, Sizes
<1>4. rio' \in Seq(1..len) /\ Len(rio') <= BufSize
  <2>1. sock \in Nat /\ len \in Nat /\ sock <= s /\ s <= len /\ s - sock \in 1..BufSize
    BY <1>1, <1>2, Sizes, RioAssumption
  <2>2. Bytes(sock, s) \in Seq(1..len) /\ Len(Bytes(sock, s)) = s - sock
    BY <2>1, BytesType
  <2> QED
    BY <1>3, <2>1, <2>2, RioAssumption
<1>5. TypeOK'
  BY <1>1, <1>3, <1>4 DEF IInv, TypeOK
<1>6. Pieces'
  BY <1>1, <1>2, <1>3, Sizes DEF IInv, Pieces
<1>7. CallInv'
  BY <1>1 DEF IInv, CallInv
<1> QED
  BY <1>5, <1>6, <1>7 DEF IInv

LEMMA FailStep == IInv /\ ReadError => IInv'
<1> SUFFICES ASSUME IInv, ReadError PROVE IInv'
  OBVIOUS
<1>1. /\ call' = "failed" /\ limit' = 0 /\ usr' = << >> /\ rc' = -1
      /\ UNCHANGED <<len, newlines, sock, rio, got>>
  BY DEF ReadError, stream
<1>2. << >> \in Seq(1..len) /\ -1 \in -1..len
  BY Sizes
<1>3. TypeOK'
  BY <1>1, <1>2 DEF IInv, TypeOK
<1> QED
  BY <1>1, <1>3 DEF IInv, Pieces, CallInv

(* A call that returns adds what it has to what was returned.              *)
LEMMA ReturnStep ==
  ASSUME IInv, call \in {"line", "bytes"}, Return
  PROVE  /\ IInv'
         /\ Len(got) + Len(usr) <= len
         /\ got' = got \o Bytes(Len(got), Len(got) + Len(usr)) /\ rc' = Len(usr)
<1>1. /\ call' = "none" /\ limit' = 0 /\ usr' = << >> /\ got' = got \o usr
      /\ rc' = Len(usr) /\ UNCHANGED <<len, newlines, sock, rio>>
  BY DEF Return, stream
<1>2. PICK g \in Nat, h \in Nat :
        /\ g = Len(got) /\ h = Len(got) + Len(usr) /\ g <= h /\ h <= sock
        /\ got = Bytes(0, g) /\ usr = Bytes(g, h) /\ rio = Bytes(h, sock)
  BY Sizes DEF IInv, Pieces
<1>3. got' = Bytes(0, h)
  <2>1. 0 <= g /\ g <= h
    BY <1>2
  <2>2. Bytes(0, g) \o Bytes(g, h) = Bytes(0, h)
    BY <2>1, BytesJoin
  <2> QED
    BY <1>1, <1>2, <2>2
<1>4. got' \in Seq(1..len) /\ Len(got') = h
  <2>1. PICK n \in Nat : n = len /\ h <= n
    BY <1>2, Sizes
  <2>2. 0 <= h
    OBVIOUS
  <2>3. Bytes(0, h) \in Seq(1..n) /\ Len(Bytes(0, h)) = h - 0
    BY <2>1, <2>2, BytesType
  <2> QED
    BY <1>3, <2>1, <2>3
<1>5. << >> \in Seq(1..len) /\ Len(<< >>) = 0 /\ Len(usr) \in -1..len /\ h <= len
  BY <1>2, Sizes
<1>6. TypeOK'
  BY <1>1, <1>4, <1>5 DEF IInv, TypeOK
<1>7. Pieces'
  <2>1. Bytes(h, h) = << >>
    BY <1>2 DEF Bytes
  <2>2. Len(got') + Len(usr') = h
    BY <1>1, <1>4, <1>5
  <2> QED
    BY <1>1, <1>2, <1>3, <1>4, <2>1, <2>2 DEF Pieces
<1>8. CallInv'
  BY <1>1 DEF CallInv
<1> QED
  BY <1>1, <1>2, <1>5, <1>6, <1>7, <1>8 DEF IInv

(* A line call copies one byte at a time: it does not pass a newline.      *)
LEMMA CopyStep == IInv /\ Copy => IInv'
<1> SUFFICES ASSUME IInv, Copy PROVE IInv'
  OBVIOUS
<1>1. /\ rio # << >> /\ call \in {"line", "bytes"} /\ Len(usr) < limit
      /\ call = "line" => Len(usr) + 1 < limit /\ \A k \in 1..Len(usr) : usr[k] \notin newlines
      /\ UNCHANGED <<len, newlines, sock, call, limit, got, rc>>
  <2>1. Len(usr) \in Nat /\ limit \in Nat
    BY Sizes
  <2> QED
    BY <2>1 DEF Copy, WantsMore, stream
<1>2. PICK g \in Nat, u \in Nat, b \in Nat, h \in Nat, lim \in Nat :
        /\ g = Len(got) /\ u = Len(usr) /\ b = Len(rio) /\ h = g + u /\ lim = limit
        /\ b = sock - h /\ b > 0 /\ u < lim
  <2>1. Len(rio) # 0
    BY <1>1, EmptySeq DEF IInv, TypeOK
  <2>2. /\ Len(got) \in Nat /\ Len(usr) \in Nat /\ Len(rio) \in Nat /\ limit \in Nat
        /\ Len(rio) = sock - (Len(got) + Len(usr))
    BY <1>1, Sizes
  <2> QED
    BY <1>1, <2>1, <2>2
<1>3. got = Bytes(0, g) /\ usr = Bytes(g, h) /\ rio = Bytes(h, sock)
  BY <1>1, <1>2 DEF IInv, Pieces
<1>4. len \in Nat /\ sock \in Nat /\ sock <= len
  BY Sizes
<1>5. PICK n \in Nat :
        /\ n = IF Len(rio) < Asked THEN Len(rio) ELSE Asked
        /\ n > 0 /\ n <= b /\ n + u <= lim /\ (call = "line" => n = 1)
  <2>1. Asked = IF call = "line" THEN 1 ELSE lim - u
    BY <1>2 DEF Asked
  <2>2. /\ Asked \in Nat /\ Asked > 0 /\ Asked + u <= lim
        /\ call = "line" => Asked = 1
    BY <1>2, <2>1
  <2>3. PICK a \in Nat : a = Asked /\ a > 0 /\ a + u <= lim /\ (call = "line" => a = 1)
    BY <2>2
  <2>4. PICK n \in Nat : n = IF b < a THEN b ELSE a
    OBVIOUS
  <2>5. n > 0 /\ n <= b /\ n + u <= lim /\ (call = "line" => n = 1)
    BY <1>2, <2>3, <2>4
  <2>6. n = IF Len(rio) < Asked THEN Len(rio) ELSE Asked
    BY <1>2, <2>3, <2>4
  <2> QED
    BY <2>5, <2>6
<1>6. usr' = usr \o SubSeq(rio, 1, n) /\ rio' = SubSeq(rio, n + 1, Len(rio))
  BY <1>5 DEF Copy
<1>7. PICK m \in Nat : m = h + n /\ m <= sock /\ g <= h /\ h <= m /\ m - g = u + n
  <2>1. h = g + u /\ b = sock - h /\ n <= b
    BY <1>2, <1>5
  <2>2. /\ h + n \in Nat /\ h + n <= sock /\ g <= h /\ h <= h + n
        /\ (h + n) - g = u + n
    BY <1>4, <2>1
  <2> QED
    BY <2>2
<1>8. usr' = Bytes(g, m) /\ rio' = Bytes(m, sock)
  <2>1. /\ SubSeq(Bytes(h, sock), 1, n) = Bytes(h, m)
        /\ SubSeq(Bytes(h, sock), n + 1, sock - h) = Bytes(m, sock)
    <3>1. PICK q \in Nat : q = sock /\ m <= q
      BY <1>4, <1>7
    <3>2. m = h + n
      BY <1>7
    <3>3. SubSeq(Bytes(h, q), 1, n) = Bytes(h, m)
      BY <3>1, <3>2, BytesSplit
    <3>4. SubSeq(Bytes(h, q), n + 1, q - h) = Bytes(m, q)
      BY <3>1, <3>2, BytesSplit
    <3> QED
      BY <3>1, <3>3, <3>4
  <2>2. Bytes(g, h) \o Bytes(h, m) = Bytes(g, m)
    BY <1>7, BytesJoin
  <2>3. Len(rio) = sock - h
    BY <1>2
  <2> QED
    BY <1>3, <1>6, <2>1, <2>2, <2>3
<1>9. /\ usr' \in Seq(1..len) /\ Len(usr') = m - g
      /\ \A k \in 1..(m - g) : usr'[k] = g + k
  <2>1. m <= len /\ g <= m
    BY <1>4, <1>7
  <2>2. /\ Bytes(g, m) \in Seq(1..len) /\ Len(Bytes(g, m)) = m - g
        /\ \A k \in 1..(m - g) : Bytes(g, m)[k] = g + k
    BY <1>4, <2>1, BytesType
  <2> QED
    BY <1>8, <2>2
<1>10. rio' \in Seq(1..len) /\ Len(rio') = sock - m
  <2>1. Bytes(m, sock) \in Seq(1..len) /\ Len(Bytes(m, sock)) = sock - m
    BY <1>4, <1>7, BytesType
  <2> QED
    BY <1>8, <2>1
<1>11. TypeOK'
  <2>1. Len(rio') <= BufSize
    <3>1. Len(rio) <= BufSize
      BY DEF IInv, TypeOK
    <3>2. b = sock - h /\ b <= BufSize /\ Len(rio') = sock - m
      BY <1>2, <1>10, <3>1
    <3>3. sock - m <= sock - h
      BY <1>4, <1>7
    <3> QED
      BY <1>4, <3>2, <3>3, RioAssumption
  <2> QED
    BY <1>1, <1>9, <1>10, <2>1 DEF IInv, TypeOK
<1>12. Pieces'
  <2>1. Len(got') = g /\ Len(got') + Len(usr') = m
    BY <1>1, <1>2, <1>7, <1>9
  <2> QED
    BY <1>1, <1>3, <1>7, <1>8, <2>1 DEF Pieces
<1>13. CallInv'
  <2>1. Len(usr') = u + n
    BY <1>7, <1>9
  <2>2. ASSUME call = "line"
        PROVE  /\ Len(usr') < limit
               /\ \A k \in 1..Len(usr') : usr'[k] \in newlines => k = Len(usr')
    <3>1. Len(usr') = u + 1 /\ u + 1 < limit
      BY <1>1, <1>2, <1>5, <2>1, <2>2
    <3>2. \A k \in 1..u : usr'[k] = g + k
      BY <1>7, <1>9
    <3>3. \A k \in 1..u : usr[k] = g + k
      BY <1>2, <1>3 DEF Bytes
    <3>4. \A k \in 1..u : usr'[k] \notin newlines
      BY <1>1, <1>2, <2>2, <3>2, <3>3
    <3>5. \A k \in 1..(u + 1) : k \in 1..u \/ k = u + 1
      OBVIOUS
    <3> QED
      BY <3>1, <3>4, <3>5
  <2>3. call = "bytes" => Len(usr') <= limit
    BY <1>2, <1>5, <2>1
  <2> QED
    BY <1>1, <2>2, <2>3 DEF IInv, CallInv
<1> QED
  BY <1>11, <1>12, <1>13 DEF IInv

(* The calls return only when a call runs.                                 *)
LEMMA Returns ==
  ASSUME EndOfFile \/ Finish
  PROVE  call \in {"line", "bytes"} /\ Return
BY DEF EndOfFile, Finish, WantsMore

(* The invariant holds in every reachable state.                           *)
THEOREM Invariance == Spec => []IInv
<1>1. ASSUME IInv, [Next]_<<stream, reader>> PROVE IInv'
  <2>1. CASE UNCHANGED <<stream, reader>>
    BY <1>1, <2>1 DEF IInv, TypeOK, Pieces, CallInv, stream, reader
  <2>2. CASE Next
    BY <1>1, <2>2, CallStep, RefillStep, FailStep, CopyStep, Returns, ReturnStep DEF Next
  <2> QED
    BY <1>1, <2>1, <2>2
<1> QED
  BY <1>1, InitInv, PTL DEF Spec

(* Counters, pointers and buffers of rio_t stay within their sizes.        *)
THEOREM TypeCorrect == Spec => []TypeOK
<1>1. IInv => TypeOK
  BY DEF IInv
<1> QED
  BY <1>1, Invariance, PTL

(* No byte is lost, duplicated or moved between read, rio_buf, the running *)
(* call and the callers.                                                   *)
THEOREM NothingLost == Spec => []NoByteLost
<1>1. ASSUME IInv PROVE NoByteLost
  <2> SUFFICES ASSUME call # "failed" PROVE got \o usr \o rio = [i \in 1..sock |-> i]
    BY DEF NoByteLost
  <2>1. PICK g \in Nat, h \in Nat, q \in Nat :
          /\ g = Len(got) /\ h = Len(got) + Len(usr) /\ q = sock /\ g <= h /\ h <= q
    BY <1>1, Sizes DEF IInv, Pieces
  <2>2. got = Bytes(0, g) /\ usr = Bytes(g, h) /\ rio = Bytes(h, q)
    BY <1>1, <2>1 DEF IInv, Pieces
  <2>3. Bytes(0, g) \o Bytes(g, h) = Bytes(0, h)
    <3>1. 0 <= g /\ g <= h
      BY <2>1
    <3> QED
      BY <3>1, BytesJoin
  <2>4. Bytes(0, h) \o Bytes(h, q) = Bytes(0, q)
    <3>1. 0 <= h /\ h <= q
      BY <2>1
    <3> QED
      BY <3>1, BytesJoin
  <2>5. Bytes(0, q) = [i \in 1..sock |-> i]
    BY <2>1 DEF Bytes
  <2> QED
    BY <2>2, <2>3, <2>4, <2>5
<1> QED
  BY <1>1, Invariance, PTL
-----------------------------------------------------------------------------
(* Rio implements LineReader: a call that returns has reached the end that *)
(* LineReader names, and every other step but Call and ReadError leaves    *)
(* the state that LineReader sees as it is.                                *)
LEMMA LeastIsMin ==
  ASSUME NEW S, S \subseteq Nat, NEW x \in S, \A y \in S : x <= y
  PROVE  LR!Min(S) = x
<1>1. \E y \in S : \A z \in S : y <= z
  OBVIOUS
<1>2. LR!Min(S) \in S /\ \A z \in S : LR!Min(S) <= z
  BY <1>1 DEF LR!Min
<1> DEFINE m == LR!Min(S)
<1>3. m \in Nat /\ x \in Nat /\ m <= x /\ x <= m
  BY <1>2
<1> HIDE DEF m
<1>4. m = x
  BY <1>3
<1> QED
  BY <1>4 DEF m

LEMMA LineEndReached ==
  ASSUME IInv, call = "line", EndOfFile \/ Finish
  PROVE  Len(got) + Len(usr) = LR!LineEnd(Len(got), limit)
<1>1. PICK g \in Nat, u \in Nat, h \in Nat, m \in Nat :
        /\ g = Len(got) /\ u = Len(usr) /\ h = g + u /\ m = limit /\ u < m
  <2>1. Len(got) \in Nat /\ Len(usr) \in Nat /\ limit \in Nat /\ Len(usr) < limit
    BY Sizes DEF IInv, CallInv
  <2> QED
    BY <2>1
<1>2. len \in Nat /\ sock \in Nat /\ sock <= len /\ h <= sock
  BY <1>1, Sizes DEF IInv, Pieces
<1>3. \A k \in 1..u : usr[k] = g + k /\ (g + k \in newlines => k = u)
  <2>1. usr = Bytes(g, h)
    BY <1>1 DEF IInv, Pieces
  <2>2. \A k \in 1..(h - g) : Bytes(g, h)[k] = g + k
    BY DEF Bytes
  <2>3. h - g = u
    BY <1>1
  <2> QED
    BY <1>1, <2>1, <2>2, <2>3 DEF IInv, CallInv
<1> DEFINE Ends == {q \in g..len : q = len \/ (q > g /\ q \in newlines) \/ q = g + m - 1}
<1>4. ASSUME NEW q \in Ends, q < h PROVE FALSE
  <2>1. q \in Nat /\ q >= g /\ q # len /\ q # g + m - 1
    BY <1>1, <1>2, <1>4
  <2>2. q > g /\ q \in newlines
    BY <1>4, <2>1
  <2>3. q - g \in 1..u /\ g + (q - g) = q /\ q - g # u
    BY <1>1, <1>4, <2>1, <2>2
  <2> QED
    BY <1>3, <2>2, <2>3
<1>5. h \in Ends
  <2>1. h \in g..len
    BY <1>1, <1>2
  <2>2. CASE EndOfFile
    <3>1. Len(rio) = 0 /\ sock = len
      BY <2>2 DEF EndOfFile
    <3>2. 0 = sock - h
      BY <1>1, <3>1, Sizes
    <3>3. h = len
      BY <1>2, <3>1, <3>2
    <3> QED
      BY <2>1, <3>3
  <2>3. CASE Finish
    <3>1. u + 1 >= m \/ \E k \in 1..u : usr[k] \in newlines
      BY <1>1, <2>3 DEF Finish, WantsMore
    <3>2. CASE u + 1 >= m
      <4>1. h = g + m - 1
        BY <1>1, <3>2
      <4> QED
        BY <2>1, <4>1
    <3>3. CASE \E k \in 1..u : usr[k] \in newlines
      <4>1. PICK k \in 1..u : usr[k] \in newlines
        BY <3>3
      <4>2. g + u \in newlines /\ g + u = h /\ h > g
        BY <1>1, <1>3, <4>1
      <4> QED
        BY <2>1, <4>2
    <3> QED
      BY <3>1, <3>2, <3>3
  <2> QED
    BY <2>2, <2>3
<1>6. Ends \subseteq Nat
  BY <1>2
<1>7. \A q \in Ends : h <= q
  BY <1>4, <1>6
<1>8. LR!Min(Ends) = h
  <2> HIDE DEF Ends
  <2> QED
    BY <1>5, <1>6, <1>7, LeastIsMin
<1>9. LR!LineEnd(g, m) = LR!Min(Ends)
  BY DEF LR!LineEnd
<1> QED
  BY <1>1, <1>8, <1>9

LEMMA BytesEndReached ==
  ASSUME IInv, call = "bytes", EndOfFile \/ Finish
  PROVE  Len(got) + Len(usr) = LR!BytesEnd(Len(got), limit)
<1>1. PICK g \in Nat, u \in Nat, h \in Nat, n \in Nat :
        /\ g = Len(got) /\ u = Len(usr) /\ h = g + u /\ n = limit /\ u <= n
  <2>1. Len(got) \in Nat /\ Len(usr) \in Nat /\ limit \in Nat /\ Len(usr) <= limit
    BY Sizes DEF IInv, CallInv
  <2> QED
    BY <2>1
<1>2. len \in Nat /\ sock \in Nat /\ sock <= len /\ h <= sock
  BY <1>1, Sizes DEF IInv, Pieces
<1>3. h <= len /\ h <= g + n /\ (h = len \/ h = g + n)
  <2>1. CASE EndOfFile
    <3>1. Len(rio) = 0 /\ sock = len
      BY <2>1 DEF EndOfFile
    <3>2. 0 = sock - h
      BY <1>1, <3>1, Sizes
    <3> QED
      BY <1>1, <1>2, <3>1, <3>2
  <2>2. CASE Finish
    <3>1. u >= n
      BY <1>1, <2>2 DEF Finish, WantsMore
    <3> QED
      BY <1>1, <1>2, <3>1
  <2> QED
    BY <2>1, <2>2
<1> DEFINE Ends == {len, g + n}
<1>4. Ends \subseteq Nat /\ h \in Ends /\ \A q \in Ends : h <= q
  BY <1>2, <1>3
<1>5. LR!Min(Ends) = h
  <2> HIDE DEF Ends
  <2> QED
    BY <1>4, LeastIsMin
<1>6. LR!BytesEnd(g, n) = LR!Min(Ends)
  BY DEF LR!BytesEnd
<1> QED
  BY <1>1, <1>5, <1>6

(* The readers of Rio cut the stream as LineReader says.                   *)
THEOREM ReaderIsLineReader == Spec => IsLineReader
<1>1. Init => LR!Init
  BY DEF Init, LR!Init
<1>2. ASSUME IInv, [Next]_<<stream, reader>> PROVE [LR!Next]_LR!vars
  <2> USE DEF LR!vars
  <2>1. CASE UNCHANGED <<stream, reader>> \/ Refill \/ Copy
    BY <2>1 DEF stream, reader, Refill, Copy
  <2>2. ASSUME NEW kind \in {"line", "bytes"}, NEW m \in Limits, Call(kind, m)
        PROVE  LR!Next
    BY <2>2 DEF Call, stream, LR!Next, LR!Call
  <2>3. CASE ReadError
    BY <2>3 DEF ReadError, WantsMore, stream, LR!Next, LR!Fail
  <2>4. CASE EndOfFile \/ Finish
    <3> DEFINE h == Len(got) + Len(usr)
    <3>1. call \in {"line", "bytes"} /\ Return
      BY <2>4, Returns
    <3>2. /\ got' = got \o Bytes(Len(got), h) /\ rc' = Len(usr)
      BY <1>2, <3>1, ReturnStep
    <3>3. LR!Positions(Len(got), h) = Bytes(Len(got), h)
      BY DEF LR!Positions, Bytes
    <3>4. rc' = h - Len(got)
      BY <1>2, <3>2, Sizes
    <3>5. LR!Return(h)
      BY <3>1, <3>2, <3>3, <3>4 DEF Return, stream, LR!Return
    <3>6. \/ call = "line" /\ h = LR!LineEnd(Len(got), limit)
          \/ call = "bytes" /\ h = LR!BytesEnd(Len(got), limit)
      BY <1>2, <2>4, <3>1, LineEndReached, BytesEndReached
    <3> HIDE DEF h
    <3> QED
      BY <3>5, <3>6 DEF LR!Next
  <2> QED
    BY <1>2, <2>1, <2>2, <2>3, <2>4 DEF Next
<1> QED
  BY <1>1, <1>2, Invariance, PTL DEF Spec, IsLineReader, LR!Spec

-----------------------------------------------------------------------------
(* The request: what doit writes to the client, and what the client gets.  *)
Replies == {"501", "404", "403", "200", "type", "length", "server", "body", "output", "log"}
Writes == {"501", "404", "403", "200", "type", "length", "server", "body"}

(* Reading: nothing was written.                                           *)
Begun ==
  /\ at = "line" => lines = sent
  /\ at \in {"line", "firsthdr", "hdrs", "stat"} => todo = << >> /\ out = << >>
  /\ at \in {"firsthdr", "hdrs", "stat"} => line # "other"
  /\ at \in {"open", "munmap", "fork", "wait", "done"} => todo = << >>
  /\ at \in {"head", "open", "body", "munmap"} => line = "static"
  /\ Whole /\ at \notin {"line", "exited"} => line = Method

(* A file that does not change is still what stat said.                    *)
FileInv ==
  ~changed /\ (child = "running" \/
               at \in {"head", "open", "body", "munmap", "cgihead", "fork", "wait"}) =>
    file \in Served /\ size = IF file = "empty" THEN 0 ELSE 1

(* There is a child from the fork on, and doit goes on after a refusal     *)
(* only if it was the child that met it.                                   *)
ChildInv ==
  /\ at = "wait" => child # "none"
  /\ child # "none" => at \in {"wait", "done", "exited"} /\ todo = << >>
  /\ child = "running" => at # "exited"
  /\ refused => at = "exited" \/ child \in {"ended", "reaped"}

(* What was written and the writes ahead are the reply up to there.        *)
Reply == out \o todo
ReplyInv ==
  ~left /\ ~changed /\ Whole =>
    /\ at = "error" =>
         /\ Reply \in RepliesTo
         /\ Method = "other" \/ file \in {"absent", "forbidden"}
    /\ at \in {"cgihead", "fork"} \/ (child # "none" /\ at # "exited") => line = "dynamic"
    /\ at \in {"head", "open"} => Reply = <<"200">>
    /\ at \in {"body", "munmap"} => Reply = IF size = 0 THEN <<"200">> ELSE <<"200", "body">>
    /\ at \in {"cgihead", "fork"} => Reply = <<"200", "server">>
    /\ child = "running" => out = <<"200", "server">>
    /\ at # "exited" /\ child \in {"ended", "reaped"} => out \in RepliesTo
    /\ at = "done" /\ child = "none" => out \in RepliesTo

RInv == RequestTypeOK /\ Begun /\ FileInv /\ ChildInv /\ ReplyInv /\ ExitsForCause

LEMMA WriteMoves ==
  ASSUME NEW s \in Seq(Replies), NEW t \in Seq(Writes), t # << >>
  PROVE  /\ Head(t) \in Writes /\ Tail(t) \in Seq(Writes) /\ Append(s, Head(t)) \in Seq(Replies)
         /\ Append(s, Head(t)) \o Tail(t) = s \o t
<1>1. Head(t) \in Writes /\ Tail(t) \in Seq(Writes) /\ Len(Tail(t)) = Len(t) - 1
      /\ \A k \in 1..Len(Tail(t)) : Tail(t)[k] = t[k + 1]
  BY HeadTailProperties
<1>2. Writes \subseteq Replies
  BY DEF Writes, Replies
<1>3. t \in Seq(Replies) /\ Tail(t) \in Seq(Replies) /\ Head(t) \in Replies
  <2>1. \A q \in Seq(Writes) : q \in Seq(Replies)
    BY <1>2
  <2> QED
    BY <1>1, <1>2, <2>1
<1>4. <<Head(t)>> \in Seq(Replies) /\ Append(s, Head(t)) = s \o <<Head(t)>>
      /\ Append(s, Head(t)) \in Seq(Replies)
  BY <1>3, AppendIsConcat, AppendProperties
<1>5. (s \o <<Head(t)>>) \o Tail(t) = s \o (<<Head(t)>> \o Tail(t))
  BY <1>3, <1>4, ConcatAssociative
<1>6. <<Head(t)>> \o Tail(t) = t
  <2>1. Len(t) \in Nat \ {0}
    BY EmptySeq
  <2> QED
    BY <1>1, <1>3, <2>1
<1> QED
  BY <1>1, <1>4, <1>5, <1>6

LEMMA EmptyWrites ==
  ASSUME NEW s \in Seq(Replies)
  PROVE  << >> \o s = s /\ s \o << >> = s
BY ConcatEmptySeq

(* Tuples by length.                                                       *)
LEMMA Tuples ==
  ASSUME NEW S, NEW a \in S, NEW b \in S, NEW c \in S, NEW d \in S
  PROVE  /\ << >> \in Seq(S) /\ <<a>> \in Seq(S) /\ <<a, b>> \in Seq(S)
         /\ <<a, b, c>> \in Seq(S) /\ <<a, b, c, d>> \in Seq(S)
OBVIOUS

LEMMA ShortReplies ==
  ASSUME NEW a \in Replies, NEW b \in Replies, NEW c \in Replies
  PROVE  /\ <<a>> \o << >> = <<a>>
         /\ <<a>> \o <<b>> = <<a, b>>
         /\ Append(<<a, b>>, c) = <<a, b, c>>
<1>1. <<a>> \in Seq(Replies) /\ <<b>> \in Seq(Replies) /\ <<a, b>> \in Seq(Replies)
  BY Tuples
<1>2. <<a>> \o << >> = <<a>>
  BY <1>1, EmptyWrites
<1>3. PICK s \in Seq(Replies), t \in Seq(Replies) :
        s = <<a>> /\ Len(s) = 1 /\ s[1] = a /\ t = <<b>> /\ Len(t) = 1 /\ t[1] = b
  BY <1>1
<1>4. PICK u \in Seq(Replies), v \in Seq(Replies) :
        /\ u = <<a, b>> /\ Len(u) = 2 /\ u[1] = a /\ u[2] = b
        /\ v = <<a, b, c>> /\ Len(v) = 3 /\ v[1] = a /\ v[2] = b /\ v[3] = c
  <2>1. <<a, b, c>> \in Seq(Replies)
    BY Tuples
  <2> QED
    BY <1>1, <2>1
<1>5. s \o t = u
  <2>1. /\ s \o t \in Seq(Replies) /\ Len(s \o t) = 2
        /\ (s \o t)[1] = s[1] /\ (s \o t)[2] = t[1]
    BY <1>3, ConcatProperties
  <2>2. /\ Len(u) = 2 /\ u[1] = s[1] /\ u[2] = t[1]
    BY <1>3, <1>4
  <2>3. \A i \in 1..Len(s \o t) : (s \o t)[i] = u[i]
    BY <2>1, <2>2
  <2> QED
    BY <2>1, <2>2, <2>3, SeqEqual
<1>6. Append(u, c) = v
  <2>1. /\ Append(u, c) \in Seq(Replies) /\ Len(Append(u, c)) = 3
        /\ \A i \in 1..2 : Append(u, c)[i] = u[i]
        /\ Append(u, c)[3] = c
    BY <1>4, AppendProperties
  <2>2. Len(v) = 3 /\ v[1] = u[1] /\ v[2] = u[2] /\ v[3] = c
    BY <1>4
  <2>3. \A i \in 1..Len(Append(u, c)) : Append(u, c)[i] = v[i]
    BY <2>1, <2>2
  <2> QED
    BY <2>1, <2>2, <2>3, SeqEqual
<1> QED
  BY <1>2, <1>3, <1>4, <1>5, <1>6

(* Writes of a step that starts to reply.                                  *)
LEMMA Starts ==
  /\ \A e \in {"501", "404", "403"} : ErrorPage(e) \in Seq(Writes) /\ ErrorPage(e) \in Seq(Replies)
  /\ \A t \in {<< >>, <<"200">>, <<"body">>, <<"200", "server">>} :
       t \in Seq(Writes) /\ t \in Seq(Replies)
<1>1. {"501", "404", "403", "200", "type", "length", "server", "body"} \subseteq Writes
      /\ Writes \subseteq Replies
  BY DEF Writes, Replies
<1> QED
  BY <1>1, Tuples DEF ErrorPage

LEMMA InitRInv == RequestInit => RInv
<1> SUFFICES ASSUME RequestInit PROVE RInv
  OBVIOUS
<1>1. lines \in Seq(Lines) /\ todo \in Seq(Writes) /\ out \in Seq(Replies)
  BY RequestAssumption, Starts DEF RequestInit
<1>2. RequestTypeOK
  BY <1>1 DEF RequestInit, RequestTypeOK, RequestLines, Lines, Writes, Replies
<1> QED
  BY <1>2 DEF RequestInit, RInv, Begun, FileInv, ChildInv, ReplyInv, ExitsForCause

(* What a step that reads or writes nothing of the client's input leaves.  *)
LEMMA SameRequest ==
  ASSUME UNCHANGED sent
  PROVE  (Whole' <=> Whole) /\ Method' = Method
BY DEF Whole, Method

LEMMA SameReplies ==
  ASSUME UNCHANGED <<sent, file, refused>>
  PROVE  RepliesTo' = RepliesTo
BY SameRequest DEF RepliesTo, ErrorPage

(* Readline takes the next line, or leaves the buffer at the end.          *)
LEMMA ReadsLine ==
  ASSUME lines \in Seq(Lines), NEW old \in Lines, NEW b, Readline(b, old)
  PROVE  /\ b \in Lines /\ lines' \in Seq(Lines)
         /\ lines # << >> => b = Head(lines)
BY HeadTailProperties DEF Readline

LEMMA ReadLineStep == RInv /\ ReadLine => RInv'
<1> SUFFICES ASSUME RInv, ReadLine PROVE RInv'
  OBVIOUS
<1>1. PICK l \in Lines : Readline(l, line) /\ line' \in Parse(l)
  BY DEF ReadLine
<1>2. /\ at = "line" /\ lines = sent /\ out = << >> /\ todo = << >>
      /\ child = "none" /\ ~refused
      /\ UNCHANGED <<sent, file, left, changed, hdr, size, out, child, refused>>
      /\ IF line' = "other" THEN at' = "error" /\ todo' = ErrorPage("501")
                            ELSE at' = "firsthdr" /\ todo' = todo
  BY DEF RInv, Begun, ChildInv, RequestTypeOK, ReadLine, Clienterror,
     Goto, ErrorPage, input, forked
<1>3. line \in Lines /\ lines \in Seq(Lines)
  BY DEF RInv, RequestTypeOK, Lines
<1>4. lines' \in Seq(Lines) /\ (lines # << >> => l = Head(lines))
  BY <1>1, <1>3, ReadsLine
<1>5. line' \in RequestLines
  BY <1>1 DEF Parse, Lines, RequestLines
<1>6. Whole => line' = Method
  BY <1>1, <1>2, <1>4 DEF Whole, Method, Parse, Lines, RequestLines
<1>7. todo' \in Seq(Writes) /\ ErrorPage("501") \in Seq(Replies)
  BY <1>2, Starts
<1>8. RequestTypeOK'
  BY <1>2, <1>4, <1>5, <1>7 DEF RInv, RequestTypeOK, Writes
<1>9. Begun' /\ ChildInv'
  BY <1>2, <1>6, SameRequest DEF Begun, ChildInv
<1>10. ReplyInv'
  <2> SUFFICES ASSUME Whole, at' = "error"
               PROVE  out' \o todo' \in RepliesTo' /\ Method' = "other"
    BY <1>2, SameRequest DEF ReplyInv, Reply
  <2>1. Method = "other" /\ Method' = "other" /\ todo' = ErrorPage("501") /\ out' = << >>
    BY <1>2, <1>6, SameRequest
  <2>2. RepliesTo' = {ErrorPage("501")}
    BY <2>1 DEF RepliesTo, ErrorPage
  <2> QED
    BY <1>7, <2>1, <2>2, EmptyWrites
<1> QED
  BY <1>2, <1>8, <1>9, <1>10 DEF RInv, FileInv, ExitsForCause

LEMMA ReadHdrStep == RInv /\ ReadHdr => RInv'
<1> SUFFICES ASSUME RInv, ReadHdr PROVE RInv'
  OBVIOUS
<1>1. /\ at \in {"firsthdr", "hdrs"} /\ at' \in {"hdrs", "stat"}
      /\ child = "none" /\ ~refused
      /\ UNCHANGED <<sent, file, left, changed, line, size, todo, out, child, refused>>
      /\ Readline(hdr', hdr) \/ UNCHANGED <<hdr, lines>>
  BY DEF RInv, ChildInv, RequestTypeOK, ReadHdr, Goto, input, forked
<1>2. hdr' \in Lines /\ lines' \in Seq(Lines)
  BY <1>1, ReadsLine DEF RInv, RequestTypeOK
<1>3. RequestTypeOK'
  BY <1>1, <1>2 DEF RInv, RequestTypeOK
<1>4. Begun' /\ ChildInv'
  BY <1>1, SameRequest DEF RInv, Begun, ChildInv
<1> QED
  BY <1>1, <1>3, <1>4, SameRequest DEF RInv, FileInv, ReplyInv, ExitsForCause

(* A step that exits has its cause.                                        *)
LEMMA ExitKeeps ==
  ASSUME RInv, at' = "exited", ExitsForCause', child # "running",
         child # "none" => todo' = << >>,
         UNCHANGED <<sent, file, left, changed, line, hdr, size, lines, out, child>>,
         todo' \in Seq(Writes), refused' \in BOOLEAN
  PROVE  RInv'
<1>1. RequestTypeOK'
  BY DEF RInv, RequestTypeOK, Writes
<1>2. Begun' /\ FileInv' /\ ChildInv'
  BY DEF RInv, RequestTypeOK, Begun, FileInv, ChildInv
<1>3. ReplyInv'
  BY DEF ReplyInv
<1> QED
  BY <1>1, <1>2, <1>3 DEF RInv

LEMMA StatStep == RInv /\ Stat => RInv'
<1> SUFFICES ASSUME RInv, Stat PROVE RInv'
  OBVIOUS
<1>1. /\ at = "stat" /\ out = << >> /\ line \in {"static", "dynamic"}
      /\ child = "none" /\ ~refused
      /\ UNCHANGED <<sent, file, left, changed, line, hdr, lines, out, child, refused>>
      /\ \/ /\ file = "absent" /\ at' = "error" /\ todo' = ErrorPage("404") /\ UNCHANGED size
         \/ /\ file = "forbidden" /\ at' = "error" /\ todo' = ErrorPage("403") /\ UNCHANGED size
         \/ /\ file \in Served /\ size' = IF file = "empty" THEN 0 ELSE 1
            /\ line = "dynamic" /\ at' = "cgihead" /\ todo' = <<"200", "server">>
         \/ /\ file \in Served /\ size' = IF file = "empty" THEN 0 ELSE 1
            /\ line = "static" /\ at' = "head" /\ todo' = <<"200">>
  BY DEF RInv, RequestTypeOK, RequestLines, Begun, ChildInv, Stat, Clienterror,
     Goto, ErrorPage, input, forked
<1>2. todo' \in Seq(Writes) /\ todo' \in Seq(Replies)
  BY <1>1, Starts
<1>3. RequestTypeOK'
  BY <1>1, <1>2 DEF RInv, RequestTypeOK, Writes
<1>4. Begun' /\ ChildInv'
  BY <1>1, SameRequest DEF RInv, Begun, ChildInv
<1>5. FileInv'
  BY <1>1 DEF FileInv
<1>6. ReplyInv'
  <2> SUFFICES ASSUME ~left, ~changed, Whole PROVE ReplyInv'
    BY <1>1, SameRequest DEF ReplyInv
  <2>1. Reply' = todo'
    BY <1>1, <1>2, EmptyWrites DEF Reply
  <2>2. Method = line /\ Method' = Method
    BY <1>1, SameRequest DEF RInv, Begun
  <2>3. ASSUME at' = "error" PROVE todo' \in RepliesTo' /\ file' \in {"absent", "forbidden"}
    <3>1. Method' # "other" /\ file' = file /\ file \in {"absent", "forbidden"}
      BY <1>1, <2>2, <2>3
    <3>2. RepliesTo' = IF file = "absent" THEN {ErrorPage("404")} ELSE {ErrorPage("403")}
      BY <3>1 DEF RepliesTo, Served, ErrorPage
    <3> QED
      BY <1>1, <2>3, <3>1, <3>2
  <2> QED
    BY <1>1, <2>1, <2>3 DEF ReplyInv
<1> QED
  BY <1>1, <1>3, <1>4, <1>5, <1>6 DEF RInv, ExitsForCause

LEMMA WriteStep == RInv /\ Write => RInv'
<1> SUFFICES ASSUME RInv, Write PROVE RInv'
  OBVIOUS
<1>1. /\ todo # << >> /\ todo \in Seq(Writes) /\ out \in Seq(Replies)
      /\ child = "none" /\ (refused => at = "exited")
      /\ UNCHANGED <<sent, file, left, changed, line, hdr, size, lines, child, refused>>
  BY DEF RInv, RequestTypeOK, ChildInv, Write, input, forked, Writes, Replies
<1>2. /\ Tail(todo) \in Seq(Writes) /\ Append(out, Head(todo)) \in Seq(Replies)
      /\ Append(out, Head(todo)) \o Tail(todo) = out \o todo
  BY <1>1, WriteMoves
<1>3. CASE left /\ at' = "exited" /\ todo' = << >> /\ UNCHANGED out
  <2>1. << >> \in Seq(Writes)
    BY Starts
  <2> QED
    BY <1>1, <1>3, <2>1, ExitKeeps DEF RInv, RequestTypeOK, ExitsForCause
<1>4. CASE /\ todo' = Tail(todo) /\ UNCHANGED at
           /\ \/ ~left /\ out' = Append(out, Head(todo))
              \/ left /\ UNCHANGED out
  <2>1. at \notin {"line", "firsthdr", "hdrs", "stat", "open", "munmap", "fork", "wait", "done"}
    BY <1>1 DEF RInv, Begun
  <2>2. RequestTypeOK'
    BY <1>1, <1>2, <1>4 DEF RInv, RequestTypeOK, Writes, Replies
  <2>3. Begun' /\ ChildInv'
    BY <1>1, <1>4, <2>1, SameRequest DEF RInv, Begun, ChildInv
  <2>4. ReplyInv'
    <3> SUFFICES ASSUME ~left, ~changed, Whole PROVE ReplyInv'
      BY <1>1, SameRequest DEF ReplyInv
    <3>1. Reply' = Reply /\ RepliesTo' = RepliesTo
      BY <1>1, <1>2, <1>4, SameReplies DEF Reply
    <3> QED
      BY <1>1, <1>4, <2>1, <3>1, SameRequest DEF RInv, ReplyInv
  <2> QED
    BY <1>1, <1>4, <2>2, <2>3, <2>4 DEF RInv, FileInv, ExitsForCause
<1> QED
  BY <1>3, <1>4 DEF Write

LEMMA WrittenStep == RInv /\ Written => RInv'
<1> SUFFICES ASSUME RInv, Written PROVE RInv'
  OBVIOUS
<1>1. /\ todo = << >> /\ out \in Seq(Replies) /\ child = "none" /\ ~refused
      /\ UNCHANGED <<sent, file, left, changed, line, hdr, size, lines, todo, out, child, refused>>
      /\ \/ at = "error" /\ at' = "done"
         \/ at = "head" /\ at' = "open"
         \/ at = "body" /\ at' = "munmap"
         \/ at = "cgihead" /\ at' = "fork"
  BY DEF RInv, RequestTypeOK, ChildInv, Written, Goto, input, forked, Replies
<1>2. RequestTypeOK'
  BY <1>1 DEF RInv, RequestTypeOK
<1>3. Begun' /\ ChildInv'
  BY <1>1, SameRequest DEF RInv, Begun, ChildInv
<1>4. ReplyInv'
  <2> SUFFICES ASSUME ~left, ~changed, Whole PROVE ReplyInv'
    BY <1>1, SameRequest DEF ReplyInv
  <2>1. Reply = out /\ Reply' = out /\ RepliesTo' = RepliesTo
    BY <1>1, EmptyWrites, SameReplies DEF Reply
  <2> QED
    BY <1>1, <2>1 DEF RInv, ReplyInv
<1> QED
  BY <1>1, <1>2, <1>3, <1>4 DEF RInv, FileInv, ExitsForCause

LEMMA OpenStep == RInv /\ Open => RInv'
<1> SUFFICES ASSUME RInv, Open PROVE RInv'
  OBVIOUS
<1>1. /\ at = "open" /\ todo = << >> /\ out \in Seq(Replies) /\ child = "none" /\ ~refused
      /\ UNCHANGED <<sent, file, left, changed, line, hdr, size, lines, out, child>>
  BY DEF RInv, RequestTypeOK, Begun, ChildInv, Open, Goto, input, Replies
<1>2. CASE /\ file \in {"absent", "closed", "forbidden"} \/ (size = 1 /\ file = "empty")
           /\ at' = "exited" /\ UNCHANGED <<todo, refused>>
  <2>1. changed \/ file = "closed"
    BY <1>1, <1>2 DEF RInv, FileInv, Served
  <2>2. line = "static"
    BY <1>1 DEF RInv, Begun
  <2> QED
    BY <1>1, <1>2, <2>1, <2>2, ExitKeeps DEF RInv, RequestTypeOK, Writes, ExitsForCause
<1>3. CASE at' = "exited" /\ refused' /\ UNCHANGED todo
  BY <1>1, <1>3, ExitKeeps DEF RInv, RequestTypeOK, Writes, ExitsForCause
<1>4. CASE /\ at' = "body" /\ UNCHANGED refused
           /\ todo' = IF size = 0 THEN << >> ELSE <<"body">>
  <2>1. todo' \in Seq(Writes) /\ todo' \in Seq(Replies)
    BY <1>4, Starts
  <2>2. RequestTypeOK'
    BY <1>1, <1>4, <2>1 DEF RInv, RequestTypeOK, Writes
  <2>3. Begun' /\ ChildInv'
    BY <1>1, <1>4, SameRequest DEF RInv, Begun, ChildInv
  <2>4. ReplyInv'
    <3> SUFFICES ASSUME ~left, ~changed, Whole
                 PROVE  out' \o todo' = IF size = 0 THEN <<"200">> ELSE <<"200", "body">>
      BY <1>1, <1>4, SameRequest DEF ReplyInv, Reply
    <3>1. out = <<"200">>
      BY <1>1, EmptyWrites DEF RInv, ReplyInv, Reply
    <3>2. <<"200">> \o << >> = <<"200">> /\ <<"200">> \o <<"body">> = <<"200", "body">>
      BY ShortReplies DEF Replies
    <3> QED
      BY <1>1, <1>4, <3>1, <3>2
  <2> QED
    BY <1>1, <1>4, <2>2, <2>3, <2>4 DEF RInv, FileInv, ExitsForCause
<1> QED
  BY <1>2, <1>3, <1>4 DEF Open, Goto

LEMMA MunmapStep == RInv /\ DoMunmap => RInv'
<1> SUFFICES ASSUME RInv, DoMunmap PROVE RInv'
  OBVIOUS
<1>1. /\ at = "munmap" /\ at' = IF size = 0 THEN "exited" ELSE "done"
      /\ todo = << >> /\ out \in Seq(Replies) /\ child = "none" /\ ~refused
      /\ UNCHANGED <<sent, file, left, changed, line, hdr, size, lines, todo, out, child, refused>>
  BY DEF RInv, RequestTypeOK, Begun, ChildInv, DoMunmap, Goto, input, forked, Replies
<1>2. CASE size = 0
  <2>1. (changed \/ file = "empty") /\ line = "static"
    BY <1>1, <1>2 DEF RInv, FileInv, Begun
  <2> QED
    BY <1>1, <1>2, <2>1, ExitKeeps DEF RInv, RequestTypeOK, Writes, ExitsForCause
<1>3. CASE size # 0
  <2>1. RequestTypeOK' /\ Begun' /\ ChildInv'
    BY <1>1, <1>3, SameRequest DEF RInv, RequestTypeOK, Begun, ChildInv
  <2>2. ReplyInv'
    <3> SUFFICES ASSUME ~left, ~changed, Whole PROVE out' \in RepliesTo'
      BY <1>1, <1>3, SameRequest DEF ReplyInv
    <3>1. file' \in Served /\ Method' = "static"
      BY <1>1, <1>3, SameRequest DEF RInv, FileInv, ReplyInv, Begun
    <3>2. out' = <<"200", "body">>
      BY <1>1, <1>3, EmptyWrites DEF RInv, ReplyInv, Reply
    <3>3. RepliesTo' = {<<"200", "body">>}
      BY <3>1 DEF RepliesTo, Served
    <3> QED
      BY <3>2, <3>3
  <2> QED
    BY <1>1, <1>3, <2>1, <2>2 DEF RInv, FileInv, ExitsForCause
<1> QED
  BY <1>2, <1>3

LEMMA ForkStep == RInv /\ Fork => RInv'
<1> SUFFICES ASSUME RInv, Fork PROVE RInv'
  OBVIOUS
<1>1. /\ at = "fork" /\ todo = << >> /\ child = "none" /\ ~refused /\ out \in Seq(Replies)
      /\ UNCHANGED <<sent, file, left, changed, line, hdr, size, lines, todo, out>>
  BY DEF RInv, RequestTypeOK, Begun, ChildInv, Fork, Goto, input, Replies
<1>2. CASE at' = "wait" /\ child' = "running" /\ UNCHANGED refused
  <2>1. RequestTypeOK' /\ Begun' /\ ChildInv'
    BY <1>1, <1>2, SameRequest DEF RInv, RequestTypeOK, Begun, ChildInv
  <2>2. ReplyInv'
    <3> SUFFICES ASSUME ~left, ~changed, Whole PROVE line = "dynamic" /\ out = <<"200", "server">>
      BY <1>1, <1>2, SameRequest DEF ReplyInv
    <3> QED
      BY <1>1, EmptyWrites DEF RInv, ReplyInv, Reply
  <2> QED
    BY <1>1, <1>2, <2>1, <2>2 DEF RInv, FileInv, ExitsForCause
<1>3. CASE at' = "exited" /\ refused' /\ UNCHANGED child
  BY <1>1, <1>3, ExitKeeps DEF RInv, RequestTypeOK, Writes, ExitsForCause
<1> QED
  BY <1>2, <1>3 DEF Fork, Goto

(* Waiting and reaping: nothing is written, and the child has ended.       *)
LEMMA WaitStep ==
  RInv /\ (Wait \/ Reap \/ WaitReturnsEarly) => RInv'
<1> SUFFICES ASSUME RInv, Wait \/ Reap \/ WaitReturnsEarly PROVE RInv'
  OBVIOUS
<1>1. /\ child # "none" /\ todo = << >>
      /\ UNCHANGED <<sent, file, left, changed, line, hdr, size, lines, todo, out, refused>>
  BY DEF RInv, ChildInv, Wait, Reap, WaitReturnsEarly, Goto, input, forked
<1>2. CASE child = "reaped" /\ at' = "exited" /\ UNCHANGED child
  BY <1>1, <1>2, ExitKeeps DEF RInv, RequestTypeOK, Writes, ExitsForCause
<1>3. CASE /\ \/ child = "ended" /\ child' = "reaped"
              \/ UNCHANGED child
           /\ (at = "wait" /\ at' = "done") \/ (UNCHANGED at /\ child = "ended")
  <2>1. RequestTypeOK' /\ Begun' /\ FileInv' /\ ChildInv'
    BY <1>1, <1>3, SameRequest DEF RInv, RequestTypeOK, Begun, FileInv, ChildInv
  <2>2. ReplyInv'
    BY <1>1, <1>3, SameRequest, SameReplies DEF RInv, ReplyInv, ChildInv, RequestTypeOK
  <2> QED
    BY <1>1, <1>3, <2>1, <2>2 DEF RInv, ExitsForCause
<1> QED
  BY <1>1, <1>2, <1>3 DEF Wait, Reap, WaitReturnsEarly, Goto, forked

LEMMA ChildStep == RInv /\ ChildEnds => RInv'
<1> SUFFICES ASSUME RInv, ChildEnds PROVE RInv'
  OBVIOUS
<1>1. /\ child = "running" /\ child' = "ended" /\ at \in {"wait", "done"}
      /\ todo = << >> /\ out \in Seq(Replies) /\ ~refused
      /\ UNCHANGED <<sent, file, left, changed, line, hdr, size, lines, at, todo>>
      /\ \/ file \in {"forbidden", "full"} /\ Gets("output") /\ ~refused'
         \/ /\ refused' <=> file = "full"
            /\ Gets("log") \/ UNCHANGED out
  BY DEF RInv, RequestTypeOK, ChildInv, ChildEnds, input, Replies
<1>2. refused' \in BOOLEAN
  BY DEF RInv, RequestTypeOK, ChildEnds
<1>3. out' \in Seq(Replies)
  <2>1. "output" \in Replies /\ "log" \in Replies
    BY DEF Replies
  <2> QED
    BY <1>1, <2>1, AppendProperties DEF Gets
<1>4. RequestTypeOK' /\ Begun' /\ ChildInv' /\ FileInv'
  BY <1>1, <1>2, <1>3, SameRequest DEF RInv, RequestTypeOK, Begun, ChildInv, FileInv, Replies
<1>5. ReplyInv'
  <2> SUFFICES ASSUME ~left, ~changed, Whole PROVE line = "dynamic" /\ out' \in RepliesTo'
    BY <1>1, SameRequest DEF ReplyInv
  <2>1. /\ line = "dynamic" /\ Method' = "dynamic" /\ out = <<"200", "server">>
        /\ file' = file /\ file \in Served
    BY <1>1, SameRequest DEF RInv, FileInv, ReplyInv, Begun
  <2>2. /\ Append(<<"200", "server">>, "output") = <<"200", "server", "output">>
        /\ Append(<<"200", "server">>, "log") = <<"200", "server", "log">>
    BY ShortReplies DEF Replies
  <2>3. CASE file = "full" /\ ~refused'
    <3>1. out' = <<"200", "server", "output">>
      BY <1>1, <2>1, <2>2, <2>3 DEF Gets
    <3>2. RepliesTo' = {<<"200", "server", "output">>}
      BY <2>1, <2>3 DEF RepliesTo, Served
    <3> QED
      BY <2>1, <3>1, <3>2
  <2>4. CASE file # "full" \/ refused'
    <3>1. out' \in {<<"200", "server">>, <<"200", "server", "log">>}
      BY <1>1, <2>1, <2>2, <2>4 DEF Gets, Served
    <3>2. RepliesTo' = {<<"200", "server">>, <<"200", "server", "log">>}
      BY <2>1, <2>4 DEF RepliesTo, Served
    <3> QED
      BY <2>1, <3>1, <3>2
  <2> QED
    BY <1>2, <2>3, <2>4
<1> QED
  BY <1>1, <1>4, <1>5 DEF RInv, ExitsForCause, ChildInv

LEMMA WorldStep == RInv /\ (ClientLeaves \/ FileChanges) => RInv'
<1> SUFFICES ASSUME RInv, ClientLeaves \/ FileChanges PROVE RInv'
  OBVIOUS
<1>1. /\ UNCHANGED <<sent, lines, line, hdr, size, at, todo, out, child, refused>>
      /\ left' \/ changed'
      /\ left' \in BOOLEAN /\ changed' \in BOOLEAN /\ file' \in Files
      /\ ~changed' => UNCHANGED file
      /\ (left => left') /\ (changed => changed')
  BY DEF RInv, RequestTypeOK, ClientLeaves, FileChanges, forked
<1>2. RequestTypeOK' /\ Begun' /\ ChildInv'
  BY <1>1, SameRequest DEF RInv, RequestTypeOK, Begun, ChildInv
<1>3. FileInv' /\ ReplyInv' /\ ExitsForCause'
  BY <1>1 DEF RInv, FileInv, ReplyInv, ExitsForCause
<1> QED
  BY <1>2, <1>3 DEF RInv

(* The inductive invariant of a request.                                   *)
THEOREM RequestInvariance == RequestSpec => []RInv
<1>1. RequestInit => RInv
  BY InitRInv
<1>2. ASSUME RInv, [RequestNext]_vars PROVE RInv'
  <2>1. CASE UNCHANGED vars
    <3>1. UNCHANGED <<sent, lines, file, left, changed, line, hdr, size, at, todo, out,
                      child, refused>>
      BY <2>1 DEF vars
    <3>2. RequestTypeOK' /\ Begun' /\ ChildInv'
      BY <1>2, <3>1, SameRequest DEF RInv, RequestTypeOK, Begun, ChildInv
    <3>3. RepliesTo' = RepliesTo /\ Reply' = Reply
      BY <3>1, SameReplies DEF Reply
    <3> QED
      BY <1>2, <3>1, <3>2, <3>3, SameRequest DEF RInv, FileInv, ReplyInv, ExitsForCause
  <2>2. CASE ReadlineError
    <3>1. /\ left /\ at \in {"line", "firsthdr", "hdrs"} /\ at' = "exited"
          /\ UNCHANGED <<sent, file, left, changed, lines, line, hdr, size, todo, out,
                         child, refused>>
      BY <2>2 DEF ReadlineError, input, forked
    <3>2. todo' \in Seq(Writes) /\ refused' \in BOOLEAN /\ child = "none"
      BY <1>2, <3>1 DEF RInv, RequestTypeOK, ChildInv, Writes
    <3> QED
      BY <1>2, <3>1, <3>2, ExitKeeps DEF ExitsForCause
  <2>3. CASE Doit
    BY <1>2, <2>2, <2>3, ReadLineStep, ReadHdrStep, StatStep, WriteStep, WrittenStep, OpenStep,
       MunmapStep, ForkStep, WaitStep DEF Doit
  <2> QED
    BY <1>2, <2>1, <2>3, ChildStep, WaitStep, WorldStep DEF RequestNext
<1> QED
  BY <1>1, <1>2, PTL DEF RequestSpec

(* doit keeps to its states, whatever clients send.                        *)
THEOREM RequestTypeCorrect == RequestSpec => []RequestTypeOK
<1>1. RInv => RequestTypeOK
  BY DEF RInv
<1> QED
  BY <1>1, RequestInvariance, PTL

(* At its end of stream a client that sent a whole request, stayed, and    *)
(* named a file that did not change has the one reply that its method and  *)
(* its file call for, whatever line and hdr held before and whoever reaps  *)
(* the child; the server's log is in it only when a program that passed    *)
(* the tests of doit could not be run.                                     *)
THEOREM ReplyIsRight == RequestSpec => []RightReply
<1>1. RInv => RightReply
  BY DEF RInv, RequestTypeOK, ReplyInv, RightReply, Over
<1> QED
  BY <1>1, RequestInvariance, PTL

(* Every exit of a wrapper while a request is served has one of the causes *)
(* that ExitsForCause names.                                               *)
THEOREM ExitsExplained == RequestSpec => []ExitsForCause
<1>1. RInv => ExitsForCause
  BY DEF RInv
<1> QED
  BY <1>1, RequestInvariance, PTL
=============================================================================
