------------------------- MODULE MultiProcessProofs -------------------------
(* Theorems about MultiProcess, for every number of connections, every     *)
(* process limit and every set of requests.                                *)
EXTENDS MultiProcess, TLAPS

(* The parent holds the connection it has just accepted and no other.      *)
ParentInv ==
  /\ parent \in {"accept", "exited"} => held = {}
  /\ parent \in {"fork", "close"} => next - 1 \in Conns /\ held = {next - 1}
  /\ parent = "fork" => child[next - 1] = "none"
  /\ \A c \in Conns : c >= next => child[c] = "none"
  /\ \A c \in Conns : c < next /\ child[c] = "none" => parent \in {"fork", "exited"}
  /\ \A c \in Conns : c < next /\ child[c] = "none" /\ parent = "fork" => c = next - 1

(* A child has its own connection open while it lives, its CGI program     *)
(* while it runs, and neither any other.                                   *)
OpenInv ==
  \A c \in Conns : /\ inherited[c] = IF Alive(c) THEN {c} ELSE {}
                   /\ cgiheld[c] = IF cgi[c] = "running" THEN {c} ELSE {}

(* A CGI program runs while its child waits.  A child comes to its exit    *)
(* after the reply, or because of what broke the connection or failed; a   *)
(* CGI program ends after the reply, or because it could not be run.       *)
ReplyInv ==
  \A c \in Conns :
    /\ child[c] \in {"none", "doit", "hdrs", "fork"} => cgi[c] = "none"
    /\ child[c] = "wait" => cgi[c] # "none"
    /\ cgi[c] = "running" => child[c] = "wait"
    /\ cgi[c] \in {"zombie", "reaped"} => c \in replied \cup failed
    /\ child[c] \in {"exit", "zombie", "reaped"} => c \in replied \cup broken \cup failed

IInv == TypeOK /\ ParentInv /\ OpenInv /\ ReplyInv

LEMMA InitInv == Init => IInv
<1> SUFFICES ASSUME Init PROVE IInv
  OBVIOUS
<1> USE MultiProcessAssumption DEF Init
<1>1. TypeOK
  <2>1. handling \in BOOLEAN /\ pending \in BOOLEAN
    BY Zenon
  <2>2. next \in 1..(NConns + 1)
    OBVIOUS
  <2> QED
    BY <2>1, <2>2 DEF TypeOK, States
<1>2. ParentInv
  <2>1. \A c \in Conns : c >= 1 /\ ~(c < 1)
    BY DEF Conns
  <2> QED
    BY <2>1 DEF ParentInv
<1>3. OpenInv /\ ReplyInv
  BY DEF OpenInv, ReplyInv, Alive
<1> QED
  BY <1>1, <1>2, <1>3 DEF IInv

(* The parent's steps and its handler.                                     *)
LEMMA ParentStep == IInv /\ (Parent \/ Deliver \/ Handle) => IInv'
<1> SUFFICES ASSUME IInv, Parent \/ Deliver \/ Handle PROVE IInv'
  OBVIOUS
<1> USE MultiProcessAssumption
    DEF IInv, TypeOK, ParentInv, OpenInv, ReplyInv, Alive, Conns, States
<1>1. CASE Accept
  <2> USE <1>1 DEF Accept, Runs, signals, cgiVars
  <2>1. held' = {next} /\ next' = next + 1 /\ next \in Conns /\ parent' = "fork"
    OBVIOUS
  <2>2. TypeOK'
    BY <2>1
  <2>3. next' - 1 = next /\ child[next] = "none"
    BY <2>1
  <2>4. ParentInv'
    <3>1. \A c \in Conns : c >= next' => child'[c] = "none"
      BY <2>1
    <3> QED
      BY <2>1, <2>3, <3>1
  <2>5. OpenInv' /\ ReplyInv'
    OBVIOUS
  <2> QED
    BY <2>2, <2>4, <2>5
<1>2. CASE Fork
  <2> USE <1>2 DEF Fork, Runs, signals, cgiVars
  <2>1. next - 1 \in Conns /\ held = {next - 1} /\ child[next - 1] = "none"
    OBVIOUS
  <2>2. CASE parent' = "close"
    <3> DEFINE d == next - 1
    <3>1. /\ child' = [child EXCEPT ![d] = "doit"]
          /\ inherited' = [inherited EXCEPT ![d] = {d}]
          /\ held' = held
      BY <2>1, <2>2
    <3>2. d \in Conns /\ d < next
      BY <2>1
    <3> HIDE DEF d
    <3>3. TypeOK'
      BY <2>2, <3>1, <3>2
    <3>4. ParentInv'
      BY <2>1, <2>2, <3>1, <3>2 DEF d
    <3>5. OpenInv'
      <4>1. \A c \in Conns : /\ child'[c] = IF c = d THEN "doit" ELSE child[c]
                           /\ inherited'[c] = IF c = d THEN {d} ELSE inherited[c]
        BY <3>1, <3>2
      <4>2. OpenInv /\ UNCHANGED <<cgi, cgiheld>>
        OBVIOUS
      <4> QED
        BY ONLY <4>1, <4>2 DEF OpenInv, Alive
    <3>6. ReplyInv'
      <4>1. \A c \in Conns : \/ child'[c] = child[c]
                             \/ c = d /\ child[c] = "none" /\ child'[c] = "doit"
        BY <2>1, <3>1, <3>2 DEF d
      <4>2. UNCHANGED <<cgi, replied, broken, failed>>
        OBVIOUS
      <4>3. ReplyInv
        OBVIOUS
      <4> QED
        BY ONLY <4>1, <4>2, <4>3 DEF ReplyInv
    <3> QED
      BY <3>3, <3>4, <3>5, <3>6
  <2>3. CASE parent' = "exited"
    <3>1. child' = child /\ inherited' = inherited /\ held' = {}
      BY <2>3
    <3> QED
      BY <2>3, <3>1
  <2> QED
    BY <2>2, <2>3
<1>3. CASE Close
  BY <1>3 DEF Close, Runs, signals, cgiVars
<1>4. CASE Deliver
  BY <1>4 DEF Deliver, parentVars, cgiVars
<1>5. CASE Handle
  <2> USE <1>5 DEF Handle, parentVars, cgiVars
  <2>1. CASE \E c \in Conns : /\ child[c] = "zombie"
                             /\ child' = [child EXCEPT ![c] = "reaped"]
                             /\ UNCHANGED handling
    <3>1. PICK c \in Conns : /\ child[c] = "zombie"
                             /\ child' = [child EXCEPT ![c] = "reaped"]
                             /\ UNCHANGED handling
      BY <2>1
    <3>2. TypeOK' /\ ParentInv'
      BY <3>1
    <3>3. OpenInv' /\ ReplyInv'
      BY <3>1
    <3> QED
      BY <3>2, <3>3
  <2>2. CASE handling' = FALSE /\ UNCHANGED child
    <3>1. handling' \in BOOLEAN
      BY <2>2, Zenon
    <3> QED
      BY <2>2, <3>1
  <2> QED
    BY <2>1, <2>2
<1> QED
  BY <1>1, <1>2, <1>3, <1>4, <1>5 DEF Parent

(* The steps of a child and its CGI program.                               *)
LEMMA ChildStep ==
  ASSUME NEW c \in Conns, IInv, Child(c) \/ ChildHandler(c)
  PROVE  IInv'
<1> USE MultiProcessAssumption
    DEF IInv, TypeOK, ParentInv, OpenInv, ReplyInv, Alive, Conns, States
<1>1. CASE Doit(c)
  <2>0. /\ replied' \in {replied, replied \cup {c}} /\ broken' \in {broken, broken \cup {c}}
        /\ failed' \in {failed, failed \cup {c}}
        /\ \E l \in {"hdrs", "fork", "exit"} : child' = [child EXCEPT ![c] = l]
        /\ UNCHANGED <<parentVars, signals, inherited, cgiVars>>
    BY <1>1 DEF Doit, Goto
  <2> USE <1>1 DEF Doit, Goto, parentVars, signals, cgiVars
  <2>1. TypeOK'
    <3>1. TypeOK
      OBVIOUS
    <3>2. replied' \subseteq Conns /\ broken' \subseteq Conns /\ failed' \subseteq Conns
      BY ONLY <2>0, <3>1, c \in Conns DEF TypeOK
    <3>3. child' \in [Conns -> {"none", "doit", "hdrs", "fork", "wait", "exit", "zombie",
                                "reaped"}]
      BY ONLY <2>0, <3>1 DEF TypeOK
    <3> QED
      BY ONLY <2>0, <3>1, <3>2, <3>3 DEF TypeOK, parentVars, signals, cgiVars
  <2>2. ParentInv'
    <3>1. \A d \in Conns : child'[d] = "none" <=> child[d] = "none"
      OBVIOUS
    <3>2. ParentInv /\ UNCHANGED parentVars
      OBVIOUS
    <3> QED
      BY ONLY <3>1, <3>2 DEF ParentInv, parentVars
  <2>3. child[c] = "doit" /\ Alive(c)' /\ (\A d \in Conns : d # c => child'[d] = child[d])
    OBVIOUS
  <2>4. OpenInv'
    <3>1. OpenInv /\ UNCHANGED <<inherited, cgi, cgiheld>>
      OBVIOUS
    <3> QED
      BY ONLY <2>3, <3>1 DEF OpenInv, Alive
  <2>5. ReplyInv'
    <3>1. /\ \/ child'[c] \in {"hdrs", "fork"}
             \/ child'[c] = "exit" /\ c \in (replied \cup broken \cup failed)'
          /\ replied \subseteq replied' /\ broken \subseteq broken' /\ failed \subseteq failed'
          /\ cgi' = cgi
      OBVIOUS
    <3>2. ReplyInv
      OBVIOUS
    <3> QED
      BY ONLY <2>3, <3>1, <3>2 DEF ReplyInv
  <2> QED
    BY <2>1, <2>2, <2>4, <2>5
<1>2. CASE ForkCgi(c)
  <2> USE <1>2 DEF ForkCgi, Goto, parentVars, signals
  <2>1. /\ child[c] = "fork" /\ child'[c] \in {"wait", "exit"} /\ inherited' = inherited
        /\ child'[c] = "wait" => cgi'[c] = "running" /\ cgiheld'[c] = inherited[c]
        /\ child'[c] = "exit" => cgi' = cgi /\ cgiheld' = cgiheld /\ c \in failed'
        /\ \A d \in Conns : d # c => /\ child'[d] = child[d] /\ cgi'[d] = cgi[d]
                                   /\ cgiheld'[d] = cgiheld[d]
        /\ replied' = replied /\ broken' = broken /\ failed \subseteq failed'
    OBVIOUS
  <2>2. TypeOK'
    <3>0. /\ \E l \in {"wait", "exit"} : child' = [child EXCEPT ![c] = l]
          /\ cgi' = cgi \/ cgi' = [cgi EXCEPT ![c] = "running"]
          /\ cgiheld' = cgiheld \/ cgiheld' = [cgiheld EXCEPT ![c] = inherited[c]]
          /\ failed' \in {failed, failed \cup {c}}
      BY ONLY <1>2 DEF ForkCgi, Goto
    <3>1. /\ child' \in [Conns -> {"none", "doit", "hdrs", "fork", "wait", "exit", "zombie",
                                   "reaped"}]
          /\ cgi' \in [Conns -> States]
      BY ONLY TypeOK, <3>0 DEF TypeOK, States
    <3>2. cgiheld' \in [Conns -> SUBSET Conns] /\ failed' \subseteq Conns
      <4>1. inherited[c] \in SUBSET Conns
        OBVIOUS
      <4> QED
        BY ONLY TypeOK, <3>0, <4>1, c \in Conns DEF TypeOK
    <3>3. TypeOK /\ UNCHANGED <<parentVars, signals, inherited, cgipending, replied, broken>>
      OBVIOUS
    <3> QED
      BY ONLY <3>1, <3>2, <3>3 DEF TypeOK, parentVars, signals, States
  <2>3. ParentInv'
    <3>1. \A d \in Conns : child'[d] = "none" <=> child[d] = "none"
      BY <2>1
    <3>2. ParentInv /\ UNCHANGED parentVars
      OBVIOUS
    <3> QED
      BY ONLY <3>1, <3>2 DEF ParentInv, parentVars
  <2>4. OpenInv /\ ReplyInv
    OBVIOUS
  <2>5. OpenInv'
    BY ONLY <2>1, <2>4, c \in Conns DEF OpenInv, ReplyInv, Alive
  <2>6. ReplyInv'
    BY ONLY <2>1, <2>4, c \in Conns DEF ReplyInv
  <2> QED
    BY <2>2, <2>3, <2>5, <2>6
<1>3. CASE Wait(c)
  <2> USE <1>3 DEF Wait, Goto, parentVars, signals, cgiVars
  <2>1. TypeOK'
    OBVIOUS
  <2>2. ParentInv'
    <3>1. \A d \in Conns : child'[d] = "none" <=> child[d] = "none"
      OBVIOUS
    <3>2. ParentInv /\ UNCHANGED parentVars
      OBVIOUS
    <3> QED
      BY ONLY <3>1, <3>2 DEF ParentInv, parentVars
  <2>3. OpenInv'
    <3>1. /\ \A d \in Conns : Alive(d)' <=> Alive(d)
          /\ \A d \in Conns : cgi'[d] = "running" <=> cgi[d] = "running"
      OBVIOUS
    <3>2. OpenInv /\ UNCHANGED <<inherited, cgiheld>>
      OBVIOUS
    <3> QED
      BY ONLY <3>1, <3>2 DEF OpenInv, Alive
  <2>4. ReplyInv'
    OBVIOUS
  <2> QED
    BY <2>1, <2>2, <2>3, <2>4
<1>4. CASE ChildHandler(c)
  <2> USE <1>4 DEF ChildHandler, Goto, parentVars, signals, cgiVars
  <2>1. TypeOK'
    OBVIOUS
  <2>2. ParentInv'
    <3>1. \A d \in Conns : child'[d] = "none" <=> child[d] = "none"
      OBVIOUS
    <3>2. ParentInv /\ UNCHANGED parentVars
      OBVIOUS
    <3> QED
      BY ONLY <3>1, <3>2 DEF ParentInv, parentVars
  <2>3. OpenInv'
    <3>1. /\ \A d \in Conns : Alive(d)' <=> Alive(d)
          /\ \A d \in Conns : cgi'[d] = "running" <=> cgi[d] = "running"
      OBVIOUS
    <3>2. OpenInv /\ UNCHANGED <<inherited, cgiheld>>
      OBVIOUS
    <3> QED
      BY ONLY <3>1, <3>2 DEF OpenInv, Alive
  <2>4. ReplyInv'
    OBVIOUS
  <2> QED
    BY <2>1, <2>2, <2>3, <2>4
<1>5. CASE Exit(c)
  <2> USE <1>5 DEF Exit, Goto, parentVars
  <2>1. TypeOK'
    OBVIOUS
  <2>2. ParentInv'
    <3>1. \A d \in Conns : child'[d] = "none" <=> child[d] = "none"
      OBVIOUS
    <3>2. ParentInv /\ UNCHANGED parentVars
      OBVIOUS
    <3> QED
      BY ONLY <3>1, <3>2 DEF ParentInv, parentVars
  <2>3. OpenInv'
    <3>1. /\ child'[c] = "zombie" /\ inherited'[c] = {} /\ UNCHANGED <<cgi, cgiheld>>
          /\ \A d \in Conns : d # c => child'[d] = child[d] /\ inherited'[d] = inherited[d]
      OBVIOUS
    <3>2. OpenInv
      OBVIOUS
    <3> QED
      BY ONLY <3>1, <3>2 DEF OpenInv, Alive
  <2>4. ReplyInv'
    OBVIOUS
  <2> QED
    BY <2>1, <2>2, <2>3, <2>4
<1>6. CASE CgiExit(c)
  <2> USE <1>6 DEF CgiExit, Goto, parentVars, signals, cgiVars
  <2>1. TypeOK'
    <3>1. /\ cgi' = [cgi EXCEPT ![c] = "zombie"] /\ cgiheld' = [cgiheld EXCEPT ![c] = {}]
          /\ replied' \in {replied, replied \cup {c}} /\ failed' \in {failed, failed \cup {c}}
          /\ cgipending' = cgipending \cup {c}
          /\ UNCHANGED <<parentVars, signals, child, inherited, broken>>
      BY ONLY <1>6 DEF CgiExit
    <3> QED
      BY ONLY TypeOK, <3>1, c \in Conns DEF TypeOK, States, parentVars, signals
  <2>2. ParentInv'
    <3>1. ParentInv /\ UNCHANGED <<parentVars, child>>
      OBVIOUS
    <3> QED
      BY ONLY <3>1 DEF ParentInv, parentVars
  <2>3. OpenInv'
    <3>1. \A d \in Conns : /\ cgi'[d] = IF d = c THEN "zombie" ELSE cgi[d]
                         /\ cgiheld'[d] = IF d = c THEN {} ELSE cgiheld[d]
      OBVIOUS
    <3>2. OpenInv /\ UNCHANGED <<child, inherited>>
      OBVIOUS
    <3> QED
      BY ONLY <3>1, <3>2 DEF OpenInv, Alive
  <2>4. ReplyInv'
    <3>1. /\ cgi[c] = "running" /\ cgi'[c] = "zombie" /\ c \in replied' \cup failed'
          /\ replied \subseteq replied' /\ failed \subseteq failed' /\ UNCHANGED <<child, broken>>
          /\ \A d \in Conns : d # c => cgi'[d] = cgi[d]
      OBVIOUS
    <3>2. ReplyInv
      OBVIOUS
    <3> QED
      BY ONLY <3>1, <3>2 DEF ReplyInv
  <2> QED
    BY <2>1, <2>2, <2>3, <2>4
<1> QED
  BY <1>1, <1>2, <1>3, <1>4, <1>5, <1>6 DEF Child

(* The inductive invariant holds in every reachable state.                 *)
THEOREM Invariance == Spec => []IInv
<1>1. IInv /\ [Next]_vars => IInv'
  <2>1. IInv /\ Next => IInv'
    BY ParentStep, ChildStep DEF Next
  <2>2. IInv /\ UNCHANGED vars => IInv'
    BY DEF vars, parentVars, signals, cgiVars, IInv, TypeOK, ParentInv, OpenInv, ReplyInv, Alive
  <2> QED
    BY <2>1, <2>2
<1> QED
  BY InitInv, <1>1, PTL DEF Spec

(* No process ever has another client's connection open.                   *)
THEOREM ConnectionsArePrivate == Spec => []OnlyOwnConnection
<1>1. IInv => OnlyOwnConnection
  BY DEF IInv, OpenInv, OnlyOwnConnection
<1> QED
  BY Invariance, <1>1, PTL

(* The end of the stream comes after the whole reply, whoever closes last  *)
(* and whether Wait or the handler reaps the CGI program, and also when    *)
(* the parent has exited meanwhile: but for a client that has left, a call *)
(* that failed in the processes that serve it, and a server that exited in *)
(* Fork before it had a child for the connection.                          *)
THEOREM RepliesAreWhole == Spec => []EndMeansWhole
<1>1. IInv => EndMeansWhole
  <2> SUFFICES ASSUME IInv, NEW c \in Conns, Ended(c), child[c] # "none"
               PROVE  c \in replied \cup broken \cup failed
    BY DEF EndMeansWhole
  <2>1. ~Alive(c)
    BY DEF IInv, OpenInv, Ended
  <2>2. child[c] \in {"zombie", "reaped"}
    BY <2>1 DEF Alive, IInv, TypeOK
  <2> QED
    BY <2>2 DEF IInv, ReplyInv
<1> QED
  BY Invariance, <1>1, PTL

-----------------------------------------------------------------------------
(* Who has a connection open.                                              *)
LEMMA EndedIs ==
  ASSUME IInv, NEW c \in Conns
  PROVE  Ended(c) <=> c < next /\ c \notin held /\ ~Alive(c) /\ cgi[c] # "running"
<1>1. \A d \in Conns : /\ c \in inherited[d] <=> d = c /\ Alive(c)
                       /\ c \in cgiheld[d] <=> d = c /\ cgi[c] = "running"
  <2> SUFFICES ASSUME NEW d \in Conns
               PROVE  /\ c \in inherited[d] <=> d = c /\ Alive(c)
                      /\ c \in cgiheld[d] <=> d = c /\ cgi[c] = "running"
    OBVIOUS
  <2>1. /\ inherited[d] = IF Alive(d) THEN {d} ELSE {}
        /\ cgiheld[d] = IF cgi[d] = "running" THEN {d} ELSE {}
    BY DEF IInv, OpenInv
  <2> QED
    BY ONLY <2>1 DEF Alive
<1>2. CASE Alive(c) \/ cgi[c] = "running"
  BY <1>1, <1>2 DEF Ended, Alive
<1>3. CASE ~Alive(c) /\ cgi[c] # "running"
  <2>1. \A d \in Conns : c \notin inherited[d] \cup cgiheld[d]
    BY <1>1, <1>3
  <2> QED
    BY <1>3, <2>1 DEF Ended
<1> QED
  BY <1>2, <1>3

LEMMA EndedWillBe ==
  ASSUME IInv', NEW c \in Conns
  PROVE  Ended(c)' <=> c < next' /\ c \notin held' /\ ~Alive(c)' /\ cgi'[c] # "running"
<1>1. \A d \in Conns : /\ c \in inherited'[d] <=> d = c /\ Alive(c)'
                       /\ c \in cgiheld'[d] <=> d = c /\ cgi'[c] = "running"
  <2> SUFFICES ASSUME NEW d \in Conns
               PROVE  /\ c \in inherited'[d] <=> d = c /\ Alive(c)'
                      /\ c \in cgiheld'[d] <=> d = c /\ cgi'[c] = "running"
    OBVIOUS
  <2>1. /\ inherited'[d] = IF Alive(d)' THEN {d} ELSE {}
        /\ cgiheld'[d] = IF cgi'[d] = "running" THEN {d} ELSE {}
    BY DEF IInv, OpenInv
  <2> QED
    BY ONLY <2>1 DEF Alive
<1>2. CASE Alive(c)' \/ cgi'[c] = "running"
  BY <1>1, <1>2 DEF Ended, Alive
<1>3. CASE ~Alive(c)' /\ cgi'[c] # "running"
  <2>1. \A d \in Conns : c \notin inherited'[d] \cup cgiheld'[d]
    BY <1>1, <1>3
  <2> QED
    BY <1>3, <2>1 DEF Ended
<1> QED
  BY <1>2, <1>3

LEMMA Numbers == \A c \in Conns, n \in 1..(NConns + 1) :
  c \in Nat /\ n \in Nat /\ (c < n \/ c >= n) /\ ~(c < n /\ c >= n)
BY MultiProcessAssumption DEF Conns

(* What the client of a connection sees.                                   *)
LEMMA StreamIs ==
  ASSUME IInv, NEW c \in Conns
  PROVE  /\ c >= next => Stream(c) = "away"
         /\ c < next /\ ~Ended(c) => Stream(c) = "open"
         /\ Ended(c) => Stream(c) = IF c \in replied THEN "whole" ELSE "cut"
<1>1. (c < next \/ c >= next) /\ ~(c < next /\ c >= next)
  BY Numbers DEF IInv, TypeOK
<1> QED
  BY <1>1 DEF Stream, Ended

LEMMA StreamWillBe ==
  ASSUME IInv', NEW c \in Conns
  PROVE  /\ c >= next' => Stream(c)' = "away"
         /\ c < next' /\ ~Ended(c)' => Stream(c)' = "open"
         /\ Ended(c)' => Stream(c)' = IF c \in replied' THEN "whole" ELSE "cut"
<1>1. (c < next' \/ c >= next') /\ ~(c < next' /\ c >= next')
  BY Numbers DEF IInv, TypeOK
<1> QED
  BY <1>1 DEF Stream, Ended

(* How the processes that have connection d open change.                   *)
LEMMA Moves ==
  ASSUME IInv, [Next]_vars, NEW d \in Conns
  PROVE  /\ d \in held' \ held => d = next
         /\ Alive(d)' /\ ~Alive(d) => d \in held
         /\ cgi'[d] = "running" /\ cgi[d] # "running" => Alive(d)
         /\ d \in replied' /\ d \notin replied => Alive(d) \/ cgi[d] = "running"
         /\ replied \subseteq replied'
<1> DEFINE Goal == /\ d \in held' \ held => d = next
                   /\ Alive(d)' /\ ~Alive(d) => d \in held
                   /\ cgi'[d] = "running" /\ cgi[d] # "running" => Alive(d)
                   /\ d \in replied' /\ d \notin replied => Alive(d) \/ cgi[d] = "running"
                   /\ replied \subseteq replied'
<1> USE DEF Alive, parentVars, signals, cgiVars
<1>1. child \in [Conns -> {"none", "doit", "hdrs", "fork", "wait", "exit", "zombie", "reaped"}]
      /\ cgi \in [Conns -> States]
  BY DEF IInv, TypeOK
<1>2. CASE Accept
  BY <1>2 DEF Accept
<1>3. CASE Fork
  <2>1. next - 1 \in Conns /\ held = {next - 1}
    BY <1>3 DEF Fork, Runs, IInv, ParentInv
  <2>2. held' \subseteq held /\ UNCHANGED <<cgi, replied>>
    BY <1>3 DEF Fork
  <2>3. child' = [child EXCEPT ![next - 1] = "doit"] \/ child' = child
    BY <1>3 DEF Fork
  <2> DEFINE e == next - 1
  <2>4. e \in Conns /\ held = {e} /\ (child' = [child EXCEPT ![e] = "doit"] \/ child' = child)
    BY <2>1, <2>3
  <2> HIDE DEF e
  <2> QED
    BY <1>1, <2>2, <2>4
<1>4. CASE Close \/ Deliver \/ UNCHANGED vars
  BY <1>4 DEF Close, Deliver, vars
<1>5. CASE Handle
  <2>1. UNCHANGED <<held, cgi, replied>> /\ (Alive(d)' => Alive(d))
    BY <1>1, <1>5 DEF Handle
  <2> QED
    BY <2>1
<1>6. ASSUME NEW c \in Conns, Child(c) \/ ChildHandler(c) PROVE Goal
  <2> USE DEF Goto
  <2>1. CASE Doit(c)
    BY <1>1, <2>1 DEF Doit
  <2>2. CASE ForkCgi(c)
    BY <1>1, <2>2 DEF ForkCgi
  <2>3. CASE Wait(c)
    BY <1>1, <2>3 DEF Wait
  <2>4. CASE Exit(c)
    BY <1>1, <2>4 DEF Exit
  <2>5. CASE CgiExit(c)
    BY <1>1, <2>5 DEF CgiExit
  <2>6. CASE ChildHandler(c)
    BY <1>1, <2>6 DEF ChildHandler
  <2> QED
    BY <1>6, <2>1, <2>2, <2>3, <2>4, <2>5, <2>6 DEF Child
<1> QED
  BY <1>2, <1>3, <1>4, <1>5, <1>6 DEF Next, Parent

(* The end of a stream is final.                                           *)
LEMMA StaysEnded ==
  ASSUME IInv, IInv', [Next]_vars, NEW c \in Conns, Ended(c), next' = next \/ next' = next + 1
  PROVE  Ended(c)' /\ (c \in replied' <=> c \in replied)
<1>1. c < next /\ c \notin held /\ ~Alive(c) /\ cgi[c] # "running"
  BY EndedIs
<1>2. c \in Nat /\ next \in Nat
  BY Numbers DEF IInv, TypeOK
<1>3. c < next' /\ c # next
  BY <1>1, <1>2
<1> QED
  BY <1>1, <1>3, Moves, EndedWillBe

(* A stream that ends has the whole reply, or its client left, or one of   *)
(* its own processes failed, or the server exited in Fork.                 *)
LEMMA StepStream ==
  ASSUME IInv, IInv', [Next]_vars, NEW c \in Conns, next' = next
  PROVE  \/ Stream(c)' = Stream(c)
         \/ Stream(c) = "open" /\ Stream(c)' = "whole"
         \/ /\ Stream(c) = "open" /\ Stream(c)' = "cut"
            /\ c \in broken' \cup failed' \/ parent' = "exited"
<1>1. (c < next \/ c >= next) /\ ~(c < next /\ c >= next)
  BY Numbers DEF IInv, TypeOK
<1>2. CASE c >= next
  BY <1>2, StreamIs, StreamWillBe
<1>3. CASE Ended(c)
  <2>1. Ended(c)' /\ (c \in replied' <=> c \in replied)
    BY <1>3, StaysEnded
  <2> QED
    BY <1>3, <2>1, StreamIs, StreamWillBe
<1>4. CASE c < next /\ ~Ended(c)
  <2>1. Stream(c) = "open"
    BY <1>4, StreamIs
  <2>2. CASE ~Ended(c)'
    BY <1>4, <2>1, <2>2, StreamWillBe
  <2>3. CASE Ended(c)'
    <3>1. Stream(c)' = IF c \in replied' THEN "whole" ELSE "cut"
      BY <2>3, StreamWillBe
    <3>2. c < next' /\ c \notin held' /\ ~Alive(c)' /\ cgi'[c] # "running"
      BY <2>3, EndedWillBe
    <3>3. CASE child'[c] = "none"
      <4>1. parent' \in {"fork", "exited"}
        BY <3>2, <3>3 DEF IInv, ParentInv
      <4>2. parent' = "fork" => c \in held'
        BY <3>2, <3>3 DEF IInv, ParentInv
      <4> QED
        BY <2>1, <3>1, <3>2, <4>1, <4>2
    <3>4. CASE child'[c] # "none"
      <4>1. child'[c] \in {"zombie", "reaped"}
        BY <3>2, <3>4 DEF IInv, TypeOK, Alive
      <4>2. c \in replied' \cup broken' \cup failed'
        BY <4>1 DEF IInv, ReplyInv
      <4> QED
        BY <2>1, <3>1, <4>2
    <3> QED
      BY <3>3, <3>4
  <2> QED
    BY <2>2, <2>3
<1> QED
  BY <1>1, <1>2, <1>3, <1>4

(* The step in which a client leaves or a call fails ends no stream: the   *)
(* child is still there, to exit.                                          *)
LEMMA BreakStream ==
  ASSUME IInv, IInv', [Next]_vars, broken' \cup failed' # broken \cup failed
  PROVE  /\ \E c \in Conns : broken' \cup failed' = broken \cup failed \cup {c}
         /\ \A c \in Conns : Stream(c)' = Stream(c)
         /\ UNCHANGED <<parent, next>>
<1>1. PICK b \in Conns : Doit(b) \/ ForkCgi(b) \/ CgiExit(b)
  BY DEF Next, vars, Parent, Accept, Fork, Close, Deliver, Handle, Child, Wait, Exit,
     ChildHandler
<1>2. child \in [Conns -> {"none", "doit", "hdrs", "fork", "wait", "exit", "zombie", "reaped"}]
      /\ cgi \in [Conns -> States]
  BY DEF IInv, TypeOK
<1>3. /\ broken' \cup failed' = broken \cup failed \cup {b}
      /\ replied' = replied /\ UNCHANGED <<parent, next, held>>
      /\ \A c \in Conns : Alive(c)' <=> Alive(c)
      /\ \A c \in Conns : cgi'[c] = "running" => Alive(c)
      /\ \A c \in Conns : cgi[c] = "running" => Alive(c)
  <2>1. \A c \in Conns : cgi[c] = "running" => Alive(c)
    BY DEF IInv, ReplyInv, Alive
  <2>2. \A c \in Conns : cgi'[c] = "running" => Alive(c)'
    BY DEF IInv, ReplyInv, Alive
  <2>3. CASE Doit(b)
    <3>1. /\ Goto(b, "doit", "exit") /\ broken' \cup failed' = broken \cup failed \cup {b}
          /\ replied' = replied /\ UNCHANGED <<parent, next, held, cgi>>
      BY <2>3 DEF Doit, parentVars, cgiVars
    <3> QED
      BY <1>2, <2>1, <3>1 DEF Alive, Goto
  <2>4. CASE ForkCgi(b)
    <3>1. /\ Goto(b, "fork", "exit") /\ broken' \cup failed' = broken \cup failed \cup {b}
          /\ replied' = replied /\ UNCHANGED <<parent, next, held, cgi>>
      BY <2>4 DEF ForkCgi, parentVars
    <3> QED
      BY <1>2, <2>1, <3>1 DEF Alive, Goto
  <2>5. CASE CgiExit(b)
    <3>1. /\ broken' \cup failed' = broken \cup failed \cup {b}
          /\ replied' = replied /\ UNCHANGED <<parent, next, held, child>>
      BY <2>5 DEF CgiExit, parentVars
    <3>2. \A c \in Conns : Alive(c)' <=> Alive(c)
      BY <3>1 DEF Alive
    <3> QED
      BY <2>1, <2>2, <3>1, <3>2
  <2> QED
    BY <1>1, <2>3, <2>4, <2>5
<1>5. \A c \in Conns : Ended(c)' <=> Ended(c)
  BY <1>3, EndedIs, EndedWillBe
<1>6. ASSUME NEW c \in Conns PROVE Stream(c)' = Stream(c)
  <2>1. c < next \/ c >= next
    BY Numbers DEF IInv, TypeOK
  <2> QED
    BY <1>3, <1>5, <2>1, StreamIs, StreamWillBe
<1> QED
  BY <1>3, <1>6

(* A step that accepts leaves the streams of the others as they are.       *)
LEMMA AcceptStream ==
  ASSUME IInv, IInv', [Next]_vars, next' # next
  PROVE  /\ parent = "accept" /\ parent' = "fork" /\ next \in Conns
         /\ broken' \cup failed' = broken \cup failed
         /\ Stream(next) = "away"
         /\ \A c \in Conns : Stream(c)' = IF c = next THEN "open" ELSE Stream(c)
<1>1. Accept
  BY DEF Next, vars, parentVars, Parent, Fork, Close, Deliver, Handle, Child, Doit, ForkCgi,
     Wait, Exit, CgiExit, ChildHandler
<1>2. /\ parent = "accept" /\ parent' = "fork" /\ next \in Conns /\ next' = next + 1
      /\ held' = held \cup {next} /\ UNCHANGED <<child, cgi, replied, broken, failed>>
  BY <1>1 DEF Accept, Runs, cgiVars
<1>3. next \in Nat
  BY Numbers DEF IInv, TypeOK
<1>4. Stream(next) = "away"
  <2>1. next >= next
    BY <1>3
  <2> QED
    BY <1>2, <2>1, StreamIs
<1>5. ASSUME NEW c \in Conns PROVE Stream(c)' = IF c = next THEN "open" ELSE Stream(c)
  <2>1. c \in Nat /\ (c < next \/ c >= next)
    BY Numbers DEF IInv, TypeOK
  <2>2. CASE c = next
    <3>1. c < next'
      BY <1>2, <1>3, <2>2
    <3>2. ~Ended(c)'
      BY <1>2, <2>2, EndedWillBe
    <3> QED
      BY <2>2, <3>1, <3>2, StreamWillBe
  <2>3. CASE c # next
    <3>1. (c < next' <=> c < next) /\ (c >= next' <=> c >= next)
      BY <1>2, <1>3, <2>1, <2>3
    <3>2. Alive(c)' <=> Alive(c)
      BY <1>2 DEF Alive
    <3>3. Ended(c)' <=> Ended(c)
      BY <1>2, <2>3, <3>1, <3>2, EndedIs, EndedWillBe
    <3> QED
      BY <1>2, <2>1, <2>3, <3>1, <3>3, StreamIs, StreamWillBe
  <2> QED
    BY <2>2, <2>3
<1> QED
  BY <1>2, <1>4, <1>5

(* The process server implements the web server: while it is up, a client  *)
(* that did not leave, and whose own processes were refused nothing, sees  *)
(* its stream end only after the whole reply, whoever closes last, whether *)
(* Wait or the handler reaps the CGI program, and whatever fails for the   *)
(* others.                                                                 *)
THEOREM ServerIsWebServer == Spec => IsWebServer
<1> DEFINE S == [c \in Conns |-> Stream(c)]
<1>1. Init => Web!Init
  <2> SUFFICES ASSUME Init PROVE Web!Init
    OBVIOUS
  <2>1. \A c \in Conns : c >= next
    BY DEF Init, Conns
  <2>2. \A c \in Conns : Stream(c) = "away"
    BY <2>1, InitInv, StreamIs
  <2> QED
    BY <2>2 DEF Web!Init, Init
<1>2. IInv /\ IInv' /\ [Next]_vars => [Web!Next]_Web!vars
  <2> SUFFICES ASSUME IInv, IInv', [Next]_vars PROVE Web!Next
    BY DEF Web!vars
  <2>1. \A c \in Conns : S[c] = Stream(c) /\ S'[c] = Stream(c)'
    OBVIOUS
  <2>2. S' \in [Conns -> {"away", "open", "whole", "cut"}]
    <3>1. \A c \in Conns : Stream(c)' \in {"away", "open", "whole", "cut"}
      <4> SUFFICES ASSUME NEW c \in Conns PROVE Stream(c)' \in {"away", "open", "whole", "cut"}
        OBVIOUS
      <4>1. c < next' \/ c >= next'
        BY Numbers DEF IInv, TypeOK
      <4> QED
        BY <4>1, StreamWillBe
    <3> QED
      BY <3>1
  <2>3. CASE next' # next
    <3>1. /\ parent = "accept" /\ parent' = "fork" /\ next \in Conns
          /\ broken' \cup failed' = broken \cup failed
          /\ Stream(next) = "away"
          /\ \A c \in Conns : Stream(c)' = IF c = next THEN "open" ELSE Stream(c)
      BY <2>3, AcceptStream
    <3>2. S' = [S EXCEPT ![next] = "open"] /\ S[next] = "away"
      BY <3>1
    <3> HIDE DEF S
    <3>3. Web!Accept(next)
      BY <3>1, <3>2 DEF Web!Accept, S
    <3> QED
      BY <3>1, <3>3 DEF Web!Next
  <2>4. CASE broken' \cup failed' # broken \cup failed
    <3>1. PICK b \in Conns : broken' \cup failed' = broken \cup failed \cup {b}
      BY <2>4, BreakStream
    <3>2. S' = S /\ parent' = parent
      BY <2>4, BreakStream
    <3> HIDE DEF S
    <3>3. Web!Break(b)
      BY <3>1, <3>2 DEF Web!Break, S
    <3> QED
      BY <3>3 DEF Web!Next
  <2>5. CASE next' = next /\ broken' \cup failed' = broken \cup failed
    <3>1. \A c \in Conns :
            \/ S'[c] = S[c]
            \/ S[c] = "open" /\ S'[c] = "whole"
            \/ S[c] = "open" /\ S'[c] = "cut" /\ (c \in broken \cup failed \/ parent' = "exited")
      BY <2>1, <2>5, StepStream
    <3> HIDE DEF S
    <3>2. Web!End
      BY <2>2, <3>1 DEF Web!End, S
    <3>3. parent = "exited" => parent' = "exited"
      BY DEF Next, vars, parentVars, Parent, Accept, Fork, Close, Runs, Deliver, Handle, Child,
         Doit, ForkCgi, Wait, Exit, CgiExit, ChildHandler
    <3>4. CASE parent' = "exited" /\ parent # "exited"
      BY <2>5, <3>2, <3>4 DEF Web!Next, Web!Exit
    <3>5. CASE parent' # "exited" \/ parent = "exited"
      BY <2>5, <3>2, <3>3, <3>5 DEF Web!Next, Web!Serve
    <3> QED
      BY <3>4, <3>5
  <2> QED
    BY <2>3, <2>4, <2>5
<1> QED
  BY <1>1, <1>2, Invariance, PTL DEF Spec, IsWebServer, Web!Spec
=============================================================================
