----------------------------- MODULE MCRequest ------------------------------
(* Instances of Request for TLC.                                           *)
EXTENDS Request

(* Every first line with up to three lines after it, and no line at all.   *)
Short == {<< >>} \cup {<<r>> \o h : r \in Lines,
                                 h \in UNION {[1..n -> {"header", "blank"}] : n \in 0..3}}
=============================================================================
