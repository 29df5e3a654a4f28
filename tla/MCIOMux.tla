------------------------------ MODULE MCIOMux -------------------------------
(* Instances of IOMux for TLC.                                             *)
EXTENDS IOMux

(* Nothing, whole requests of each kind, one cut short, one with a line    *)
(* that doit does not read, two requests in a row, and an empty line,      *)
(* alone or before a request.                                              *)
Streams1 == {<< >>, <<"static", "header", "blank">>, <<"dynamic", "blank">>,
             <<"other", "blank">>, <<"static", "header">>,
             <<"static", "blank", "static", "blank">>,
             <<"blank">>, <<"blank", "static", "blank">>}

(* Any of them from the first client, one of three from the second, and    *)
(* one line from the third.                                                *)
TwoAndOne == {<<s, t, <<"other">> >> : s \in Streams1,
                 t \in {<< >>, <<"dynamic", "blank">>, <<"static", "header">>}}
=============================================================================
