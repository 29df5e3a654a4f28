----------------------------- MODULE MCLoadTest -----------------------------
(* An instance of LoadTest for TLC.                                        *)
EXTENDS LoadTest

CONSTANT other

SmallTests == {<<1, 2>>, <<2, 1>>, <<3, 0>>, <<4, 0>>}
OneOther == {other}
AnyRequest == {"static", "dynamic", "truncated"}
=============================================================================
