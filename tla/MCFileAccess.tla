---------------------------- MODULE MCFileAccess ----------------------------
(* Values for the configuration that checks FileAccess: all names of up to *)
(* four characters, one folder "xx", files of no, one and two pieces.      *)
EXTENDS FileAccess, TLC

CONSTANTS v0, v1, v2, w1, w2

SomeItems == Characters \cup {Escaped(Dot), Escaped(Slash),
                           Escaped(Percent), Escaped(Escaped(Slash))}
AllNames == BoundedSeq(SomeItems, 4) \ {<<>>}
Others   == {<<X>>}
Clicked  == {<<X>>}
Folders  == {<<(<<X, X>>)>>}
Sizes    == (v0 :> 0) @@ (v1 :> 3) @@ (v2 :> 4)
=============================================================================
