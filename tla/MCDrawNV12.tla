----------------------------- MODULE MCDrawNV12 -----------------------------
(* DrawNV12 for TLC: every box in and around a picture of 9 x 6, labels of up *)
(* to three characters with glyphs of 3 x 3.                                  *)
EXTENDS DrawNV12

MCRects == [x : -3..10, y : -3..7, w : 0..7, h : 0..6]
MCLabels == {<<"glyph", "space", "glyph">>, <<"none", "glyph">>}

One(bbox, label) == <<[bbox |-> bbox, label |-> label]>>

MCResultLists ==
    {One(r, <<"glyph">>) : r \in MCRects}
        \cup {One([x |-> x, y |-> y, w |-> 2, h |-> 2], l) \o One([x |-> y, y |-> x, w |-> 5, h |-> 3], l) :
                 x \in -3..10, y \in -3..7, l \in MCLabels}

MCDots == {<<0, 0>>, <<1, 1>>, <<2, 2>>, <<2, 0>>}
=============================================================================
