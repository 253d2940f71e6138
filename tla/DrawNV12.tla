------------------------------ MODULE DrawNV12 ------------------------------
(***************************************************************************)
(* inc/DrawNV12.h: the boxes and labels that cb_queue00_src_probe draws    *)
(* into a mapped NV12 frame.  A frame has a plane of Height rows of Width  *)
(* luma samples and a plane of Height / 2 rows of chroma pairs, a pair for *)
(* each 2 x 2 block of pixels; Width is the pitch.  drawRect rounds a box  *)
(* to even coordinates, moves its far edges into the picture or gives it   *)
(* up, and draws four lines by writing samples without any further test.   *)
(*                                                                         *)
(* A sample is <<column, row>> of its plane, a chroma pair goes by the     *)
(* column of its u; each write of the same colour is the same to the model *)
(* and the order of writes is left out.  The integers are unbounded: boxes *)
(* and thicknesses whose sums do not fit an int are outside the model.     *)
(***************************************************************************)
EXTENDS Integers, Sequences, FiniteSets

CONSTANTS
    Width, Height,    \* frame_pitch and frame_height
    ResultLists,      \* the results a frame may be drawn with
    Thicknesses,      \* the values of bbox_thickness and text_thickness
    CharDots,         \* the dots of a glyph, relative to its corner
    CharWidth, CharHeight, SpacingWidth

Rects == [x : Int, y : Int, w : Int, h : Int]
Characters == {"glyph", "space", "none"}   \* "none": no bitmap for it

ASSUME PictureAssumption ==
    /\ Width \in Nat /\ Height \in Nat
    /\ ResultLists \subseteq Seq([bbox : Rects, label : Seq(Characters)])
    /\ Thicknesses \subseteq Nat
    /\ CharDots \subseteq Nat \X Nat
    /\ CharWidth \in Nat /\ CharHeight \in Nat /\ SpacingWidth \in Nat

VARIABLES
    bbox_thickness, text_thickness,   \* of the configuration
    results,                          \* the results still to be drawn
    phase,                            \* "rect" or "string", what is drawn next
    luma, chroma                      \* the samples written by the last call

vars == <<bbox_thickness, text_thickness, results, phase, luma, chroma>>

\* Division of C's int truncates.
Half(n) == IF n >= 0 THEN n \div 2 ELSE -((-n) \div 2)
Even(n) == 2 * Half(n)
-----------------------------------------------------------------------------
(* drawLine *)

HorizontalLuma(x, y, length, thick) ==
    {<<x + 2 * i + k, y + j>> : i \in 0..Half(length) - 1, j \in 0..thick - 1, k \in 0..1}

HorizontalChroma(x, y, length, thick) ==
    {<<x + 2 * i, Half(y) + j>> : i \in 0..Half(length) - 1, j \in 0..Half(thick) - 1}

VerticalLuma(x, y, length, thick) ==
    {<<x + j, y + i>> : i \in 0..length - 1, j \in 0..thick - 1}

\* Fault: as many rows of chroma as of luma.
VerticalChromaUnhalved(x, y, length, thick) ==
    {<<x + 2 * j, Half(y) + i>> : i \in 0..length - 1, j \in 0..Half(thick) - 1}

VerticalChroma(x, y, length, thick) ==
    {<<x + 2 * j, Half(y) + i>> : i \in 0..Half(length) - 1, j \in 0..Half(thick) - 1}
-----------------------------------------------------------------------------
(* drawRect *)

Thick(thick) == Even(thick + 1)

\* Fault: the thickness of the line is not taken off.
FitTooLong(from, length, thick, size) ==
    IF Even(from) + Even(length) + thick >= size
      THEN Even(size - Even(from) - 1)
      ELSE Even(length)

\* A far edge that would leave a picture of that size is moved in, and a box
\* that begins behind it gets a negative length.
Fit(from, length, thick, size) ==
    IF Even(from) + Even(length) + thick >= size
      THEN Even(size - Even(from) - thick - 1)
      ELSE Even(length)

Fitted(r, thick) ==
    [x |-> Even(r.x), y |-> Even(r.y),
     w |-> Fit(r.x, r.w, thick, Width), h |-> Fit(r.y, r.h, thick, Height)]

Visible(r) == r.x >= 0 /\ r.y >= 0 /\ r.w >= 0 /\ r.h >= 0

\* Fault: the right line ends with the others and leaves the corner open.
LumaOpenCorner(r, t) ==
    HorizontalLuma(r.x, r.y, r.w, t)
        \cup HorizontalLuma(r.x, r.y + r.h, r.w, t)
        \cup VerticalLuma(r.x, r.y + t, r.h - t, t)
        \cup VerticalLuma(r.x + r.w, r.y, r.h, t)

\* The top, the bottom, the left and the right line.
Luma(r, t) ==
    HorizontalLuma(r.x, r.y, r.w, t)
        \cup HorizontalLuma(r.x, r.y + r.h, r.w, t)
        \cup VerticalLuma(r.x, r.y + t, r.h - t, t)
        \cup VerticalLuma(r.x + r.w, r.y, r.h + t, t)

Chroma(r, t) ==
    HorizontalChroma(r.x, r.y, r.w, t)
        \cup HorizontalChroma(r.x, r.y + r.h, r.w, t)
        \cup VerticalChroma(r.x, r.y + t, r.h - t, t)
        \cup VerticalChroma(r.x + r.w, r.y, r.h + t, t)

\* What drawRect(r, thick) writes.
RectLuma(r, thick) ==
    LET f == Fitted(r, Thick(thick)) IN IF Visible(f) THEN Luma(f, Thick(thick)) ELSE {}

RectChroma(r, thick) ==
    LET f == Fitted(r, Thick(thick)) IN IF Visible(f) THEN Chroma(f, Thick(thick)) ELSE {}
-----------------------------------------------------------------------------
(* drawString and drawChar *)

Spaces(label, i) == {k \in 1..i - 1 : label[k] = "space"}

\* Where the i-th character of a label starts.
Indent(label, i) ==
    LET n_space == Cardinality(Spaces(label, i))
    IN  CharWidth * (i - 1 - n_space) + SpacingWidth * n_space

\* The dots of a label, each an empty rectangle.
DotRects(x, y, label) ==
    {[x |-> x + Indent(label, i) + d[1], y |-> y + d[2], w |-> 0, h |-> 0] :
        i \in {k \in 1..Len(label) : label[k] = "glyph"}, d \in CharDots}
-----------------------------------------------------------------------------
(* drawNV12 *)

Init ==
    /\ bbox_thickness \in Thicknesses
    /\ text_thickness \in Thicknesses
    /\ results \in ResultLists
    /\ phase = "rect"
    /\ luma = {} /\ chroma = {}

Result == Head(results)

DrawBox ==
    /\ results # <<>> /\ phase = "rect"
    /\ luma' = RectLuma(Result.bbox, bbox_thickness)
    /\ chroma' = RectChroma(Result.bbox, bbox_thickness)
    /\ phase' = "string"
    /\ UNCHANGED <<bbox_thickness, text_thickness, results>>

LabelRects == DotRects(Result.bbox.x, Result.bbox.y - CharHeight, Result.label)

DrawString ==
    /\ results # <<>> /\ phase = "string"
    /\ luma' = UNION {RectLuma(r, text_thickness \div 2) : r \in LabelRects}
    /\ chroma' = UNION {RectChroma(r, text_thickness \div 2) : r \in LabelRects}
    /\ phase' = "rect"
    /\ results' = Tail(results)
    /\ UNCHANGED <<bbox_thickness, text_thickness>>

Next == DrawBox \/ DrawString

Spec == Init /\ [][Next]_vars
-----------------------------------------------------------------------------
(* Properties *)

LumaPlane == (0..Width - 1) \X (0..Height - 1)

\* The u of a pair at column c is followed by its v.
ChromaPlane == (0..Width - 2) \X (0..Half(Height) - 1)

\* The types: everything that is written, of a box or of a label that lies
\* anywhere in or around the picture, lies in the two planes of the frame.
TypeOK ==
    /\ bbox_thickness \in Thicknesses /\ text_thickness \in Thicknesses
    /\ results \in Seq([bbox : Rects, label : Seq(Characters)])
    /\ phase \in {"rect", "string"}
    /\ luma \subseteq LumaPlane
    /\ chroma \subseteq ChromaPlane

Block(s) == {s[1], s[1] + 1} \X {2 * s[2], 2 * s[2] + 1}

\* The colour follows the brightness: a chroma pair is written exactly if its
\* block of pixels is, and no pixel is written without the pair of its block.
ChromaFollowsLuma == luma = UNION {Block(s) : s \in chroma}

Rectangle(x, y, w, h) == (x..x + w - 1) \X (y..y + h - 1)

\* What a box looks like: the frame between two rectangles, with square corners.
Outline(r, t) ==
    Rectangle(r.x, r.y, r.w + t, r.h + t) \ Rectangle(r.x + t, r.y + t, r.w - t, r.h - t)

\* The lengths at which a box that begins at an edge ends within the picture.
Extents(from, length, t, size) ==
    {n \in 0..Even(length) : n = Even(n) /\ Even(from) + n + t < size}

Largest(extents) == CHOOSE n \in extents : \A m \in extents : m <= n

\* A box that begins in the picture is drawn where the detector put it up to one
\* pixel, closed by four lines of the thickness asked for, and of a box that
\* leaves the picture as much as has room: the far edges are moved in no further
\* than they have to be.
BoxIsOutlined ==
    (results # <<>> /\ phase = "string") =>
        LET b == Result.bbox
            t == Thick(bbox_thickness)
            widths  == Extents(b.x, b.w, t, Width)
            heights == Extents(b.y, b.h, t, Height)
        IN  (Even(b.x) >= 0 /\ Even(b.y) >= 0 /\ widths # {} /\ heights # {}) =>
                luma = Outline([x |-> Even(b.x), y |-> Even(b.y),
                                w |-> Largest(widths), h |-> Largest(heights)], t)
=============================================================================
