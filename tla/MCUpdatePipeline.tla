-------------------------- MODULE MCUpdatePipeline --------------------------
(* Small screens, viewers and applications for UpdatePipeline.             *)
EXTENDS UpdatePipeline

Rect(x1, y1, x2, y2) == (x1 .. x2 - 1) \X (y1 .. y2 - 1)
Whole == Rect(0, 0, Width, Height)

OneCursor == [i \in Cursors |-> {<<0, 0>>}]
WideCursor == [i \in Cursors |-> {<<0, 0>>, <<1, 0>>}]
PlainOnly == {[copyRect |-> TRUE, shape |-> FALSE, newFBSize |-> FALSE, extDesktopSize |-> FALSE]}
CopyAndShape ==
  {e \in EncodingFlags : ~e.newFBSize /\ ~e.extDesktopSize}

CopyWithCursor == {e \in CopyAndShape : e.copyRect}
OnOrigin == {<<0, 0>>, <<1, 1>>}
ShapeOrResize == {e \in EncodingFlags : e.copyRect /= e.shape /\ e.newFBSize /\ ~e.extDesktopSize}
OffScreen == {<<2, 2>>}
LShape == {{<<0, 1>>, <<0, 2>>, <<1, 2>>}}
Down == {<<0, 1>>}
SomeMoves == {<<1, 0>>, <<0, 1>>, <<-1, 0>>}
TopLeft == {Rect(0, 0, 1, 1)}
Corner == {Rect(0, 0, 1, 1), Rect(1, 0, 2, 1)}
\* Rectangles copied one onto the other when the screen scrolls down.
Scrolled == {Rect(0, 1, 1, 2), Rect(1, 1, 2, 2), Rect(0, 2, 2, 3)}
DownAndRight == {<<0, 1>>, <<1, 0>>}
CopyRects == {Rect(1, 0, 2, 2), Rect(0, 1, 2, 2), Rect(0, 0, 1, 1)}
AskAll == {Whole}
AskLeft == {Whole, Rect(0, 0, 1, Height)}

\* Frame buffers in which a copied pixel differs from the one it replaces.
Palette == CHOOSE f \in [0 .. 1 -> Colours] : f[0] # f[1]
Chequered == [p \in Pixels |-> Palette[(p[1] + p[2]) % 2]]
OneBuffer == {Chequered}
=============================================================================
