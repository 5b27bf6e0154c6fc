------------------------------ MODULE MCRegion ------------------------------
(* Two regions on a small screen for Region.                                *)
EXTENDS Region, TLC

Xs == 0 .. Width
Ys == 0 .. Height
\* Every rectangle of the screen, one of width 0 in its middle, and one that
\* rfbMarkRectAsModified makes of a rectangle right of the screen.
SmallRects ==
  {<<a, b, c, d>> \in Xs \X Ys \X Xs \X Ys : a < c /\ b < d}
    \cup {<<1, 0, 1, 2>>, <<Width + 1, 0, Width, 1>>}
SmallShifts == {<<1, 0>>, <<-1, 0>>, <<0, 1>>, <<0, -1>>}
Either == Permutations(Regions)
=============================================================================
