--------------------------- MODULE MCPointerInput ---------------------------
(* Two viewers, one button, two positions for PointerInput.                *)
EXTENDS PointerInput, TLC

Near == <<0, 0>>
Far == <<1, 0>>
TwoPoints == {Near, Far}
UpOrDown == {0, 1}
SmallOrLarge == {<<1, 1>>, <<2, 1>>}
=============================================================================
