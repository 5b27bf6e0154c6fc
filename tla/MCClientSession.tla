--------------------------- MODULE MCClientSession ---------------------------
(* Versions and passwords for ClientSession.                               *)
EXTENDS ClientSession

AllMinors == 3..8
SevenAndEight == {7, 8}
OldNewAndMac == {3, 7, 8, Mac}
Newest == {8}
OnlyMac == {Mac}

NoPassword == <<>>
FullThenView == <<"full", "view">>
OnePassword == {"full"}
ThreePasswords == {"full", "view", "wrong"}
==============================================================================
