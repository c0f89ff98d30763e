------------------------------ MODULE MCInput ------------------------------
EXTENDS Input

(* "xX" on the clipboard, and a single letter.                             *)
TwoCases == <<<<"x", FALSE>>, <<"X", TRUE>>>>
Capital == <<<<"X", TRUE>>>>
NoText == <<>>
=============================================================================
