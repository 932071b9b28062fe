---------------------------- MODULE MCFrameDriver ----------------------------
(***************************************************************************)
(* Bounds for checking FrameDriver: three file names, so that a number     *)
(* shared by two names, and files with and without a number, all meet.     *)
(* The numbers 2 and 10 order differently as numbers and as text; 1000 is  *)
(* above the 999 that line 47 gives a name without a number.               *)
(***************************************************************************)
EXTENDS FrameDriver

MCFiles == <<"a.png", "b.png", "c.png">>
MCIndexValues == {2, 10, 1000}
=============================================================================
