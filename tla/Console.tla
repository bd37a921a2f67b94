------------------------------- MODULE Console -------------------------------
(***************************************************************************)
(* What all the pages of the console share.                                *)
(***************************************************************************)
CONSTANT
  None  \* null, undefined, the empty text: nothing there, open, asked or selected
=============================================================================
