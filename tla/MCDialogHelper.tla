--------------------------- MODULE MCDialogHelper ---------------------------
(***************************************************************************)
(* The dialog with six-bit integers, four milliseconds to the second and   *)
(* a timer interval of two.  IntMax is odd, so that, as with 2^31 - 1 and  *)
(* 100, no number of firings lands on it.                                  *)
(***************************************************************************)
EXTENDS DialogHelper
=============================================================================
