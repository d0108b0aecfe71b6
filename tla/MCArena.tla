------------------------------- MODULE MCArena -------------------------------
(***************************************************************************)
(* The instance of Arena that TLC checks, scaled down: a smallest block of *)
(* 2 bytes, limits that are and are not powers of two, and a size_t that   *)
(* a product of two requests exceeds.                                      *)
(***************************************************************************)
EXTENDS Arena

(* No action reads reply, and RefusedOnlyWhenFull looks at reply' only.    *)
UpToReply == <<arena, live, mark>>
==============================================================================
