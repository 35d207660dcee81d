--------------------------- MODULE LogPumpClaims ---------------------------
(***************************************************************************)
(* What a text of nanoku says of a live tail and the code does not keep.   *)
(***************************************************************************)
EXTENDS LogPump

(* docker.go:719: "Cancel closes the underlying Docker reader, which       *)
(* unblocks the read goroutine and lets it drain."  A reader that waits    *)
(* for a place in the channel is not unblocked by that.                    *)
CancelUnblocks == handler = "gone" ~> reader = "gone"
=============================================================================
