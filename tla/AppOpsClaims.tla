---------------------------- MODULE AppOpsClaims ----------------------------
(***************************************************************************)
(* What a text of nanoku says of the operations on apps and the code does  *)
(* not keep.                                                               *)
(***************************************************************************)
EXTENDS AppOps

(* apps.json:38, when an app is deleted: "The app and its current Docker   *)
(* container will be removed".  Of a compose app the stack is brought down *)
(* first, and then the removal of its current container fails with "no     *)
(* such container", which ends the request before the row is deleted.      *)
CurrentStillThereToRemove ==
  \A r \in Requests :
    req[r].at = "force" => Present(req[r].name)
=============================================================================
