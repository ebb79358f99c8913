----------------------------- MODULE ServerRun ------------------------------
(***************************************************************************)
(* What the harness relies on of Server.Run (rpcbench/interface.go): it is *)
(* started once, it returns without an error only after the context it was *)
(* given has ended, and once that has happened it does return.  The cleanup *)
(* of newServerHarness waits for exactly this.                             *)
(***************************************************************************)

VARIABLES
    cctx,   \* the context given to Run has ended
    run     \* Run: "running", or what it returned, "nil" or "err"

vars == <<cctx, run>>

Init == cctx = FALSE /\ run = "running"

Cancel ==
    /\ ~cctx
    /\ cctx' = TRUE
    /\ UNCHANGED run

Return ==
    /\ run = "running"
    /\ \/ cctx /\ run' = "nil"
       \/ run' = "err"
    /\ UNCHANGED cctx

Next == Cancel \/ Return

(* Without the promise that Run ever returns. *)
SafeSpec == Init /\ [][Next]_vars

Spec == SafeSpec /\ WF_vars(cctx /\ Return)
=============================================================================
