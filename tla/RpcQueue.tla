------------------------------ MODULE RpcQueue ------------------------------
(***************************************************************************)
(* What one client connection of an RPC system promises to the harness     *)
(* (rpcbench/interface.go): the calls are executed by the server exactly   *)
(* once and in the order they were issued, and a call returns only when it *)
(* and everything issued before it has been executed.  The calls in        *)
(* Unacked have an empty reply on a byte stream: their stub returns        *)
(* without having heard from the server.                                   *)
(***************************************************************************)
EXTENDS Sequences

CONSTANTS
    Calls,    \* the calls a client may make
    Unacked   \* those whose reply carries no bytes

VARIABLES
    todo,     \* calls issued and not yet executed, oldest first
    client,   \* "idle", "waiting" (inside a stub) or "closed"
    current   \* the call of the last Issue

vars == <<todo, client, current>>

Init ==
    /\ todo = <<>>
    /\ client = "idle"
    /\ current \in Calls

Issue(c) ==
    /\ client = "idle"
    /\ client' = "waiting"
    /\ current' = c
    /\ todo' = Append(todo, c)

Execute ==
    /\ todo # <<>>
    /\ todo' = Tail(todo)
    /\ UNCHANGED <<client, current>>

Return ==
    /\ client = "waiting"
    /\ todo = <<>> \/ current \in Unacked
    /\ client' = "idle"
    /\ UNCHANGED <<todo, current>>

Close ==
    /\ client # "closed"
    /\ client' = "closed"
    /\ UNCHANGED <<todo, current>>

Next ==
    \/ \E c \in Calls : Issue(c)
    \/ Execute
    \/ Return
    \/ Close

Spec == Init /\ [][Next]_vars
=============================================================================
