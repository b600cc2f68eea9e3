---------------------------- MODULE AgentUpgrade ----------------------------
(***************************************************************************)
(* What the durable self-upgrade promises the node, whatever crashes: at   *)
(* most one upgrade operation is active, an operation goes forward only,   *)
(* an operation succeeds only over a host that holds exactly the package   *)
(* its signed intent names, and the host leaves the release it runs only   *)
(* for the running operation, or for an operator's rollback once every     *)
(* operation is closed.  The promise lapses for good when an upgrade is    *)
(* started beside a rollback or over what one left halfway.                *)
(***************************************************************************)
CONSTANTS Ops, Packages, NoPackage, Mixed

VARIABLES status,   \* status[o]: "none", "accepted", "running" or terminal
          package,  \* package[o]: the package the operation was accepted for
          release,  \* the release the host holds, Mixed when its files differ
          lapsed    \* the promise is no longer made

vars == <<status, package, release, lapsed>>

Active(o) == status[o] \in {"accepted", "running"}
Terminal  == {"succeeded", "failed", "rolled_back"}

Init == /\ status = [o \in Ops |-> "none"]
        /\ package = [o \in Ops |-> NoPackage]
        /\ release \in Packages
        /\ lapsed = FALSE

Accept(o, p) == /\ status[o] = "none"
                /\ \A other \in Ops : ~Active(other)
                /\ status' = [status EXCEPT ![o] = "accepted"]
                /\ package' = [package EXCEPT ![o] = p]
                /\ UNCHANGED release

Run(o) == /\ status[o] \in {"accepted", "running"}
          /\ status' = [status EXCEPT ![o] = "running"]
          /\ UNCHANGED <<package, release>>

\* A file of the host is replaced on behalf of the running operation.
Install(o) == /\ status[o] = "running"
              /\ release' \in {Mixed, package[o]}
              /\ UNCHANGED <<status, package>>

Succeed(o) == /\ status[o] = "running"
              /\ release = package[o]
              /\ status' = [status EXCEPT ![o] = "succeeded"]
              /\ UNCHANGED <<package, release>>

Fail(o) == /\ Active(o)
           /\ status' = [status EXCEPT ![o] = "failed"]
           /\ UNCHANGED <<package, release>>

\* An operator's rollback closes an operation ...
Close(o) == /\ Active(o)
            /\ status' = [status EXCEPT ![o] = "rolled_back"]
            /\ UNCHANGED <<package, release>>

\* ... and replaces a file of the host when no operation is open any more.
Restore == /\ \A o \in Ops : ~Active(o)
           /\ release' \in Packages \cup {Mixed}
           /\ UNCHANGED <<status, package>>

Keep == \/ \E o \in Ops, p \in Packages : Accept(o, p)
        \/ \E o \in Ops : Run(o) \/ Install(o) \/ Succeed(o) \/ Fail(o) \/ Close(o)
        \/ Restore

Next == (Keep /\ UNCHANGED lapsed) \/ lapsed' = TRUE

Spec == Init /\ [][Next]_vars
=============================================================================
