---------------------------- MODULE FileTransfer ----------------------------
(***************************************************************************)
(* What the host wants of downloads that share one camera: files are       *)
(* transferred one after the other, each grows until it is whole, and a    *)
(* transfer succeeds only with the whole file.                             *)
(***************************************************************************)
EXTENDS Naturals

CONSTANTS
    Jobs,       \* the transfers
    Length      \* the length of a file

VARIABLES
    stage,      \* "asked", "running", "ok" or "failed" for each job
    got         \* how much of its file each job has

transferVars == <<stage, got>>

TransferInit ==
    /\ stage = [j \in Jobs |-> "asked"]
    /\ got = [j \in Jobs |-> 0]

Running == {j \in Jobs : stage[j] = "running"}

Advance(j, from, to) ==
    /\ stage[j] = from
    /\ stage' = [stage EXCEPT ![j] = to]

Start(j) ==
    /\ Running = {}
    /\ Advance(j, "asked", "running")
    /\ UNCHANGED got

Deliver(j) ==
    /\ stage[j] = "running"
    /\ \E n \in (got[j] + 1) .. Length : got' = [got EXCEPT ![j] = n]
    /\ UNCHANGED stage

Succeed(j) ==
    /\ got[j] = Length
    /\ Advance(j, "running", "ok")
    /\ UNCHANGED got

Fail(j) ==
    /\ Advance(j, "running", "failed")
    /\ UNCHANGED got

TransferNext == \E j \in Jobs : Start(j) \/ Deliver(j) \/ Succeed(j) \/ Fail(j)

TransferSpec == TransferInit /\ [][TransferNext]_transferVars

=============================================================================
