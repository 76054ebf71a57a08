---------------------------- MODULE RebootClaims ----------------------------
(***************************************************************************)
(* What the repository says of its snapshots and the code does not keep:   *)
(* the formula is checked, and refuted, in a run of its own.               *)
(***************************************************************************)
EXTENDS MCReboot

\* index.ts:334: "services, windows and processes resume exactly where they
\* were on the last shutdown".  The script of a process that has begun is not
\* begun again by the kernel that a reboot makes.
ProcessesResume ==
  \A j, k \in Kernel, p \in Pid :
    j < k /\ origin[k] = "reboot" /\ thread[k][p] # "none"
      => thread[j][p] = "none"
=============================================================================
