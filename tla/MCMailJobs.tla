------------------------------ MODULE MCMailJobs ------------------------------
(* Instances of MailJobs for TLC: no symmetry, which its liveness check does not *)
(* allow.                                                                        *)
EXTENDS MailJobs
=============================================================================
