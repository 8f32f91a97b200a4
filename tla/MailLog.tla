-------------------------------- MODULE MailLog --------------------------------
(***************************************************************************)
(* What mail-service promises about a job, with neither queue nor          *)
(* consumers in sight: the log says how far a job has come, one mail at    *)
(* most leaves for it and only while it is processing, and what ends a     *)
(* job ends it for good.  MailJobs is shown to implement this module,      *)
(* whatever is published twice, lost, cut short or forgotten by Redis.     *)
(***************************************************************************)
EXTENDS Naturals

CONSTANTS Jobs,     \* job ids
          Statuses  \* what a caller who submits a job may say of it

VARIABLES status,   \* what the log says of each job, "none" before it has an entry
          given,    \* the jobs whose entry a caller wrote
          mails     \* how many mails have left for each job

vars == <<status, given, mails>>

-----------------------------------------------------------------------------

Init == /\ status = [j \in Jobs |-> "none"]
        /\ given = {}
        /\ mails = [j \in Jobs |-> 0]

\* A caller enters a job: nobody is going to work on it.
Give(j) == /\ status[j] = "none"
           /\ \E s \in Statuses : status' = [status EXCEPT ![j] = s]
           /\ given' = given \cup {j}
           /\ UNCHANGED mails

\* The service enters a job of its own, and takes it one status further.
Move(j, from, to) == /\ j \notin given
                     /\ status[j] = from
                     /\ status' = [status EXCEPT ![j] = to]
                     /\ UNCHANGED <<given, mails>>

\* The mail leaves.
Mail(j) == /\ j \notin given
           /\ status[j] = "processing"
           /\ mails[j] = 0
           /\ mails' = [mails EXCEPT ![j] = 1]
           /\ UNCHANGED <<status, given>>

\* A job that failed has sent nothing; one that is "sent" may not have either, for the
\* server's last word is not waited for.
Next == \E j \in Jobs : \/ Give(j) \/ Mail(j)
                        \/ Move(j, "none", "queued")
                        \/ Move(j, "queued", "processing")
                        \/ Move(j, "processing", "sent")
                        \/ mails[j] = 0 /\ Move(j, "processing", "failed")

Spec == Init /\ [][Next]_vars
=============================================================================
