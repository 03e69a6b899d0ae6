----------------------------- MODULE MCThreadScan ----------------------------
(* Four threads, two of which the local filters let through, and pages of    *)
(* one or two rows; one of them may be changed or deleted during the scan.   *)
EXTENDS ThreadScan
=============================================================================
