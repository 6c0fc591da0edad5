---- MODULE MCDetection ----
\* The kernel's two processes; 0 and 2 have no program id.
EXTENDS Detection

MCTitle == [p \in Pid |-> IF p \in {0, 2} THEN 0 ELSE 100 + p]
====
