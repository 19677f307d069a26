--------------------------- MODULE MCDataExecution ----------------------------
(* Two requests at a time on one project, with two attachments.              *)
EXTENDS DataExecution

CONSTANTS r1, r2

MCRequest == {r1, r2}
===============================================================================
