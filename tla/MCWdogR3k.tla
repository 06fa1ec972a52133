----------------------------- MODULE MCWdogR3k -----------------------------
(* Instances of WdogR3k for TLC. *)
EXTENDS WdogR3k, TLC

\* The tasks whose loops call WDT_Feed.
AllFeed == Tasks

\* As if AppTaskStart's loop did not.
AllButStart == Tasks \ {"AppTaskStart"}
=============================================================================
