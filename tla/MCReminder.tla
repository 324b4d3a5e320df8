------------------------------ MODULE MCReminder ------------------------------
(* Reminder on a small instance. *)
EXTENDS Reminder

\* Two windows that do not overlap, as those of the code do not.
MCWindows == <<4, 1>>
=============================================================================
