----------------------------- MODULE Conversions ----------------------------
(***************************************************************************)
(* The two places where the program turns its data into text and reads it  *)
(* back, side by side: times in the database, commands for the worker      *)
(* host.  They share nothing, so a behaviour exercises one of them.        *)
(***************************************************************************)
EXTENDS Timestamps, RemoteCommand

vars == <<timeVars, commandVars>>

Init ==
    /\ TimeInit
    /\ \/ command = Unsent /\ sent = Unsent
       \/ CommandInit /\ interval = CHOOSE i \in [Tasks -> Intervals] : TRUE

Next ==
    \/ command = Unsent /\ TimeNext /\ UNCHANGED commandVars
    \/ command # Unsent /\ Send /\ UNCHANGED timeVars

Spec == Init /\ [][Next]_vars

=============================================================================
