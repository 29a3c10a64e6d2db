----------------------------- MODULE MCAssistant -----------------------------
(* Assistant and Settings on small instances.  Who may be the assistant is in the first, and what
   a request reads of any setting in the second: each has its own requests and rows, so that no
   interleaving of them is worth a state, and in each behaviour one of them moves. *)
EXTENDS Assistant, Settings

VARIABLE part

EitherInit == part \in {"assistant", "settings"} /\ Init /\ SettingsInit

EitherNext ==
  /\ \/ part = "assistant" /\ Next /\ UNCHANGED settingsVars
     \/ part = "settings" /\ SettingsNext /\ UNCHANGED vars
  /\ UNCHANGED part

Either ==
  /\ EitherInit /\ [][EitherNext]_<<vars, settingsVars, part>>
  /\ part = "assistant" => Fairness
=============================================================================
