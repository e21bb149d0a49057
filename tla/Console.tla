------------------------------ MODULE Console ------------------------------
(* The pages of the console. No step of one changes the state of another:     *)
(* what they have in common, the database and the cookie, is the environment  *)
(* of each.                                                                   *)
EXTENDS Applications, Lists, Bells, MailSettings, Reference

\* The pages side by side, each taking its own steps.
ConsoleSpec ==
  ApplicationsSpec /\ ListsSpec /\ BellsSpec /\ SettingsSpec /\ ReferenceSpec

\* What the pages hold is well-formed, and nothing is held by a page that is
\* not there: requests, dialogs, copies and tokens are of pages that are shown.
ConsoleTypeOK ==
  ApplicationsTypeOK /\ ListsTypeOK /\ BellsTypeOK /\ SettingsTypeOK
  /\ ReferenceTypeOK
=============================================================================
