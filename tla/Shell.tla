------------------------------- MODULE Shell --------------------------------
(* What the documents of the console rest on: the session behind the page,   *)
(* and the forms in which administrators edit what all pages show.  The one  *)
(* is about a browser, the other about records; no step is of both.          *)
EXTENDS Documents, AdminForms

ShellSpec == DocumentsSpec /\ FormsSpec

\* What the documents and the forms hold is well-formed; a query waits only for
\* a visit under way, and a form only for a save of its own.
ShellTypeOK == DocumentsTypeOK /\ FormsTypeOK
=============================================================================
