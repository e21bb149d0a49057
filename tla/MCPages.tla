------------------------------ MODULE MCPages ------------------------------
(* The pages of the console, one at a time: no step of one changes the state  *)
(* of another, so a behaviour is about the page of applications, the lists    *)
(* with a dialog, the notices, the announcements as several administrators    *)
(* publish them, the bell in several tabs, the mail settings, or the API      *)
(* reference.                                                                 *)
EXTENDS Console

CONSTANTS u1, u2, t1, t2, users, notices, none, name, b1, b2, a1, a2, x1, x2, x3, e1, e2, k1

VARIABLE focus

mcVars == <<applicationVars, listsVars, bellVars, settingVars, referenceVars, focus>>

\* The owner has one application and may create another.
OneOfTwo == [t \in Apps |-> [status |-> IF t = t1 THEN "live" ELSE "free", key |-> 0]]

\* Requests are numbered in the order in which they are sent; the administrator
\* revokes, which refuses all that a suspension would.
ApplicationsStep ==
  /\ ApplicationsNext
  /\ request'[1] = NotSent => request'[2] = NotSent
  /\ \A t \in Apps : app'[t].status # "suspended"

\* One list is searched and has pages, the other is only visited.
ListsStep(main, other) ==
  /\ ListsNext
  /\ edition'[other] = 0
  /\ at'.table = main \/ at' = Opened(other)
  /\ at'.page = 1 \/ at'.filter = none

\* Two administrators publish, one of them withdraws the latest but one before
\* or what is new, and one tab reads without leaving the page; or three were
\* published before, one administrator publishes another, and one of two tabs
\* changes its account and opens the time line while the other one stays; they
\* poll one at a time.
Published(n) == {i \in Ids : notice[i] = "published"} = 1 .. n
PublishersStep ==
  /\ BellsNext
  /\ removing'[a2] = 0 /\ removing'[a1] \in {0, 2, 4}
  /\ reader[b1] = u1 => reader'[b1] = u1
  /\ reader'[b1] # u2 /\ reader'[b2] = NoReader
TabsStep ==
  /\ BellsNext
  /\ call'[a1] = NoCall /\ removing' = removing
  /\ reader'[b2] # u2 /\ ~ timeline'[b2]
  /\ reader[b1] = u2 => reader'[b1] # u1
  /\ reader[b2] = u1 => reader'[b2] = u1
  /\ polled'[b1] = NoReader \/ polled'[b2] = NoReader

\* One tab does all there is to do; or it stays on the page while a second
\* one, which has read the settings once, saves.
OneTab == reading'[b2] = Empty /\ known'[b2] = Empty /\ visible'[b2]
SecondSaves ==
  /\ visible'[b1] /\ visible'[b2]
  /\ known[b1] # Empty => known'[b1] # Empty
  /\ known[b2] # Empty => known'[b2] = known[b2] /\ reading'[b2] = Empty
  /\ task'[1] # NotBegun
  /\ task'[2] # NotBegun => task'[2].view = b2 /\ task'[2].step \notin {"change", "send", "verify"}

\* A third address is typed by one tab only, after a task has gone with the second.
SettingsStep ==
  /\ SettingsNext
  /\ task'[1] = NotBegun => task'[2] = NotBegun
  /\ task'[1] # NotBegun => task'[1].view = b1
  /\ \A d \in Views : sheet'[d] # Empty => sheet'[d].email # Empty
  /\ \A d \in Views : sheet'[d] # Empty /\ sheet'[d].email = x3 =>
       OneTab /\ task'[1] # NotBegun /\ task'[1].email = x2
  /\ OneTab \/ SecondSaves

MCInit ==
  /\ ApplicationsInit /\ ListsInit /\ BellsInit /\ SettingsInit /\ ReferenceInit
  /\ app = OneOfTwo
  /\ focus \in {"applications", "rows", "marks", "publishers", "tabs", "settings", "reference"}
  /\ Published(IF focus = "tabs" THEN 3 ELSE 2)
  /\ at.table = IF focus = "marks" THEN notices ELSE users
  /\ mailbox.email = x1 /\ (focus # "settings" => mailbox.verified)
  /\ hash = e1

MCNext ==
  /\ UNCHANGED focus
  /\ \/ /\ focus = "applications"
        /\ ApplicationsStep
        /\ UNCHANGED <<listsVars, bellVars, settingVars, referenceVars>>
     \/ /\ \/ focus = "rows" /\ ListsStep(users, notices)
           \/ focus = "marks" /\ ListsStep(notices, users)
        /\ UNCHANGED <<applicationVars, bellVars, settingVars, referenceVars>>
     \/ /\ \/ focus = "publishers" /\ PublishersStep
           \/ focus = "tabs" /\ TabsStep
        /\ UNCHANGED <<applicationVars, listsVars, settingVars, referenceVars>>
     \/ /\ focus = "settings"
        /\ SettingsStep
        /\ UNCHANGED <<applicationVars, listsVars, bellVars, referenceVars>>
     \/ /\ focus = "reference"
        /\ ReferenceNext
        /\ UNCHANGED <<applicationVars, listsVars, bellVars, settingVars>>

MCSpec == MCInit /\ [][MCNext]_mcVars
=============================================================================
