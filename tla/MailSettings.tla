---------------------------- MODULE MailSettings ----------------------------
(* The page on which an account says where its alerts go, in several tabs.    *)
(* The form is mounted with what was read and keyed by its updated_at; what   *)
(* it saves replaces the whole row, whoever has changed it since.  A code is  *)
(* sent to the stored address: a new address is stored first, and the page    *)
(* is not read again for that.  (The rows and codes of many requests at once  *)
(* are in Preferences.)                                                       *)
EXTENDS Naturals, Sequences

CONSTANTS
  Views,      \* tabs that show the page
  Addresses,  \* mailboxes
  Empty,      \* no address, no answer, no task
  Tasks       \* what is begun with a button; each has an identity of its own

ASSUME MailSettingsAssumption == Empty \notin Addresses \cup Tasks

VARIABLES
  mailbox,   \* the stored preference
  writes,    \* the writes it has had; their number stands for updated_at
  codeFor,   \* the address of the open code
  known,     \* what a tab last read
  reading,   \* the read that is on its way back
  visible,   \* the tab shows the page
  sheet,     \* the mounted form; Empty while the page waits, under an error, or not visible
  task       \* save, sendCode and verify as they go from request to request

settingVars == <<mailbox, writes, codeFor, known, reading, visible, sheet, task>>

Address == Addresses \cup {Empty}
Mailbox == [email : Address, verified : BOOLEAN, on : BOOLEAN]
Known == [email : Address, verified : BOOLEAN, on : BOOLEAN, at : Nat]
\* busy is "saving" or "pending".
Sheet == [email : Address, on : BOOLEAN, codeSent : BOOLEAN, busy : Tasks \cup {Empty}]
\* email: the address it left; told: its answer has come, that of a save while its
\* tab showed the page.
Write == [view : Views, kind : {"save", "change", "verify"}, email : Address, told : BOOLEAN]
NotBegun == [step |-> "none"]
\* at: the write this task has made, 0 before.
Task == [step : {"save", "change", "send", "verify", "saved", "changed", "sent", "failed", "reread", "over"},
         view : Views, email : Address, on : BOOLEAN, at : Nat]

SettingsInit ==
  /\ mailbox \in [email : Addresses, verified : BOOLEAN, on : {FALSE}]
  /\ writes = <<>>
  /\ codeFor = Empty
  /\ known = [d \in Views |-> Empty]
  /\ reading = [d \in Views |-> Empty]
  /\ visible = [d \in Views |-> TRUE]
  /\ sheet = [d \in Views |-> Empty]
  /\ task = [i \in Tasks |-> NotBegun]

---------------------------------------------------------------------------
(* Reading. *)

NewSheet(c) == [email |-> c.email, on |-> c.on, codeSent |-> FALSE, busy |-> Empty]

\* The page is opened, comes to the foreground, or has invalidated the query.
ServeSettings(d) ==
  /\ reading[d] = Empty
  /\ reading' = [reading EXCEPT ![d] =
       [email |-> mailbox.email, verified |-> mailbox.verified, on |-> mailbox.on,
        at |-> Len(writes)]]
  /\ UNCHANGED <<mailbox, writes, codeFor, known, visible, sheet, task>>

\* Whoever waited for this read waits no longer.
Rereads(d, i) == task[i].step = "reread" /\ task[i].view = d
ReadOver(d) == [i \in Tasks |-> IF Rereads(d, i) THEN [task[i] EXCEPT !.step = "over"] ELSE task[i]]

\* The same updated_at leaves the form as it is; another mounts a new one (as
\* after every save and verify), and so does the first answer.
SettingsRead(d) ==
  /\ reading[d] # Empty
  /\ LET same == sheet[d] # Empty /\ known[d].at = reading[d].at
     IN sheet' = IF visible[d] /\ ~ same THEN [sheet EXCEPT ![d] = NewSheet(reading[d])] ELSE sheet
  /\ known' = [known EXCEPT ![d] = reading[d]]
  /\ reading' = [reading EXCEPT ![d] = Empty]
  /\ task' = ReadOver(d)
  /\ UNCHANGED <<mailbox, writes, codeFor, visible>>

\* An error takes the place of the form until the next answer, even of a form
\* that was shown.
SettingsFail(d) ==
  /\ reading[d] # Empty
  /\ reading' = [reading EXCEPT ![d] = Empty]
  /\ known' = [known EXCEPT ![d] = Empty]
  /\ sheet' = [sheet EXCEPT ![d] = Empty]
  /\ task' = ReadOver(d)
  /\ UNCHANGED <<mailbox, writes, codeFor, visible>>

\* Another page is shown; what was begun goes on.
LeaveSettings(d) ==
  /\ visible[d]
  /\ visible' = [visible EXCEPT ![d] = FALSE]
  /\ sheet' = [sheet EXCEPT ![d] = Empty]
  /\ UNCHANGED <<mailbox, writes, codeFor, known, reading, task>>

\* The query cache has kept what was read.
ReturnToSettings(d) ==
  /\ ~ visible[d]
  /\ visible' = [visible EXCEPT ![d] = TRUE]
  /\ sheet' = [sheet EXCEPT ![d] = IF known[d] = Empty THEN Empty ELSE NewSheet(known[d])]
  /\ UNCHANGED <<mailbox, writes, codeFor, known, reading, task>>

---------------------------------------------------------------------------
(* The form; while it is busy nothing in it can be changed. *)

Editable(d) == IF sheet[d] = Empty THEN FALSE ELSE sheet[d].busy = Empty

\* "verified", and with it whether mail may be switched on.
Badge(d) == known[d].verified /\ sheet[d].email = known[d].email

\* The field for the code.
CodeEntry(d) == sheet[d].codeSent /\ ~ Badge(d)

EditAddress_KeepsEntry(d, a) ==
  /\ Editable(d)
  /\ sheet' = [sheet EXCEPT ![d].email = a, ![d].on = FALSE]
  /\ UNCHANGED <<mailbox, writes, codeFor, known, reading, visible, task>>

EditAddress(d, a) ==
  /\ Editable(d)
  /\ sheet' = [sheet EXCEPT ![d].email = a, ![d].on = FALSE, ![d].codeSent = FALSE]
  /\ UNCHANGED <<mailbox, writes, codeFor, known, reading, visible, task>>

\* The other settings are saved along and nothing depends on them.
SwitchMail(d) ==
  /\ Editable(d)
  /\ Badge(d) /\ sheet[d].email # Empty
  /\ sheet' = [sheet EXCEPT ![d].on = ~ @]
  /\ UNCHANGED <<mailbox, writes, codeFor, known, reading, visible, task>>

Begin(d, i, step) ==
  /\ Editable(d)
  /\ task[i] = NotBegun
  /\ task' = [task EXCEPT ![i] =
       [step |-> step, view |-> d, email |-> sheet[d].email,
        on |-> step = "save" /\ sheet[d].on, at |-> 0]]
  /\ sheet' = [sheet EXCEPT ![d].busy = i]
  /\ UNCHANGED <<mailbox, writes, codeFor, known, reading, visible>>

SaveSettings(d, i) == Begin(d, i, "save")

\* The address is stored first if it is not the one that was read.
SendCode(d, i) ==
  /\ Editable(d) /\ ~ Badge(d) /\ sheet[d].email # Empty
  /\ Begin(d, i, IF sheet[d].email # known[d].email THEN "change" ELSE "send")

ConfirmCode(d, i) ==
  /\ Editable(d) /\ CodeEntry(d)
  /\ Begin(d, i, "verify")

---------------------------------------------------------------------------
(* The server.  *)

Goes(i, step) == task' = [task EXCEPT ![i].step = step]
Wrote(i, step, email) ==
  /\ task' = [task EXCEPT ![i].step = step, ![i].at = Len(writes) + 1]
  /\ writes' = Append(writes,
       [view |-> task[i].view, kind |-> task[i].step, email |-> email, told |-> FALSE])

\* updateNotificationPreferences: all is replaced; mail cannot be switched on
\* for an address that is not verified, and a new one is not.
ServePut(i) ==
  /\ task[i].step \in {"save", "change"}
  /\ LET t == task[i]
         same == t.email = mailbox.email
     IN IF t.on /\ ~ (same /\ mailbox.verified /\ t.email # Empty)
        THEN Goes(i, "failed") /\ UNCHANGED <<mailbox, writes>>
        ELSE /\ mailbox' = [email |-> t.email, verified |-> same /\ mailbox.verified, on |-> t.on]
             /\ Wrote(i, IF t.step = "save" THEN "saved" ELSE "changed", t.email)
  /\ UNCHANGED <<codeFor, known, reading, visible, sheet>>

\* sendEmailVerification: to the address that is stored, unless too many were.
ServeSend(i) ==
  /\ task[i].step = "send"
  /\ IF mailbox.email = Empty
     THEN Goes(i, "failed") /\ UNCHANGED codeFor
     ELSE \/ codeFor' = mailbox.email /\ Goes(i, "sent")
          \/ codeFor' \in {codeFor, mailbox.email} /\ Goes(i, "failed")
  /\ UNCHANGED <<mailbox, writes, known, reading, visible, sheet>>

\* verifyEmail, with the code that is open or another.
ServeVerify(i) ==
  /\ task[i].step = "verify"
  /\ \/ /\ codeFor # Empty /\ codeFor = mailbox.email
        /\ mailbox' = [mailbox EXCEPT !.verified = TRUE]
        /\ codeFor' = Empty
        /\ Wrote(i, "saved", mailbox.email)
     \/ Goes(i, "failed") /\ UNCHANGED <<mailbox, codeFor, writes>>
  /\ UNCHANGED <<known, reading, visible, sheet>>

\* The request or its answer is lost.
LoseTask(i) ==
  /\ task[i].step \in {"save", "change", "send", "verify", "saved", "changed", "sent"}
  /\ Goes(i, "failed")
  /\ UNCHANGED <<mailbox, writes, codeFor, known, reading, visible, sheet>>

---------------------------------------------------------------------------
(* The answers; those to a form that is gone change no form. *)

Told(i) == [writes EXCEPT ![task[i].at].told = TRUE]
Waiter(d, i) == IF sheet[d] = Empty THEN FALSE ELSE sheet[d].busy = i

SettingsSaved_NotReread(i) ==
  /\ task[i].step = "saved"
  /\ writes' = Told(i)
  /\ Goes(i, "over")
  /\ LET d == task[i].view
     IN sheet' = IF Waiter(d, i) THEN [sheet EXCEPT ![d].busy = Empty] ELSE sheet
  /\ UNCHANGED <<mailbox, codeFor, known, reading, visible>>

\* save and verify invalidate the query: a read under way is dropped, another
\* follows, and the form stays busy until it is there.  For a page that is not
\* shown nothing is read or dropped.
SettingsSaved(i) ==
  /\ task[i].step = "saved"
  /\ LET d == task[i].view
     IN IF visible[d]
        THEN /\ writes' = Told(i)
             /\ Goes(i, "reread")
             /\ reading' = [reading EXCEPT ![d] = Empty]
        ELSE Goes(i, "over") /\ UNCHANGED <<writes, reading>>
  /\ UNCHANGED <<mailbox, codeFor, known, visible, sheet>>

\* sendCode goes on to its second request, and to no read.
AddressChanged(i) ==
  /\ task[i].step = "changed"
  /\ writes' = Told(i)
  /\ Goes(i, "send")
  /\ UNCHANGED <<mailbox, codeFor, known, reading, visible, sheet>>

TaskEnds(i) ==
  /\ task[i].step \in {"sent", "failed"}
  /\ LET d == task[i].view
     IN sheet' = IF Waiter(d, i)
                 THEN [sheet EXCEPT ![d].busy = Empty, ![d].codeSent = @ \/ task[i].step = "sent"]
                 ELSE sheet
  /\ Goes(i, "over")
  /\ UNCHANGED <<mailbox, writes, codeFor, known, reading, visible>>

SettingsNext ==
  \/ \E d \in Views :
       \/ ServeSettings(d) \/ SettingsRead(d) \/ SettingsFail(d)
       \/ LeaveSettings(d) \/ ReturnToSettings(d) \/ SwitchMail(d)
       \/ \E a \in Address : EditAddress(d, a)
       \/ \E i \in Tasks : SaveSettings(d, i) \/ SendCode(d, i) \/ ConfirmCode(d, i)
  \/ \E i \in Tasks :
       \/ ServePut(i) \/ ServeSend(i) \/ ServeVerify(i) \/ LoseTask(i)
       \/ SettingsSaved(i) \/ AddressChanged(i) \/ TaskEnds(i)

SettingsSpec == SettingsInit /\ [][SettingsNext]_settingVars

---------------------------------------------------------------------------
(* The type; a form is there only if something was read, and waits only for   *)
(* a task of its own that is not over.                                        *)
SettingsTypeOK ==
  /\ mailbox \in Mailbox
  /\ writes \in Seq(Write)
  /\ codeFor \in Address
  /\ known \in [Views -> Known \cup {Empty}]
  /\ reading \in [Views -> Known \cup {Empty}]
  /\ visible \in [Views -> BOOLEAN]
  /\ sheet \in [Views -> Sheet \cup {Empty}]
  /\ task \in [Tasks -> Task \cup {NotBegun}]
  /\ \A d \in Views : sheet[d] # Empty =>
       /\ visible[d] /\ known[d] # Empty
       /\ sheet[d].busy # Empty =>
            LET t == task[sheet[d].busy] IN t # NotBegun /\ t.step # "over" /\ t.view = d

\* A write the tab has been shown nothing of, in spite of what it was told: of
\* another tab, or of its own with the answer under way, lost, or followed by
\* a read that is.
Unheard(d, w) ==
  \/ writes[w].view # d
  \/ ~ writes[w].told
  \/ \E i \in Tasks : Rereads(d, i) /\ task[i].at = w

\* sendCode has stored another address than the one in the form.
Departed(d, w) == writes[w].kind = "change" /\ writes[w].email # sheet[d].email

(* The badge and the field for a code tell the truth: the address in the form *)
(* is the stored one, verified or with a code to come.  Four things make them *)
(* lie: another tab, an answer that is under way or lost, a read that is, and *)
(* sendCode, which stores an address and has nothing read again, when the     *)
(* user goes back to the address before or an earlier form of the tab sent it.*)
SettingsTell ==
  \A d \in Views :
    IF Editable(d) /\ (Badge(d) \/ CodeEntry(d))
    THEN \/ mailbox.email = sheet[d].email /\ (Badge(d) => mailbox.verified)
         \/ \E w \in 1 .. Len(writes) : w > known[d].at /\ (Unheard(d, w) \/ Departed(d, w))
    ELSE TRUE
=============================================================================
