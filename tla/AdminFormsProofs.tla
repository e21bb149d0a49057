--------------------------- MODULE AdminFormsProofs ---------------------------
(* For any number of administrators, records and saves, and any clocks that  *)
(* satisfy ClocksAssumption: updated_at tells contents apart, and the saves  *)
(* of the console implement Editions.                                        *)
EXTENDS AdminForms, TLAPS

---------------------------------------------------------------------------
(* The inductive invariant.  Copies are never newer than their row, and the  *)
(* older of two contents has the smaller updated_at: a row is stamped at most *)
(* MaxSkew ahead of the time it is written, and its successor is based on a  *)
(* copy that took longer than that to come back.                             *)
Sound(k, c) ==
  \/ c.at = row[k].at /\ c.base = row[k].edition
  \/ c.at < row[k].at /\ c.base < row[k].edition

ReadsSound ==
  \A a \in Admins, k \in Records :
    /\ cache[a][k] # None => Sound(k, cache[a][k])
    /\ answer[a][k] # None => Sound(k, answer[a][k])
FormsSound == \A a \in Admins : form[a] # None => Sound(form[a].record, form[a])
SavesSound == \A i \in Saves : save[i] # Unused => Sound(save[i].record, save[i])
Copies == ReadsSound /\ FormsSound /\ SavesSound

Stamped == \A k \in Records : row[k].at <= row[k].born + MaxSkew
Written == \A i \in Saves : save[i] # Unused => save[i].wrote <= row[save[i].record].edition

FormsInv == FormsTypeOK /\ Stamped /\ Copies /\ Written /\ FreshAfterSave

\* No query, form or save is under way at the start (AdminSettings, AdminEndpoints).
LEMMA InitInv == FormsInit => FormsInv
<1> SUFFICES ASSUME FormsInit PROVE FormsInv
  OBVIOUS
<1> USE FormsAssumption, ClocksAssumption
<1>1. FormsTypeOK
  BY DEF FormsInit, FormsTypeOK, Row, Copy, Unused
<1>2. Stamped /\ Copies /\ Written /\ FreshAfterSave
  BY DEF FormsInit, Stamped, Copies, ReadsSound, FormsSound, SavesSound, Written, FreshAfterSave
<1> QED
  BY <1>1, <1>2 DEF FormsInv

---------------------------------------------------------------------------
(* Reading. *)

\* What the server answers is the row (settingResponse).
LEMMA ServeReadInv ==
  ASSUME FormsInv, NEW a \in Admins, NEW k \in Records, ServeRead(a, k)
  PROVE  FormsInv'
<1> DEFINE c == CopyOf(k)
<1>1. /\ answer' = [answer EXCEPT ![a][k] = c]
      /\ UNCHANGED <<now, row, cache, form, busy, save>>
  BY DEF ServeRead
<1>2. c \in Copy /\ c.at = row[k].at /\ c.base = row[k].edition
  BY DEF FormsInv, FormsTypeOK, CopyOf, Copy, Row
<1> HIDE DEF c
<1>3. answer' \in [Admins -> [Records -> Copy \cup {None}]]
  BY <1>1, <1>2 DEF FormsInv, FormsTypeOK
<1>4. FormsTypeOK'
  BY <1>1, <1>3 DEF FormsInv, FormsTypeOK
<1>5. Stamped' /\ Written'
  BY <1>1 DEF FormsInv, Stamped, Written
<1>6. ReadsSound'
  <2> SUFFICES ASSUME NEW b \in Admins, NEW j \in Records
               PROVE  /\ cache'[b][j] # None => Sound(j, cache[b][j])'
                      /\ answer'[b][j] # None => Sound(j, answer[b][j])'
    BY DEF ReadsSound
  <2>1. b = a /\ j = k => answer'[b][j] = c
    BY <1>1 DEF FormsInv, FormsTypeOK
  <2>2. ~(b = a /\ j = k) => answer'[b][j] = answer[b][j]
    BY <1>1 DEF FormsInv, FormsTypeOK
  <2> QED
    BY <1>1, <1>2, <2>1, <2>2 DEF FormsInv, Copies, ReadsSound, Sound
<1>7. FormsSound' /\ SavesSound'
  BY <1>1 DEF FormsInv, Copies, FormsSound, SavesSound, Sound
<1>8. FreshAfterSave'
  <2> SUFFICES ASSUME NEW b \in Admins, busy[b] # None, save[busy[b]].stage = "settled",
                      answer'[b][save[busy[b]].record] # None
               PROVE  answer'[b][save[busy[b]].record].base >= save[busy[b]].wrote
    BY <1>1 DEF FreshAfterSave
  <2> DEFINE s == save[busy[b]]
  <2>1. s \in Save /\ busy[b] \in Saves /\ s # Unused
    BY DEF FormsInv, FormsTypeOK, Unused
  <2>2. s.record \in Records /\ s.wrote \in Nat
    BY <2>1 DEF Save
  <2>3. s.wrote <= row[s.record].edition
    BY <2>1 DEF FormsInv, Written
  <2>4. CASE b = a /\ s.record = k
    <3>1. answer'[b][s.record] = c
      BY <1>1, <2>2, <2>4 DEF FormsInv, FormsTypeOK
    <3>2. row[k].edition \in Nat
      BY DEF FormsInv, FormsTypeOK, Row
    <3> QED
      BY <1>2, <2>2, <2>3, <2>4, <3>1, <3>2
  <2>5. CASE ~(b = a /\ s.record = k)
    <3>1. answer'[b][s.record] = answer[b][s.record]
      BY <1>1, <2>2, <2>5 DEF FormsInv, FormsTypeOK
    <3> QED
      BY <3>1 DEF FormsInv, FreshAfterSave
  <2> QED
    BY <2>4, <2>5
<1> QED
  BY <1>4, <1>5, <1>6, <1>7, <1>8 DEF FormsInv, Copies

\* An answer becomes the cached copy, and with another updated_at a new form.
LEMMA DeliverInv ==
  ASSUME FormsInv, NEW a \in Admins, NEW k \in Records, Deliver(a, k)
  PROVE  FormsInv'
<1> DEFINE c == answer[a][k]
<1> DEFINE f == FreshForm(k, c)
<1>1. /\ c # None
      /\ cache' = [cache EXCEPT ![a][k] = c]
      /\ answer' = [answer EXCEPT ![a][k] = None]
      /\ UNCHANGED <<now, row, save>>
  BY DEF Deliver
<1>2. \/ form' = [form EXCEPT ![a] = f] /\ busy' = [busy EXCEPT ![a] = None]
      \/ form' = form /\ busy' \in {busy, [busy EXCEPT ![a] = None]}
  BY DEF Deliver, Remounted
<1>3. c \in Copy
  BY <1>1 DEF FormsInv, FormsTypeOK
<1>4. Sound(k, c)
  BY <1>1 DEF FormsInv, Copies, ReadsSound
<1>5. f \in Form /\ f.record = k /\ f.at = c.at /\ f.base = c.base
  BY <1>3 DEF FreshForm, Copy, Form
<1> HIDE DEF c, f
<1>6. FormsTypeOK'
  <2>1. /\ cache' \in [Admins -> [Records -> Copy \cup {None}]]
        /\ answer' \in [Admins -> [Records -> Copy \cup {None}]]
    BY <1>1, <1>3 DEF FormsInv, FormsTypeOK
  <2>2. form' \in [Admins -> Form \cup {None}] /\ busy' \in [Admins -> Saves \cup {None}]
    BY <1>2, <1>5 DEF FormsInv, FormsTypeOK
  <2>3. ASSUME NEW b \in Admins, busy'[b] # None
        PROVE  busy'[b] = busy[b] /\ form'[b] = form[b]
    BY <1>2, <2>3 DEF FormsInv, FormsTypeOK
  <2> QED
    BY <1>1, <2>1, <2>2, <2>3 DEF FormsInv, FormsTypeOK
<1>7. Stamped' /\ Written' /\ SavesSound'
  BY <1>1 DEF FormsInv, Copies, Stamped, Written, SavesSound, Sound
<1>8. ReadsSound'
  <2> SUFFICES ASSUME NEW b \in Admins, NEW j \in Records
               PROVE  /\ cache'[b][j] # None => Sound(j, cache'[b][j])
                      /\ answer'[b][j] # None => Sound(j, answer'[b][j])
    BY <1>1 DEF ReadsSound, Sound
  <2>1. b = a /\ j = k => cache'[b][j] = c /\ answer'[b][j] = None
    BY <1>1 DEF FormsInv, FormsTypeOK
  <2>2. ~(b = a /\ j = k) => cache'[b][j] = cache[b][j] /\ answer'[b][j] = answer[b][j]
    BY <1>1 DEF FormsInv, FormsTypeOK
  <2> QED
    BY <1>4, <2>1, <2>2 DEF FormsInv, Copies, ReadsSound
<1>9. FormsSound'
  <2> SUFFICES ASSUME NEW b \in Admins, form'[b] # None
               PROVE  Sound(form'[b].record, form'[b])
    BY <1>1 DEF FormsSound, Sound
  <2>1. form'[b] = form[b] \/ form'[b] = f
    BY <1>2 DEF FormsInv, FormsTypeOK
  <2>2. Sound(f.record, f)
    BY <1>4, <1>5 DEF Sound
  <2> QED
    BY <2>1, <2>2 DEF FormsInv, Copies, FormsSound
<1>10. FreshAfterSave'
  <2> SUFFICES ASSUME NEW b \in Admins, busy'[b] # None, save[busy'[b]].stage = "settled",
                      answer'[b][save[busy'[b]].record] # None
               PROVE  answer'[b][save[busy'[b]].record].base >= save[busy'[b]].wrote
    BY <1>1 DEF FreshAfterSave
  <2>1. busy'[b] = busy[b]
    BY <1>2 DEF FormsInv, FormsTypeOK
  <2> DEFINE s == save[busy[b]]
  <2>2. s \in Save
    BY <2>1 DEF FormsInv, FormsTypeOK
  <2>3. s.record \in Records
    BY <2>2 DEF Save
  <2>4. answer'[b][s.record] = answer[b][s.record]
    BY <1>1, <2>1, <2>3 DEF FormsInv, FormsTypeOK
  <2> QED
    BY <2>1, <2>4 DEF FormsInv, FreshAfterSave
<1> QED
  BY <1>6, <1>7, <1>8, <1>9, <1>10 DEF FormsInv, Copies

\* A query that fails only ends the waiting.
LEMMA FailReadInv ==
  ASSUME FormsInv, NEW a \in Admins, NEW k \in Records, FailRead(a, k)
  PROVE  FormsInv'
<1>1. /\ answer' = [answer EXCEPT ![a][k] = None]
      /\ busy' \in {busy, [busy EXCEPT ![a] = None]}
      /\ UNCHANGED <<now, row, cache, form, save>>
  BY DEF FailRead
<1>2. answer' \in [Admins -> [Records -> Copy \cup {None}]]
  BY <1>1 DEF FormsInv, FormsTypeOK
<1>3. \A b \in Admins : busy'[b] # None => busy'[b] = busy[b]
  BY <1>1 DEF FormsInv, FormsTypeOK
<1>4. \A b \in Admins, j \in Records : answer'[b][j] # None => answer'[b][j] = answer[b][j]
  BY <1>1 DEF FormsInv, FormsTypeOK
<1>5. FormsTypeOK'
  BY <1>1, <1>2, <1>3 DEF FormsInv, FormsTypeOK
<1>6. Stamped' /\ Written' /\ SavesSound' /\ FormsSound'
  BY <1>1 DEF FormsInv, Copies, Stamped, Written, SavesSound, FormsSound, Sound
<1>7. ReadsSound'
  BY <1>1, <1>4 DEF FormsInv, Copies, ReadsSound, Sound
<1>8. FreshAfterSave'
  <2> SUFFICES ASSUME NEW b \in Admins, busy'[b] # None, save[busy'[b]].stage = "settled",
                      answer'[b][save[busy'[b]].record] # None
               PROVE  answer'[b][save[busy'[b]].record].base >= save[busy'[b]].wrote
    BY <1>1 DEF FreshAfterSave
  <2>1. busy'[b] = busy[b] /\ save[busy[b]] \in Save
    BY <1>3 DEF FormsInv, FormsTypeOK
  <2>2. save[busy[b]].record \in Records
    BY <2>1 DEF Save
  <2> QED
    BY <1>4, <2>1, <2>2 DEF FormsInv, FreshAfterSave
<1> QED
  BY <1>5, <1>6, <1>7, <1>8 DEF FormsInv, Copies

---------------------------------------------------------------------------
(* Editing. *)

\* A form starts from the cached copy.
LEMMA OpenInv ==
  ASSUME FormsInv, NEW a \in Admins, NEW k \in Records, Open(a, k)
  PROVE  FormsInv'
<1> DEFINE c == cache[a][k]
<1> DEFINE f == FreshForm(k, c)
<1>1. /\ form[a] = None /\ c # None
      /\ form' = [form EXCEPT ![a] = f]
      /\ UNCHANGED <<now, row, cache, answer, busy, save>>
  BY DEF Open
<1>2. c \in Copy /\ Sound(k, c)
  BY <1>1 DEF FormsInv, FormsTypeOK, Copies, ReadsSound
<1>3. f \in Form /\ Sound(f.record, f)
  BY <1>2 DEF FreshForm, Copy, Form, Sound
<1> HIDE DEF c, f
<1>4. form' \in [Admins -> Form \cup {None}]
  BY <1>1, <1>3 DEF FormsInv, FormsTypeOK
<1>5. \A b \in Admins : form'[b] = form[b] \/ (b = a /\ form'[b] = f)
  BY <1>1 DEF FormsInv, FormsTypeOK
<1>6. FormsTypeOK'
  BY <1>1, <1>4, <1>5 DEF FormsInv, FormsTypeOK
<1>7. FormsSound'
  BY <1>1, <1>3, <1>5 DEF FormsInv, Copies, FormsSound, Sound
<1> QED
  BY <1>1, <1>6, <1>7 DEF FormsInv, Copies, Stamped, Written, ReadsSound, SavesSound,
       Sound, FreshAfterSave

\* A form that is edited keeps the stamp of what it started from.
LEMMA EditInv ==
  ASSUME FormsInv, NEW a \in Admins, NEW v \in Values, EditPage(a, v) \/ EditDialog(a, v)
  PROVE  FormsInv'
<1> DEFINE f == [form[a] EXCEPT !.value = v]
<1>1. /\ form[a] # None /\ busy[a] = None
      /\ form' = [form EXCEPT ![a] = f]
      /\ UNCHANGED <<now, row, cache, answer, busy, save>>
  BY DEF EditPage, EditDialog, Editable, Edit
<1>2. form[a] \in Form /\ Sound(form[a].record, form[a])
  BY <1>1 DEF FormsInv, FormsTypeOK, Copies, FormsSound
<1>3. f \in Form /\ Sound(f.record, f)
  BY <1>2 DEF Form, Sound
<1> HIDE DEF f
<1>4. form' \in [Admins -> Form \cup {None}]
  BY <1>1, <1>3 DEF FormsInv, FormsTypeOK
<1>5. \A b \in Admins : form'[b] = form[b] \/ (b = a /\ form'[b] = f)
  BY <1>1 DEF FormsInv, FormsTypeOK
<1>6. FormsTypeOK'
  BY <1>1, <1>4, <1>5 DEF FormsInv, FormsTypeOK
<1>7. FormsSound'
  BY <1>1, <1>3, <1>5 DEF FormsInv, Copies, FormsSound, Sound
<1> QED
  BY <1>1, <1>6, <1>7 DEF FormsInv, Copies, Stamped, Written, ReadsSound, SavesSound,
       Sound, FreshAfterSave

\* Nobody waits for a form that was left.
LEMMA LeaveInv ==
  ASSUME FormsInv, NEW a \in Admins, Leave(a)
  PROVE  FormsInv'
<1>1. /\ form' = [form EXCEPT ![a] = None] /\ busy' = [busy EXCEPT ![a] = None]
      /\ UNCHANGED <<now, row, cache, answer, save>>
  BY DEF Leave
<1>2. \A b \in Admins : busy'[b] # None => busy'[b] = busy[b] /\ form'[b] = form[b]
  BY <1>1 DEF FormsInv, FormsTypeOK
<1>3. \A b \in Admins : form'[b] # None => form'[b] = form[b]
  BY <1>1 DEF FormsInv, FormsTypeOK
<1>4. FormsTypeOK'
  BY <1>1, <1>2 DEF FormsInv, FormsTypeOK
<1>5. FormsSound' /\ FreshAfterSave'
  BY <1>1, <1>2, <1>3 DEF FormsInv, Copies, FormsSound, FreshAfterSave, Sound
<1> QED
  BY <1>1, <1>4, <1>5 DEF FormsInv, Copies, Stamped, Written, ReadsSound, SavesSound, Sound

---------------------------------------------------------------------------
(* Saving. *)

\* A save carries what its form was opened with.
LEMMA SubmitInv ==
  ASSUME FormsInv, NEW a \in Admins, NEW i \in Saves, Submit(a, i)
  PROVE  FormsInv'
<1> DEFINE f == form[a]
<1> DEFINE s == [stage |-> "sent", admin |-> a, record |-> f.record, value |-> f.value,
                 at |-> f.at, base |-> f.base, wrote |-> 0]
<1>1. /\ f # None
      /\ save' = [save EXCEPT ![i] = s]
      /\ busy' = [busy EXCEPT ![a] = i]
      /\ busy[a] = None /\ save[i] = Unused
      /\ UNCHANGED <<now, row, cache, answer, form>>
  BY DEF Submit, Editable
<1>2. f \in Form /\ Sound(f.record, f)
  BY <1>1 DEF FormsInv, FormsTypeOK, Copies, FormsSound
<1>3. /\ s \in Save /\ s # Unused /\ s.stage = "sent" /\ s.admin = a /\ s.record = f.record
      /\ s.wrote = 0 /\ Sound(s.record, s)
  BY <1>2 DEF Form, Save, Unused, Sound
<1> HIDE DEF s
<1>4. save' \in [Saves -> Save \cup {Unused}] /\ busy' \in [Admins -> Saves \cup {None}]
  BY <1>1, <1>3 DEF FormsInv, FormsTypeOK
<1>5. save'[i] = s /\ \A j \in Saves : j # i => save'[j] = save[j]
  BY <1>1 DEF FormsInv, FormsTypeOK
<1>6. busy'[a] = i /\ \A b \in Admins : b # a => busy'[b] = busy[b]
  BY <1>1 DEF FormsInv, FormsTypeOK
<1>7. \A b \in Admins : b # a /\ busy[b] # None => busy[b] \in Saves /\ busy[b] # i
  BY <1>1 DEF FormsInv, FormsTypeOK
<1>8. FormsTypeOK'
  <2>1. ASSUME NEW b \in Admins, busy'[b] # None
        PROVE  /\ save'[busy'[b]] # Unused /\ save'[busy'[b]].admin = b
               /\ save'[busy'[b]].stage # "settled" =>
                    form[b] # None /\ form[b].record = save'[busy'[b]].record
    <3>1. CASE b = a
      BY <1>1, <1>3, <1>5, <1>6, <3>1
    <3>2. CASE b # a
      BY <1>5, <1>6, <1>7, <2>1, <3>2 DEF FormsInv, FormsTypeOK
    <3> QED
      BY <3>1, <3>2
  <2> QED
    BY <1>1, <1>4, <2>1 DEF FormsInv, FormsTypeOK
<1>9. SavesSound'
  BY <1>1, <1>3, <1>5 DEF FormsInv, Copies, SavesSound, Sound
<1>10. Written'
  <2>1. row[s.record].edition \in Nat
    BY <1>2, <1>3 DEF FormsInv, FormsTypeOK, Row, Form
  <2> QED
    BY <1>1, <1>3, <1>5, <2>1 DEF FormsInv, Written
<1>11. FreshAfterSave'
  <2>1. ASSUME NEW b \in Admins, busy'[b] # None, save'[busy'[b]].stage = "settled",
               answer[b][save'[busy'[b]].record] # None
        PROVE  answer[b][save'[busy'[b]].record].base >= save'[busy'[b]].wrote
    <3>1. b # a
      BY <1>3, <1>5, <1>6, <2>1
    <3>2. busy'[b] = busy[b] /\ save'[busy[b]] = save[busy[b]] /\ busy[b] # None
      BY <1>5, <1>6, <1>7, <2>1, <3>1
    <3> QED
      BY <2>1, <3>2 DEF FormsInv, FreshAfterSave
  <2> QED
    BY <1>1, <2>1 DEF FreshAfterSave
<1> QED
  BY <1>1, <1>8, <1>9, <1>10, <1>11 DEF FormsInv, Copies, Stamped, ReadsSound, FormsSound, Sound

\* An accepted save was made from what the row holds, and long enough ago.
LEMMA Serves ==
  ASSUME FormsInv, NEW i \in Saves, NEW o \in 0 .. MaxSkew, ServeSave(i, o), Unchanged(save[i])
  PROVE  LET k == save[i].record
             e == row[k].edition
         IN /\ k \in Records /\ save[i] \in Save
            /\ save[i].base = e
            /\ row' = [row EXCEPT ![k] =
                 [value |-> save[i].value, at |-> now + o, edition |-> e + 1, born |-> now]]
            /\ save' = [save EXCEPT ![i].stage = "accepted", ![i].wrote = e + 1]
            /\ now + o > row[k].at
            /\ now + o <= now + MaxSkew
<1> DEFINE k == save[i].record
<1>1. save[i].stage = "sent"
  BY DEF ServeSave
<1>2. save[i] \in Save
  BY <1>1 DEF FormsInv, FormsTypeOK, Unused
<1>3. k \in Records /\ row[k] \in Row
  BY <1>2 DEF Save, FormsInv, FormsTypeOK
<1>4. save[i] # Unused
  BY <1>1 DEF Unused
<1>5. Sound(k, save[i])
  BY <1>4 DEF FormsInv, Copies, SavesSound
<1>6. row[k].at \in Nat /\ row[k].born \in Nat /\ now \in Nat
  BY <1>3 DEF Row, FormsInv, FormsTypeOK
<1>7. save[i].at = row[k].at /\ save[i].base = row[k].edition
  BY <1>5, <1>6 DEF Sound, Unchanged
<1>8. now >= row[k].born + RoundTrip
  BY <1>7 DEF ServeSave
<1>9. row[k].at <= row[k].born + MaxSkew
  BY <1>3 DEF FormsInv, Stamped
<1>10. o \in Nat /\ o <= MaxSkew
  BY FormsAssumption
<1>11. now + o > row[k].at /\ now + o <= now + MaxSkew
  BY <1>6, <1>8, <1>9, <1>10, FormsAssumption, ClocksAssumption
<1>12. /\ row' = [row EXCEPT ![k] =
            [value |-> save[i].value, at |-> Stamp(o), edition |-> row[k].edition + 1, born |-> now]]
       /\ save' = [save EXCEPT ![i].stage = "accepted", ![i].wrote = row[k].edition + 1]
  BY DEF ServeSave
<1>13. Stamp(o) = now + o
  BY DEF Stamp
<1> QED
  BY <1>2, <1>3, <1>7, <1>11, <1>12, <1>13

\* After the write every other copy of the record is behind it.
LEMMA AcceptInv ==
  ASSUME FormsInv, NEW i \in Saves, NEW o \in 0 .. MaxSkew, ServeSave(i, o), Unchanged(save[i])
  PROVE  FormsInv'
<1> DEFINE k == save[i].record
<1> DEFINE e == row[k].edition
<1> DEFINE r == [value |-> save[i].value, at |-> now + o, edition |-> e + 1, born |-> now]
<1> DEFINE s == [save[i] EXCEPT !.stage = "accepted", !.wrote = e + 1]
<1>1. /\ k \in Records /\ save[i] \in Save /\ save[i].base = e
      /\ row' = [row EXCEPT ![k] = r]
      /\ now + o > row[k].at /\ now + o <= now + MaxSkew
  BY Serves
<1>2. save' = [save EXCEPT ![i] = s]
  BY Serves
<1>3. UNCHANGED <<now, cache, answer, form, busy>> /\ save[i].stage = "sent"
  BY DEF ServeSave
<1>4. e \in Nat /\ now \in Nat /\ o \in Nat /\ row[k].at \in Nat
  BY <1>1, FormsAssumption DEF FormsInv, FormsTypeOK, Row
<1>5. /\ r \in Row /\ r.at > row[k].at /\ r.edition > e /\ r.at <= r.born + MaxSkew
      /\ r.at \in Nat /\ r.edition \in Nat
  BY <1>1, <1>4 DEF Row, Save
<1>6. /\ s \in Save /\ s.stage = "accepted" /\ s.admin = save[i].admin /\ s.record = k
      /\ s.at = save[i].at /\ s.base = e /\ s.wrote = e + 1
  <2> DEFINE u == [save[i] EXCEPT !.stage = "accepted"]
  <2>1. /\ u \in Save /\ u.stage = "accepted" /\ u.admin = save[i].admin /\ u.record = k
        /\ u.at = save[i].at /\ u.base = e
    BY <1>1 DEF Save
  <2>2. s = [u EXCEPT !.wrote = e + 1]
    BY <1>1 DEF Save
  <2>3. e + 1 \in Nat
    BY <1>4
  <2> HIDE DEF u, s
  <2> QED
    BY <2>1, <2>2, <2>3 DEF Save
<1>7. s # Unused /\ save[i] # Unused
  <2> HIDE DEF s
  <2> QED
    BY <1>3, <1>6 DEF Unused
<1>8. r.edition = e + 1
  OBVIOUS
<1>9. Sound(k, save[i])
  BY <1>7 DEF FormsInv, Copies, SavesSound
<1> HIDE DEF r, s
<1>10. row'[k] = r /\ \A j \in Records : j # k => row'[j] = row[j]
  BY <1>1 DEF FormsInv, FormsTypeOK
<1>11. save'[i] = s /\ \A j \in Saves : j # i => save'[j] = save[j]
  BY <1>2 DEF FormsInv, FormsTypeOK
\* What was sound stays so, as an older copy if it is one of k.
<1>12. ASSUME NEW j \in Records, NEW c, c.at \in Nat, c.base \in Nat, Sound(j, c)
       PROVE  Sound(j, c)'
  <2>1. CASE j = k
    BY <1>1, <1>4, <1>5, <1>10, <1>12, <2>1 DEF Sound
  <2>2. CASE j # k
    BY <1>10, <1>12, <2>2 DEF Sound
  <2> QED
    BY <2>1, <2>2
<1>13. FormsTypeOK'
  <2>1. row' \in [Records -> Row] /\ save' \in [Saves -> Save \cup {Unused}]
    BY <1>1, <1>2, <1>5, <1>6 DEF FormsInv, FormsTypeOK
  <2>2. ASSUME NEW b \in Admins, busy[b] # None
        PROVE  /\ save'[busy[b]] # Unused /\ save'[busy[b]].admin = b
               /\ save'[busy[b]].stage # "settled" =>
                    form[b] # None /\ form[b].record = save'[busy[b]].record
    <3>1. busy[b] \in Saves
      BY <2>2 DEF FormsInv, FormsTypeOK
    <3>2. CASE busy[b] = i
      BY <1>3, <1>6, <1>7, <1>11, <2>2, <3>2 DEF FormsInv, FormsTypeOK
    <3>3. CASE busy[b] # i
      BY <1>11, <2>2, <3>1, <3>3 DEF FormsInv, FormsTypeOK
    <3> QED
      BY <3>2, <3>3
  <2> QED
    BY <1>3, <2>1, <2>2 DEF FormsInv, FormsTypeOK
<1>14. Stamped'
  BY <1>5, <1>10 DEF FormsInv, Stamped
<1>15. ReadsSound'
  <2> SUFFICES ASSUME NEW b \in Admins, NEW j \in Records
               PROVE  /\ cache[b][j] # None => Sound(j, cache[b][j])'
                      /\ answer[b][j] # None => Sound(j, answer[b][j])'
    BY <1>3 DEF ReadsSound, Sound
  <2>1. ASSUME cache[b][j] # None PROVE Sound(j, cache[b][j])'
    <3>1. cache[b][j].at \in Nat /\ cache[b][j].base \in Nat
      BY <2>1 DEF FormsInv, FormsTypeOK, Copy
    <3>2. Sound(j, cache[b][j])
      BY <2>1 DEF FormsInv, Copies, ReadsSound
    <3> QED
      BY <1>3, <1>12, <3>1, <3>2 DEF Sound
  <2>2. ASSUME answer[b][j] # None PROVE Sound(j, answer[b][j])'
    <3>1. answer[b][j].at \in Nat /\ answer[b][j].base \in Nat
      BY <2>2 DEF FormsInv, FormsTypeOK, Copy
    <3>2. Sound(j, answer[b][j])
      BY <2>2 DEF FormsInv, Copies, ReadsSound
    <3> QED
      BY <1>3, <1>12, <3>1, <3>2 DEF Sound
  <2> QED
    BY <2>1, <2>2
<1>16. FormsSound'
  <2> SUFFICES ASSUME NEW b \in Admins, form[b] # None PROVE Sound(form[b].record, form[b])'
    BY <1>3 DEF FormsSound, Sound
  <2>1. form[b].at \in Nat /\ form[b].base \in Nat /\ form[b].record \in Records
    BY DEF FormsInv, FormsTypeOK, Form
  <2>2. Sound(form[b].record, form[b])
    BY DEF FormsInv, Copies, FormsSound
  <2> QED
    BY <1>3, <1>12, <2>1, <2>2 DEF Sound
<1>17. SavesSound'
  <2> SUFFICES ASSUME NEW j \in Saves, save'[j] # Unused PROVE Sound(save[j].record, save[j])'
    BY DEF SavesSound
  <2>1. CASE j = i
    <3>1. save[i].at \in Nat /\ save[i].base \in Nat
      BY <1>1 DEF Save
    <3>2. row'[k].at > s.at /\ row'[k].edition > s.base
      BY <1>1, <1>4, <1>5, <1>6, <1>9, <1>10, <3>1 DEF Sound
    <3> QED
      BY <1>6, <1>11, <2>1, <3>2 DEF Sound
  <2>2. CASE j # i
    <3>1. save'[j] = save[j] /\ save[j] # Unused
      BY <1>11, <2>2
    <3>2. save[j].at \in Nat /\ save[j].base \in Nat /\ save[j].record \in Records
      BY <3>1 DEF FormsInv, FormsTypeOK, Save
    <3>3. Sound(save[j].record, save[j])
      BY <3>1 DEF FormsInv, Copies, SavesSound
    <3> QED
      BY <1>12, <3>1, <3>2, <3>3 DEF Sound
  <2> QED
    BY <2>1, <2>2
<1>18. Written'
  <2> SUFFICES ASSUME NEW j \in Saves, save'[j] # Unused
               PROVE  save'[j].wrote <= row'[save'[j].record].edition
    BY DEF Written
  <2>1. CASE j = i
    BY <1>4, <1>6, <1>8, <1>10, <1>11, <2>1
  <2>2. CASE j # i
    <3>1. save'[j] = save[j] /\ save[j] # Unused
      BY <1>11, <2>2
    <3>2. save[j].wrote \in Nat /\ save[j].record \in Records
      BY <3>1 DEF FormsInv, FormsTypeOK, Save
    <3>3. save[j].wrote <= row[save[j].record].edition
      BY <3>1 DEF FormsInv, Written
    <3> QED
      BY <1>4, <1>8, <1>10, <3>1, <3>2, <3>3
  <2> QED
    BY <2>1, <2>2
<1>19. FreshAfterSave'
  <2> SUFFICES ASSUME NEW b \in Admins, busy[b] # None, save'[busy[b]].stage = "settled",
                      answer[b][save'[busy[b]].record] # None
               PROVE  answer[b][save'[busy[b]].record].base >= save'[busy[b]].wrote
    BY <1>3 DEF FreshAfterSave
  <2>1. busy[b] # i
    BY <1>6, <1>11
  <2>2. busy[b] \in Saves
    BY DEF FormsInv, FormsTypeOK
  <2>3. save'[busy[b]] = save[busy[b]]
    BY <1>11, <2>1, <2>2
  <2> QED
    BY <2>3 DEF FormsInv, FreshAfterSave
<1> QED
  BY <1>13, <1>14, <1>15, <1>16, <1>17, <1>18, <1>19 DEF FormsInv, Copies

\* A step that changes no more of save i than its stage, and nobody waits anew.
Stages == {"accepted", "refused", "lost", "settled"}
Staged(i, g) ==
  /\ save[i] # Unused /\ save[i].stage # "settled"
  /\ save' = [save EXCEPT ![i].stage = g]
  /\ UNCHANGED <<now, row, cache>>
  /\ form' \in [Admins -> Form \cup {None}]
  /\ busy' \in [Admins -> Saves \cup {None}]
  /\ answer' \in [Admins -> [Records -> Copy \cup {None}]]
  /\ \A b \in Admins :
       /\ form'[b] # None => form'[b] = form[b]
       /\ busy'[b] # None => busy'[b] = busy[b]
       /\ \A j \in Records : answer'[b][j] # None => answer'[b][j] = answer[b][j]
       /\ busy'[b] # None /\ ~(busy'[b] = i /\ g = "settled") => form'[b] = form[b]
       /\ busy'[b] = i /\ g = "settled" => answer'[b][save[i].record] = None

LEMMA StageInv ==
  ASSUME FormsInv, NEW i \in Saves, NEW g \in Stages, Staged(i, g)
  PROVE  FormsInv'
<1> USE DEF Staged, Stages
<1> DEFINE s == [save[i] EXCEPT !.stage = g]
<1>1. save[i] \in Save /\ i # None
  BY FormsAssumption DEF FormsInv, FormsTypeOK
<1>2. /\ s \in Save /\ s.stage = g /\ s.admin = save[i].admin /\ s.record = save[i].record
      /\ s.at = save[i].at /\ s.base = save[i].base /\ s.wrote = save[i].wrote
  BY <1>1 DEF Save
<1>3. s # Unused
  BY <1>2 DEF Unused
<1>4. save' = [save EXCEPT ![i] = s]
  OBVIOUS
<1> HIDE DEF s
<1>5. save'[i] = s /\ \A j \in Saves : j # i => save'[j] = save[j]
  BY <1>4 DEF FormsInv, FormsTypeOK
<1>6. FormsTypeOK'
  <2>1. save' \in [Saves -> Save \cup {Unused}]
    BY <1>2, <1>4 DEF FormsInv, FormsTypeOK
  <2>2. ASSUME NEW b \in Admins, busy'[b] # None
        PROVE  /\ save'[busy'[b]] # Unused /\ save'[busy'[b]].admin = b
               /\ save'[busy'[b]].stage # "settled" =>
                    form'[b] # None /\ form'[b].record = save'[busy'[b]].record
    <3>1. busy'[b] = busy[b] /\ busy[b] \in Saves /\ busy[b] # None
      BY <2>2 DEF FormsInv, FormsTypeOK
    <3>2. /\ save[busy[b]] # Unused /\ save[busy[b]].admin = b
          /\ save[busy[b]].stage # "settled" =>
               form[b] # None /\ form[b].record = save[busy[b]].record
      BY <3>1 DEF FormsInv, FormsTypeOK
    <3>3. CASE busy[b] = i
      <4>1. save'[busy'[b]] = s
        BY <1>5, <3>1, <3>3
      <4>2. g # "settled" => form'[b] = form[b]
        BY <2>2, <3>1, <3>3
      <4> QED
        BY <1>2, <1>3, <3>2, <3>3, <4>1, <4>2
    <3>4. CASE busy[b] # i
      <4>1. save'[busy'[b]] = save[busy[b]] /\ form'[b] = form[b]
        BY <1>5, <2>2, <3>1, <3>4
      <4> QED
        BY <3>2, <4>1
    <3> QED
      BY <3>3, <3>4
  <2> QED
    BY <2>1, <2>2 DEF FormsInv, FormsTypeOK
<1>7. Stamped' /\ ReadsSound' /\ FormsSound'
  <2>1. Stamped'
    BY DEF FormsInv, Stamped
  <2>2. ReadsSound'
    BY DEF FormsInv, Copies, ReadsSound, Sound
  <2>3. FormsSound'
    BY DEF FormsInv, Copies, FormsSound, Sound
  <2> QED
    BY <2>1, <2>2, <2>3
<1>8. SavesSound'
  BY <1>2, <1>5 DEF FormsInv, Copies, SavesSound, Sound
<1>9. Written'
  BY <1>2, <1>5 DEF FormsInv, Written
<1>10. FreshAfterSave'
  <2> SUFFICES ASSUME NEW b \in Admins, busy'[b] # None, save'[busy'[b]].stage = "settled",
                      answer'[b][save'[busy'[b]].record] # None
               PROVE  answer'[b][save'[busy'[b]].record].base >= save'[busy'[b]].wrote
    BY DEF FreshAfterSave
  <2>1. busy'[b] = busy[b] /\ busy[b] \in Saves
    BY DEF FormsInv, FormsTypeOK
  <2>2. busy[b] # i
    BY <1>2, <1>5, <2>1
  <2>3. save'[busy[b]] = save[busy[b]] /\ save[busy[b]] \in Save
    BY <1>5, <2>1, <2>2 DEF FormsInv, FormsTypeOK
  <2>4. save[busy[b]].record \in Records
    BY <2>3 DEF Save
  <2>5. answer'[b][save[busy[b]].record] = answer[b][save[busy[b]].record]
    BY <2>1, <2>3, <2>4
  <2> QED
    BY <2>1, <2>3, <2>5 DEF FormsInv, FreshAfterSave
<1> QED
  BY <1>6, <1>7, <1>8, <1>9, <1>10 DEF FormsInv, Copies

\* The server refuses a save that is based on something else.
LEMMA RefuseInv ==
  ASSUME FormsInv, NEW i \in Saves, NEW o \in 0 .. MaxSkew, ServeSave(i, o), ~ Unchanged(save[i])
  PROVE  FormsInv'
<1>1. /\ save' = [save EXCEPT ![i].stage = "refused"] /\ save[i].stage = "sent"
      /\ UNCHANGED <<now, row, cache, answer, form, busy>>
  BY DEF ServeSave
<1>2. save[i] # Unused
  BY <1>1 DEF Unused
<1>3. /\ form' \in [Admins -> Form \cup {None}] /\ busy' \in [Admins -> Saves \cup {None}]
      /\ answer' \in [Admins -> [Records -> Copy \cup {None}]]
  BY <1>1 DEF FormsInv, FormsTypeOK
<1> QED
  <2>1. Staged(i, "refused")
    BY <1>1, <1>2, <1>3 DEF Staged
  <2> QED
    BY <2>1, StageInv DEF Stages

\* What is lost stays with the form (catch).
LEMMA LoseSaveInv ==
  ASSUME FormsInv, NEW i \in Saves, LoseSave(i)
  PROVE  FormsInv'
<1>1. /\ save' = [save EXCEPT ![i].stage = "lost"] /\ save[i].stage \in {"sent", "accepted"}
      /\ UNCHANGED <<now, row, cache, answer, form, busy>>
  BY DEF LoseSave
<1>2. save[i] # Unused
  BY <1>1 DEF Unused
<1>3. /\ form' \in [Admins -> Form \cup {None}] /\ busy' \in [Admins -> Saves \cup {None}]
      /\ answer' \in [Admins -> [Records -> Copy \cup {None}]]
  BY <1>1 DEF FormsInv, FormsTypeOK
<1> QED
  <2>1. Staged(i, "lost")
    BY <1>1, <1>2, <1>3 DEF Staged
  <2> QED
    BY <2>1, StageInv DEF Stages

\* invalidateQueries drops the read that was under way.
LEMMA AnswerAcceptedInv ==
  ASSUME FormsInv, NEW i \in Saves, AnswerAccepted(i)
  PROVE  FormsInv'
<1> DEFINE a == save[i].admin
<1> DEFINE k == save[i].record
<1>1. /\ save[i].stage = "accepted"
      /\ save' = [save EXCEPT ![i].stage = "settled"]
      /\ answer' = [answer EXCEPT ![a][k] = None]
      /\ \/ form' = form
         \/ busy[a] = i /\ form' = [form EXCEPT ![a] = None]
      /\ UNCHANGED <<now, row, cache, busy>>
  BY DEF AnswerAccepted
<1>2. save[i] # Unused
  BY <1>1 DEF Unused
<1>3. a \in Admins /\ k \in Records
  BY <1>2 DEF FormsInv, FormsTypeOK, Save
<1> HIDE DEF k
<1>4. /\ form' \in [Admins -> Form \cup {None}] /\ busy' \in [Admins -> Saves \cup {None}]
      /\ answer' \in [Admins -> [Records -> Copy \cup {None}]]
  BY <1>1, <1>3 DEF FormsInv, FormsTypeOK
<1>5. \A b \in Admins : busy[b] = i => b = a
  BY FormsAssumption DEF FormsInv, FormsTypeOK
<1> HIDE DEF a
<1>6. \A b \in Admins : form'[b] # None => form'[b] = form[b]
  BY <1>1, <1>3 DEF FormsInv, FormsTypeOK
<1>7. \A b \in Admins, j \in Records : answer'[b][j] # None => answer'[b][j] = answer[b][j]
  BY <1>1, <1>3 DEF FormsInv, FormsTypeOK
<1>8. \A b \in Admins : busy'[b] # None /\ ~(busy'[b] = i) => form'[b] = form[b]
  BY <1>1, <1>3 DEF FormsInv, FormsTypeOK
<1>9. \A b \in Admins : busy'[b] = i => answer'[b][save[i].record] = None
  <2>1. answer'[a][k] = None
    BY <1>1, <1>3 DEF FormsInv, FormsTypeOK
  <2> QED
    BY <1>1, <1>5, <2>1 DEF k
<1>10. Staged(i, "settled")
  <2>1. /\ save[i].stage # "settled" /\ UNCHANGED <<now, row, cache, busy>>
        /\ save' = [save EXCEPT ![i].stage = "settled"]
    BY <1>1
  <2> QED
    BY <1>2, <1>4, <1>6, <1>7, <1>8, <1>9, <2>1 DEF Staged
<1> QED
  BY <1>10, StageInv DEF Stages

\* The form that waited is free again.
LEMMA AnswerRefusedInv ==
  ASSUME FormsInv, NEW i \in Saves, AnswerRefused(i)
  PROVE  FormsInv'
<1> DEFINE a == save[i].admin
<1>1. /\ save[i].stage \in {"refused", "lost"}
      /\ save' = [save EXCEPT ![i].stage = "settled"]
      /\ busy' = IF busy[a] = i THEN [busy EXCEPT ![a] = None] ELSE busy
      /\ UNCHANGED <<now, row, cache, answer, form>>
  BY DEF AnswerRefused
<1>2. save[i] # Unused
  BY <1>1 DEF Unused
<1>3. a \in Admins
  BY <1>2 DEF FormsInv, FormsTypeOK, Save
<1>4. \A b \in Admins : busy[b] = i => b = a
  BY FormsAssumption DEF FormsInv, FormsTypeOK
<1> HIDE DEF a
<1>5. /\ form' \in [Admins -> Form \cup {None}] /\ busy' \in [Admins -> Saves \cup {None}]
      /\ answer' \in [Admins -> [Records -> Copy \cup {None}]]
  BY <1>1, <1>3 DEF FormsInv, FormsTypeOK
<1>6. \A b \in Admins : busy'[b] # None => busy'[b] = busy[b] /\ busy'[b] # i
  BY <1>1, <1>3, <1>4 DEF FormsInv, FormsTypeOK
<1>7. \A b \in Admins : busy'[b] # i
  BY <1>6, FormsAssumption
<1> QED
  <2>1. Staged(i, "settled")
    BY <1>1, <1>2, <1>5, <1>6, <1>7 DEF Staged
  <2> QED
    BY <2>1, StageInv DEF Stages

---------------------------------------------------------------------------
(* The theorems. *)

\* Time, and steps of others.
LEMMA TickInv == FormsInv /\ Tick => FormsInv'
<1> SUFFICES ASSUME FormsInv, Tick PROVE FormsInv'
  OBVIOUS
<1>1. now' = now + 1 /\ UNCHANGED <<row, cache, answer, form, busy, save>>
  BY DEF Tick
<1>2. FormsTypeOK'
  BY <1>1 DEF FormsInv, FormsTypeOK
<1> QED
  BY <1>1, <1>2 DEF FormsInv, Copies, Stamped, Written, ReadsSound, FormsSound, SavesSound,
       Sound, FreshAfterSave
LEMMA IdleInv == FormsInv /\ UNCHANGED formVars => FormsInv'
  BY DEF formVars, FormsInv, FormsTypeOK, Copies, Stamped, Written, ReadsSound, FormsSound,
       SavesSound, Sound, FreshAfterSave

LEMMA NextInv == FormsInv /\ [FormsNext]_formVars => FormsInv'
<1> SUFFICES ASSUME FormsInv, [FormsNext]_formVars PROVE FormsInv'
  OBVIOUS
<1>1. ASSUME NEW a \in Admins, NEW k \in Records, ServeRead(a, k) \/ ReadEnds(a, k) \/ Open(a, k)
      PROVE  FormsInv'
  BY <1>1, ServeReadInv, DeliverInv, FailReadInv, OpenInv DEF ReadEnds
<1>2. ASSUME NEW a \in Admins, Leave(a) PROVE FormsInv'
  BY <1>2, LeaveInv
<1>3. ASSUME NEW a \in Admins, NEW i \in Saves, Submit(a, i)
      PROVE  FormsInv'
  BY <1>3, SubmitInv
<1>4. ASSUME NEW i \in Saves, Settle(i) \/ Answered(i) PROVE FormsInv'
  BY <1>4, AcceptInv, RefuseInv, LoseSaveInv, AnswerAcceptedInv, AnswerRefusedInv
     DEF Settle, Answered
<1>5. ASSUME NEW a \in Admins, NEW v \in Values, EditPage(a, v) \/ EditDialog(a, v)
      PROVE  FormsInv'
  BY <1>5, EditInv
<1> QED
  BY <1>1, <1>2, <1>3, <1>4, <1>5, TickInv, IdleInv DEF FormsNext

\* The invariant holds whatever administrators, networks and clocks do.
THEOREM FormsInvariance == FormsSpec => []FormsInv
  BY InitInv, NextInv, PTL DEF FormsSpec

\* A console waits only for a save of its own, over the draft it sent.
THEOREM FormsTyped == FormsSpec => []FormsTypeOK
<1>1. FormsInv => FormsTypeOK
  BY DEF FormsInv
<1> QED
  BY <1>1, FormsInvariance, PTL

\* updated_at tells contents apart (saveSetting, updateEndpoint, the form keys).
THEOREM StampsCorrect == FormsSpec => []StampsTell
<1>1. FormsInv => StampsTell
  <2> SUFFICES ASSUME FormsInv, NEW k \in Records
               PROVE  /\ \A a \in Admins :
                           /\ cache[a][k] # None => Tells(k, cache[a][k])
                           /\ answer[a][k] # None => Tells(k, answer[a][k])
                           /\ form[a] # None /\ form[a].record = k => Tells(k, form[a])
                      /\ \A i \in Saves : save[i] # Unused /\ save[i].record = k => Tells(k, save[i])
    BY DEF StampsTell
  <2>1. row[k].at \in Nat /\ row[k].edition \in Nat
    BY DEF FormsInv, FormsTypeOK, Row
  <2>2. ASSUME NEW c, Sound(k, c) PROVE Tells(k, c)
    BY <2>1, <2>2 DEF Sound, Tells
  <2> QED
    BY <2>2 DEF FormsInv, Copies, ReadsSound, FormsSound, SavesSound
<1> QED
  BY <1>1, FormsInvariance, PTL

\* After its save a form is not shown anything older (useSaveSettings).
THEOREM FreshCorrect == FormsSpec => []FreshAfterSave
<1>1. FormsInv => FreshAfterSave
  BY DEF FormsInv
<1> QED
  BY <1>1, FormsInvariance, PTL

---------------------------------------------------------------------------
(* Refinement.  Records without their stamps are contents with editions, and *)
(* a save is an attempt that is open until a replica has decided on it.       *)
Contents == [k \in Records |-> row[k].value]
Numbers == [k \in Records |-> row[k].edition]

\* What becomes of an attempt depends on the save alone.
LEMMA AttemptFacts ==
  /\ AttemptOf(Unused) = [stage |-> "none"]
  /\ \A s : s # Unused /\ s.stage = "sent" =>
       AttemptOf(s) = [stage |-> "open", record |-> s.record, value |-> s.value, base |-> s.base]
  /\ \A s : s # Unused /\ s.stage # "sent" => AttemptOf(s) = [stage |-> "decided"]
  BY DEF AttemptOf, Unused

\* One save changes, one attempt does.
LEMMA OneAttempt ==
  ASSUME NEW i \in Saves, NEW s, save \in [Saves -> Save \cup {Unused}], save' = [save EXCEPT ![i] = s]
  PROVE  Attempts' = [Attempts EXCEPT ![i] = AttemptOf(s)]
<1>1. \A j \in Saves : save'[j] = IF j = i THEN s ELSE save[j]
  OBVIOUS
<1>2. \A j \in Saves : AttemptOf(save[j])' = AttemptOf(IF j = i THEN s ELSE save[j])
  BY <1>1 DEF AttemptOf, Unused
<1> QED
  BY <1>2 DEF Attempts

LEMMA RefineInit == FormsInit => Ideal!EditionsInit
<1> SUFFICES ASSUME FormsInit PROVE Ideal!EditionsInit
  OBVIOUS
<1>1. Contents \in [Records -> Values] /\ Numbers = [k \in Records |-> 0]
  BY DEF FormsInit, Contents, Numbers
<1>2. Attempts = [i \in Saves |-> [stage |-> "none"]]
  BY AttemptFacts DEF FormsInit, Attempts
<1> QED
  BY <1>1, <1>2 DEF Ideal!EditionsInit, Ideal!NotMade, Contents, Numbers

\* A draft names the edition its form was filled with (settingResponse).
LEMMA RefineSubmit ==
  ASSUME FormsInv, NEW a \in Admins, NEW i \in Saves, Submit(a, i)
  PROVE  Ideal!EditionsNext
<1> DEFINE f == form[a]
<1> DEFINE s == [stage |-> "sent", admin |-> a, record |-> f.record, value |-> f.value,
                 at |-> f.at, base |-> f.base, wrote |-> 0]
<1>1. f # None /\ save[i] = Unused /\ save' = [save EXCEPT ![i] = s] /\ row' = row
  BY DEF Submit, Editable
<1>2. /\ f \in Form /\ f.record \in Records /\ f.value \in Values /\ f.base \in Nat
      /\ row[f.record].edition \in Nat
  BY <1>1 DEF FormsInv, FormsTypeOK, Form, Row
<1>3. f.base \in 0 .. Numbers[f.record]
  <2>1. Sound(f.record, f)
    BY <1>1 DEF FormsInv, Copies, FormsSound
  <2> QED
    BY <1>2, <2>1 DEF Sound, Numbers
<1>4. AttemptOf(s) = [stage |-> "open", record |-> f.record, value |-> f.value, base |-> f.base]
  <2>1. s # Unused /\ s.stage = "sent"
    BY DEF Unused
  <2>2. s.record = f.record /\ s.value = f.value /\ s.base = f.base
    OBVIOUS
  <2> HIDE DEF s
  <2> QED
    BY <2>1, <2>2, AttemptFacts
<1> HIDE DEF s, f
<1>5. Attempts[i] = Ideal!NotMade
  BY <1>1, AttemptFacts DEF Attempts, Ideal!NotMade
<1>6. Attempts' = [Attempts EXCEPT ![i] = AttemptOf(s)]
  BY <1>1, OneAttempt DEF FormsInv, FormsTypeOK
<1>7. Ideal!Propose(i, f.record, f.value, f.base)
  BY <1>1, <1>4, <1>5, <1>6 DEF Ideal!Propose
<1> QED
  BY <1>2, <1>3, <1>7 DEF Ideal!EditionsNext, Numbers

\* An accepted save replaces the edition it is based on (updatePolicy, updateSite, updateEndpoint).
LEMMA RefineAccept ==
  ASSUME FormsInv, NEW i \in Saves, NEW o \in 0 .. MaxSkew, ServeSave(i, o), Unchanged(save[i])
  PROVE  Ideal!EditionsNext
<1> DEFINE k == save[i].record
<1> DEFINE e == row[k].edition
<1> DEFINE r == [value |-> save[i].value, at |-> now + o, edition |-> e + 1, born |-> now]
<1> DEFINE s == [save[i] EXCEPT !.stage = "accepted", !.wrote = e + 1]
<1>1. /\ k \in Records /\ save[i] \in Save /\ save[i].base = e
      /\ row' = [row EXCEPT ![k] = r]
  BY Serves
<1>2. save' = [save EXCEPT ![i] = s]
  BY Serves
<1>3. save[i].stage = "sent" /\ save[i] # Unused
  BY DEF ServeSave, Unused
<1>4. s # Unused /\ s.stage # "sent"
  BY <1>1 DEF Save, Unused
<1>5. r.value = save[i].value /\ r.edition = e + 1
  OBVIOUS
<1> HIDE DEF r, s
<1>6. \A j \in Records : row'[j] = IF j = k THEN r ELSE row[j]
  BY <1>1 DEF FormsInv, FormsTypeOK
<1>7. /\ Contents' = [Contents EXCEPT ![k] = save[i].value]
      /\ Numbers' = [Numbers EXCEPT ![k] = @ + 1]
  <2> HIDE DEF k
  <2>1. Contents' = [j \in Records |-> IF j = k THEN r.value ELSE row[j].value]
    BY <1>6 DEF Contents
  <2>2. Numbers' = [j \in Records |-> IF j = k THEN r.edition ELSE row[j].edition]
    BY <1>6 DEF Numbers
  <2>3. Contents' = [Contents EXCEPT ![k] = r.value]
    BY <1>1, <2>1 DEF Contents
  <2>4. Numbers' = [Numbers EXCEPT ![k] = @ + 1]
    BY <1>1, <1>5, <2>2 DEF Numbers
  <2> QED
    BY <1>5, <2>3, <2>4
<1>8. Attempts[i] = [stage |-> "open", record |-> k, value |-> save[i].value, base |-> e]
  BY <1>1, <1>3, AttemptFacts DEF Attempts
<1>9. Attempts' = [Attempts EXCEPT ![i] = Ideal!Decided]
  <2>1. AttemptOf(s) = Ideal!Decided
    BY <1>4, AttemptFacts DEF Ideal!Decided
  <2>2. Attempts' = [Attempts EXCEPT ![i] = AttemptOf(s)]
    BY <1>2, OneAttempt DEF FormsInv, FormsTypeOK
  <2> QED
    BY <2>1, <2>2
<1> HIDE DEF k
<1>10. Numbers[k] = e
  BY <1>1 DEF Numbers
<1>11. Ideal!Accept(i)
  BY <1>7, <1>8, <1>9, <1>10 DEF Ideal!Accept, Contents, Numbers
<1> QED
  BY <1>11 DEF Ideal!EditionsNext

\* A save that is refused or lost before a replica has seen it comes to nothing.
LEMMA RefineRefuse ==
  ASSUME FormsInv, NEW i \in Saves, save[i].stage = "sent", NEW g \in Stages,
         save' = [save EXCEPT ![i].stage = g], row' = row
  PROVE  Ideal!EditionsNext
<1> DEFINE s == [save[i] EXCEPT !.stage = g]
<1>1. save[i] # Unused
  BY DEF Unused
<1>2. save[i] \in Save
  BY <1>1 DEF FormsInv, FormsTypeOK
<1>3. s # Unused /\ s.stage # "sent"
  BY <1>2 DEF Save, Unused, Stages
<1>4. save' = [save EXCEPT ![i] = s]
  OBVIOUS
<1> HIDE DEF s
<1>5. Attempts[i].stage = "open"
  BY <1>1, AttemptFacts DEF Attempts
<1>6. Attempts' = [Attempts EXCEPT ![i] = Ideal!Decided]
  <2>1. AttemptOf(s) = Ideal!Decided
    BY <1>3, AttemptFacts DEF Ideal!Decided
  <2>2. Attempts' = [Attempts EXCEPT ![i] = AttemptOf(s)]
    BY <1>4, OneAttempt DEF FormsInv, FormsTypeOK
  <2> QED
    BY <2>1, <2>2
<1>7. Ideal!Refuse(i)
  BY <1>5, <1>6 DEF Ideal!Refuse
<1> QED
  BY <1>7 DEF Ideal!EditionsNext

\* An attempt that is decided stays so, whatever the answer becomes.
LEMMA RefineDecided ==
  ASSUME FormsInv, NEW i \in Saves, save[i] # Unused, save[i].stage # "sent", NEW g \in Stages,
         save' = [save EXCEPT ![i].stage = g], row' = row
  PROVE  UNCHANGED Ideal!editionVars
<1> DEFINE s == [save[i] EXCEPT !.stage = g]
<1>1. save[i] \in Save
  BY DEF FormsInv, FormsTypeOK
<1>2. s # Unused /\ s.stage # "sent"
  BY <1>1 DEF Save, Unused, Stages
<1>3. save' = [save EXCEPT ![i] = s]
  OBVIOUS
<1> HIDE DEF s
<1>4. AttemptOf(s) = Attempts[i]
  BY <1>2, AttemptFacts DEF Attempts
<1>5. Attempts' = [Attempts EXCEPT ![i] = AttemptOf(s)]
  BY <1>3, OneAttempt DEF FormsInv, FormsTypeOK
<1>6. Attempts' = Attempts
  BY <1>4, <1>5 DEF Attempts
<1> QED
  BY <1>6 DEF Ideal!editionVars

LEMMA RefineIdle ==
  ASSUME UNCHANGED <<row, save>>
  PROVE  UNCHANGED Ideal!editionVars
  BY DEF Ideal!editionVars, Attempts, AttemptOf

LEMMA RefineNext ==
  ASSUME FormsInv, [FormsNext]_formVars
  PROVE  [Ideal!EditionsNext]_(Ideal!editionVars)
<1>1. ASSUME NEW a \in Admins, NEW k \in Records, ServeRead(a, k) \/ ReadEnds(a, k) \/ Open(a, k)
      PROVE  UNCHANGED <<row, save>>
  BY <1>1 DEF ServeRead, ReadEnds, Deliver, FailRead, Open
<1>2. ASSUME NEW a \in Admins, Leave(a) PROVE UNCHANGED <<row, save>>
  BY <1>2 DEF Leave
<1>3. Tick \/ UNCHANGED formVars => UNCHANGED <<row, save>>
  BY DEF Tick, formVars
<1>4. ASSUME NEW a \in Admins, NEW i \in Saves, Submit(a, i)
      PROVE  Ideal!EditionsNext
  BY <1>4, RefineSubmit
<1>5. ASSUME NEW i \in Saves, NEW o \in 0 .. MaxSkew, ServeSave(i, o)
      PROVE  Ideal!EditionsNext
  <2>1. CASE Unchanged(save[i])
    BY <1>5, <2>1, RefineAccept
  <2>2. CASE ~ Unchanged(save[i])
    <3>1. save[i].stage = "sent" /\ save' = [save EXCEPT ![i].stage = "refused"] /\ row' = row
      BY <1>5, <2>2 DEF ServeSave
    <3> QED
      BY <3>1, RefineRefuse DEF Stages
  <2> QED
    BY <2>1, <2>2
<1>6. ASSUME NEW i \in Saves, LoseSave(i)
      PROVE  Ideal!EditionsNext \/ UNCHANGED Ideal!editionVars
  <2>1. save' = [save EXCEPT ![i].stage = "lost"] /\ row' = row
    BY <1>6 DEF LoseSave
  <2>2. CASE save[i].stage = "sent"
    BY <2>1, <2>2, RefineRefuse DEF Stages
  <2>3. CASE save[i].stage = "accepted"
    <3>1. save[i] # Unused /\ save[i].stage # "sent" /\ "lost" \in Stages
      BY <2>3 DEF Unused, Stages
    <3> QED
      BY <2>1, <3>1, RefineDecided
  <2> QED
    BY <1>6, <2>2, <2>3 DEF LoseSave
<1>7. ASSUME NEW i \in Saves, Answered(i) PROVE UNCHANGED Ideal!editionVars
  <2>1. /\ save' = [save EXCEPT ![i].stage = "settled"] /\ row' = row
        /\ save[i].stage \in {"accepted", "refused", "lost"}
    BY <1>7 DEF Answered, AnswerAccepted, AnswerRefused
  <2>2. save[i] # Unused /\ save[i].stage # "sent" /\ "settled" \in Stages
    BY <2>1 DEF Unused, Stages
  <2> QED
    BY <2>1, <2>2, RefineDecided
<1>8. ASSUME NEW a \in Admins, NEW v \in Values, EditPage(a, v) \/ EditDialog(a, v)
      PROVE  UNCHANGED <<row, save>>
  BY <1>8 DEF EditPage, EditDialog, Edit
<1> QED
  BY <1>1, <1>2, <1>3, <1>4, <1>5, <1>6, <1>7, <1>8, RefineIdle DEF FormsNext, Settle

\* The optimistic saves of the console behave as edition numbers would: time
\* stamps, copies, lost answers and remounted forms make no difference.
THEOREM FormsRefine == FormsSpec => ImplementsEditions
<1>1. FormsInv /\ [FormsNext]_formVars => [Ideal!EditionsNext]_(Ideal!editionVars)
  BY RefineNext
<1> QED
  BY <1>1, RefineInit, FormsInvariance, PTL DEF FormsSpec, ImplementsEditions, Ideal!EditionsSpec
=============================================================================
