---------------------------- MODULE SecretMap_proofs ----------------------------
(***************************************************************************)
(* One command at a time, the secret store is the map its user is          *)
(* promised: an edit delivers what it asks for, a switch changes nothing,  *)
(* and, as long as the keyring is not left, every step is a step of        *)
(* SecretMap, whatever fails and wherever a command dies.  Certificates    *)
(* are the exception all three state: a key without one may be given one   *)
(* of an earlier key of its owner.                                         *)
(*                                                                         *)
(* What a body reads as depends on the key at hand; what it yields to      *)
(* whoever has the key does not, and bodies that fit their config read as  *)
(* they yield.  So the transforms are shown to keep what bodies yield, and *)
(* CopiesFit turns that into what connections read.                        *)
(***************************************************************************)
EXTENDS SecretStore_proofs

\* One command at a time: the next starts when the one before it is over.
OneCommand == Tui = {} /\ \A p, q \in Procs : p = q

\* What a body and its row hold, to whoever has the key.
Yields(b, row) == [s \in Slot |-> IF InRing(b, s) THEN row[s] ELSE b.sec[s].val]

\* What a migration finds in a slot: a key that has no certificate is given the one
\* of the owner's entry.
Found(b, row, s) == IF Bereft(b, s) THEN row[s] ELSE Yields(b, row)[s]

\* A slot has a form when it has a text, and a marker takes the place of the text.
Formed(b) ==
    /\ \A s \in Slot : Form(b, s) = "none" <=> b.sec[s].val = Nil
    /\ \A s \in Slot : InRing(b, s) => Form(b, s) = "none"

\* An inline key that is not marked and has lost its text has no entry either.
NoStray(b, row) ==
    b.kind = "inline" /\ ~b.keyMarked /\ Form(b, "priv") = "none" => row["priv"] = Nil

\* Markers are those of the mode.
MarksFit(b, mode) == IF mode = "keyring" THEN b.kind = "inline" => b.keyMarked
                     ELSE \A s \in Slot : ~InRing(b, s)

\* A body and its row, as they are between commands.
BodyOK(b, row, mode) == Formed(b) /\ NoStray(b, row) /\ MarksFit(b, mode)

\* A config, with the keyring and the ids given out when it is saved.
ConfigOK(c, rows, given) ==
    /\ Present(c) \subseteq given
    /\ \A o \in Owners : BodyOK(c.body[o], rows[o], c.mode)

\* An owner not yet given out has no entries.
RingOK(rows, given) == \A o \in Owners : o \notin given => rows[o] = NoTexts

\* Two bodies that differ in their encryption at most.
Alike(b, c) ==
    /\ b.kind = c.kind /\ b.marked = c.marked /\ b.keyMarked = c.keyMarked
    /\ \A s \in Slot : /\ b.sec[s].val = c.sec[s].val
                       /\ Form(b, s) = "none" <=> Form(c, s) = "none"

\* A copy c of d half way through a switch: what is to do is as the file has it.
HalfOK(c, j, d, rows) ==
    /\ j.asks = NoAsks
    /\ j.todo \subseteq Present(c)
    /\ \A o \in Owners :
          /\ c.body[o].kind = d.body[o].kind
          /\ IF o \in j.todo THEN Alike(c.body[o], d.body[o])
             ELSE BodyOK(c.body[o], rows[o], j.target)

\* The config an edit is about to save: the owners it concerns hold what it asks,
\* a certificate taken over from an earlier key, or, if the keyring may fail, what
\* they held.
EditOK(j, d, rows) ==
    /\ j.next.mode = d.mode /\ j.next.vaultKey = d.vaultKey
    /\ \A o \in Owners :
          IF o \in DOMAIN j.asks
          THEN \A s \in Slot :
                  \/ Yields(j.next.body[o], rows[o])[s] = j.asks[o][s]
                  \/ TakenOver(j.next.body[o], s, j.asks[o][s])
                  \/ /\ "keyring" \in Faults
                     /\ Yields(j.next.body[o], rows[o])[s] = Yields(d.body[o], rows[o])[s]
          ELSE j.next.body[o] = d.body[o]

\* The command's copy is the file's while it has nothing under way; what it may save
\* is as the file has to be.
CommandOK(p) ==
    /\ pc[p] = "ready" => mem[p] = disk
    /\ pc[p] = "migrating" => HalfOK(mem[p], job[p], disk, ring)
    /\ pc[p] = "saving" => /\ ConfigOK(ToSave(p), ring, minted)
                           /\ IF job[p].op = "edit" THEN EditOK(job[p], disk, ring)
                              ELSE job[p].asks = NoAsks

\* The inductive invariant of commands that come one at a time.
OneInv == /\ RingOK(ring, minted)
          /\ ConfigOK(disk, ring, minted)
          /\ \A p \in Procs : CommandOK(p)

\* Every owner yields the same in both configs, or has a certificate it had not.
SameYields(c, d, rows) ==
    \A o \in Owners, s \in Slot :
        \/ Yields(c.body[o], rows[o])[s] = Yields(d.body[o], rows[o])[s]
        \/ s = "cert" /\ Yields(d.body[o], rows[o])[s] = Nil

\* As long as the keyring is not left, what a switch has moved and what it has not
\* yield what the file does, before its save and after.
SwitchOK(p) ==
    /\ pc[p] = "migrating" => disk.mode # "keyring" /\ SameYields(mem[p], disk, ring)
    /\ pc[p] = "saving" /\ job[p].op # "edit" => SameYields(mem[p], disk, ring)
MapInv == \A p \in Procs : SwitchOK(p)

\* No command leaves keyring mode: that deletes entries before anything is saved.
KeyringKept == \A p \in Procs, t \in Modes : Switch(p, t) => mem[p].mode # "keyring"
-------------------------------------------------------------------------------
(* What bodies yield.                                                         *)

\* With the key a body is under, a connection reads what the body yields.
LEMMA UnlockedReads ==
    ASSUME NEW b, NEW row, NEW key, \A s \in Slot : ~Locked(b, s, key)
    PROVE  Reads(b, row, key) = Yields(b, row)
BY DEF Reads, Yields, Locked

\* So it is for the bodies of a config that fits.
LEMMA FitReads ==
    ASSUME NEW b, NEW row, NEW mode, NEW key, BodyFits(b, mode, key)
    PROVE  Reads(b, row, key) = Yields(b, row)
BY UnlockedReads DEF BodyFits, Locked

\* The slots by name.
LEMMA Slots == /\ "pw" \in Slot /\ "pw" \notin KeySlot
               /\ \A s \in Slot : s # "pw" <=> s \in KeySlot
               /\ KeySlot \subseteq Slot
               /\ "priv" \in KeySlot /\ "cert" \in KeySlot
               /\ \A s \in KeySlot : s \in {"priv", "cert"}
BY DEF Slot, KeySlot

\* A text as a mode holds it: the same text, or none in keyring mode.
LEMMA FinalizeHolds ==
    ASSUME NEW v, NEW mode, NEW key
    PROVE  /\ Finalize(v, mode, key).val = IF mode = "keyring" THEN Nil ELSE v
           /\ Finalize(v, mode, key).form = "none" <=> mode = "keyring" \/ v = Nil
BY DEF Finalize, NoSecret, Plain, Enc

\* An owner that is not there yields nothing, whatever its row.
LEMMA GoneYields ==
    ASSUME NEW b \in Body, Tidy(b), Formed(b), b.kind = "absent", NEW row
    PROVE  /\ Yields(b, row) = NoTexts
           /\ \A s \in Slot : ~InRing(b, s)
<1>1. \A s \in Slot : ~InRing(b, s) /\ ~Carries(b, s)
  BY DEF Tidy, Carries, InRing
<1>2. \A s \in Slot : b.sec[s].val = Nil
  BY <1>1 DEF Tidy, Formed
<1> QED BY <1>1, <1>2 DEF Yields, NoTexts

\* The owner that is not there, as edits write it.
LEMMA AbsentOK ==
    /\ \A row, mode : BodyOK(Absent, row, mode)
    /\ \A row : Yields(Absent, row) = NoTexts
<1>1. /\ Absent.kind = "absent" /\ Absent.marked = FALSE /\ Absent.keyMarked = FALSE
      /\ \A s \in Slot : Absent.sec[s].val = Nil /\ Form(Absent, s) = "none"
  BY DEF Absent, Bare, NoSecret, Form
<1>2. \A s \in Slot : ~InRing(Absent, s)
  BY <1>1 DEF InRing
<1> QED BY <1>1, <1>2, Slots DEF BodyOK, Formed, NoStray, MarksFit, Yields, NoTexts

\* Bodies that differ in their encryption only are as good as one another.
LEMMA AlikeOK ==
    ASSUME NEW b, NEW c, Alike(b, c), NEW row
    PROVE  /\ \A s \in Slot : InRing(b, s) <=> InRing(c, s)
           /\ Yields(b, row) = Yields(c, row)
           /\ Formed(c) => Formed(b)
           /\ NoStray(c, row) <=> NoStray(b, row)
<1>1. \A s \in Slot : InRing(b, s) <=> InRing(c, s)
  BY DEF Alike, InRing
<1>2. Yields(b, row) = Yields(c, row)
  BY <1>1 DEF Alike, Yields
<1>3. Formed(c) => Formed(b)
  BY <1>1, Slots DEF Alike, Formed
<1>4. NoStray(c, row) <=> NoStray(b, row)
  BY Slots DEF Alike, NoStray
<1> QED BY <1>1, <1>2, <1>3, <1>4

\* Decrypting changes the encryption only.
LEMMA DecryptedAlike == ASSUME NEW b \in Body PROVE Alike(DecryptedBody(b), b)
<1> DEFINE secs == [s \in Slot |-> IF Form(b, s) = "enc" THEN Plain(b.sec[s].val) ELSE b.sec[s]]
<1>1. DecryptedBody(b) = [b EXCEPT !.sec = secs]
  BY DEF DecryptedBody
<1>2. \A s \in Slot : /\ secs[s].val = b.sec[s].val
                      /\ secs[s].form = "none" <=> b.sec[s].form = "none"
  BY DEF Plain, Form
<1> HIDE DEF secs
<1> QED BY <1>1, <1>2 DEF Alike, Body, Form
-------------------------------------------------------------------------------
(* Migrating a body.                                                          *)

\* The fields of a migrated body.
LEMMA MovedFields ==
    ASSUME NEW b \in Body, NEW row, NEW mode, NEW key
    PROVE  LET c == MovedBody(b, row, mode, key)
           IN  /\ c.kind = b.kind
               /\ c.marked <=> Carries(b, "pw") /\ mode = "keyring"
               /\ c.keyMarked <=> b.kind = "inline" /\ mode = "keyring"
               /\ \A s \in Slot : c.sec[s] = IF Carries(b, s)
                                             THEN Finalize(Text(b, row, s), mode, key)
                                             ELSE b.sec[s]
<1> DEFINE secs == [s \in Slot |-> IF Carries(b, s)
                                   THEN Finalize(Text(b, row, s), mode, key) ELSE b.sec[s]]
           mark == Carries(b, "pw") /\ mode = "keyring"
           keyMark == b.kind = "inline" /\ mode = "keyring"
           c == MovedBody(b, row, mode, key)
<1>1. c = [b EXCEPT !.sec = secs, !.marked = mark, !.keyMarked = keyMark]
  BY DEF MovedBody
<1> HIDE DEF secs, mark, keyMark
<1>2. c.kind = b.kind /\ c.marked = mark /\ c.keyMarked = keyMark /\ c.sec = secs
  <2> HIDE DEF c
  <2> QED BY <1>1 DEF Body
<1> HIDE DEF c
<1>3. \A s \in Slot : secs[s] = IF Carries(b, s)
                                THEN Finalize(Text(b, row, s), mode, key) ELSE b.sec[s]
  BY DEF secs
<1>4. (mark <=> Carries(b, "pw") /\ mode = "keyring")
      /\ (keyMark <=> b.kind = "inline" /\ mode = "keyring")
  BY DEF mark, keyMark
<1>5. /\ c.kind = b.kind
      /\ c.marked <=> Carries(b, "pw") /\ mode = "keyring"
      /\ c.keyMarked <=> b.kind = "inline" /\ mode = "keyring"
      /\ \A s \in Slot : c.sec[s] = IF Carries(b, s)
                                    THEN Finalize(Text(b, row, s), mode, key)
                                    ELSE b.sec[s]
  BY <1>2, <1>3, <1>4
<1> QED BY <1>5 DEF c

\* There is nothing in the slots that a migration does not move.
LEMMA TextFound ==
    ASSUME NEW b \in Body, Tidy(b), Formed(b), NEW row, NoStray(b, row), NEW s \in Slot
    PROVE  /\ Carries(b, s) => Text(b, row, s) = Found(b, row, s)
           /\ ~Carries(b, s) => ~InRing(b, s) /\ b.sec[s].val = Nil /\ Form(b, s) = "none"
           /\ Bereft(b, s) => ~InRing(b, s) /\ b.sec[s].val = Nil
<1>0. /\ Found(b, row, s) = IF Bereft(b, s) THEN row[s] ELSE Yields(b, row)[s]
      /\ Yields(b, row)[s] = IF InRing(b, s) THEN row[s] ELSE b.sec[s].val
      /\ "pw" # "cert"
  BY DEF Found, Yields
<1>1. CASE s = "pw"
  BY <1>0, <1>1 DEF Carries, Text, InRing, Formed, Bereft
<1>2. CASE s # "pw"
  <2>1. s \in KeySlot /\ s \in {"priv", "cert"}
    BY <1>2, Slots
  <2>2. ~Carries(b, s) => ~InRing(b, s) /\ b.sec[s].val = Nil /\ Form(b, s) = "none"
    BY <1>2 DEF Carries, InRing, Tidy, Formed
  <2>3. ASSUME b.kind = "inline", Form(b, s) = "none"
        PROVE  Text(b, row, s) = Found(b, row, s)
    <3>1. Text(b, row, s) = row[s]
      BY <1>2, <2>3 DEF Text
    <3>2. CASE b.keyMarked
      BY <1>0, <1>2, <2>3, <3>1, <3>2 DEF InRing
    <3>3. CASE ~b.keyMarked /\ s = "cert"
      BY <1>0, <2>3, <3>1, <3>3 DEF Bereft
    <3>4. CASE ~b.keyMarked /\ s = "priv"
      <4>1. row[s] = Nil /\ b.sec[s].val = Nil
        BY <2>3, <3>4 DEF NoStray, Formed
      <4> QED BY <1>0, <1>2, <3>1, <3>4, <4>1 DEF InRing
    <3> QED BY <2>1, <3>2, <3>3, <3>4
  <2>4. ASSUME b.kind = "inline", Form(b, s) # "none"
        PROVE  Text(b, row, s) = Found(b, row, s)
    <3>1. ~InRing(b, s) /\ ~Bereft(b, s)
      BY <2>4 DEF Formed, Bereft
    <3> QED BY <1>0, <1>2, <2>4, <3>1 DEF Text
  <2>5. Bereft(b, s) => ~InRing(b, s) /\ b.sec[s].val = Nil
    BY <1>2 DEF Bereft, InRing, Formed
  <2> QED BY <1>2, <2>2, <2>3, <2>4, <2>5 DEF Carries
<1> QED BY <1>1, <1>2

\* A best-effort delete leaves a slot as it was or as it should be.
LEMMA KeptSlots ==
    ASSUME NEW old, NEW new, NEW row \in Kept(old, new)
    PROVE  \A s \in Slot : row[s] = new[s] \/ (new[s] = Nil /\ row[s] = old[s])
<1>1. PICK K \in IF "keyring" \in Faults THEN SUBSET {s \in Slot : new[s] = Nil} ELSE {{}} :
         row = [s \in Slot |-> IF s \in K THEN old[s] ELSE new[s]]
  BY DEF Kept
<1>2. \A s \in K : s \in Slot /\ new[s] = Nil
  BY <1>1
<1> QED BY <1>1, <1>2

\* The entries a migration leaves: in keyring mode what it found in each slot, else
\* nothing or what was there.
LEMMA MovedEntries ==
    ASSUME NEW b \in Body, Tidy(b), Formed(b), NEW row, NoStray(b, row), NEW mode,
           NEW after \in Kept(row, MovedRow(b, row, mode)), NEW s \in Slot
    PROVE  /\ mode = "keyring" /\ Carries(b, s) => after[s] = Found(b, row, s)
           /\ mode # "keyring" \/ ~Carries(b, s) => after[s] \in {Nil, row[s]}
           /\ after[s] \in {Nil, row[s], b.sec[s].val}
<1>1. MovedRow(b, row, mode)[s] = IF ~Carries(b, s) THEN row[s]
                                  ELSE IF mode = "keyring" THEN Text(b, row, s)
                                  ELSE IF s = "pw" /\ ~b.marked THEN row[s] ELSE Nil
  BY DEF MovedRow
<1>2. \/ after[s] = MovedRow(b, row, mode)[s]
      \/ MovedRow(b, row, mode)[s] = Nil /\ after[s] = row[s]
  BY KeptSlots
<1>3. Carries(b, s) => Text(b, row, s) = Found(b, row, s)
  BY TextFound
<1>4. Found(b, row, s) = IF Bereft(b, s) \/ InRing(b, s) THEN row[s] ELSE b.sec[s].val
  BY DEF Found, Yields
<1>5. ASSUME mode = "keyring", Carries(b, s), Found(b, row, s) = Nil
      PROVE  row[s] = Nil \/ after[s] = Nil
  <2>1. CASE InRing(b, s) \/ Bereft(b, s)
    BY <1>4, <1>5, <2>1
  <2>2. CASE ~InRing(b, s) /\ ~Bereft(b, s)
    <3>1. Form(b, s) = "none"
      BY <1>4, <1>5, <2>2 DEF Formed
    <3>2. s # "pw" /\ b.kind = "inline" /\ ~b.keyMarked
      BY <1>5, <2>2, <3>1 DEF InRing, Carries
    <3>3. s = "priv"
      BY <2>2, <3>1, <3>2, Slots DEF Bereft
    <3> QED BY <3>1, <3>2, <3>3 DEF NoStray
  <2> QED BY <2>1, <2>2
<1> QED BY <1>1, <1>2, <1>3, <1>4, <1>5

\* A migrated body yields what was found and is as it should be under the target
\* mode; one in the file that has not moved stays well backed.  No certificate
\* comes from elsewhere.
LEMMA MigrationKeeps ==
    ASSUME NEW b \in Body, Tidy(b), Formed(b), NEW row \in Row, NoStray(b, row),
           NEW mode \in Mode, NEW key,
           NEW after \in Kept(row, MovedRow(b, row, mode))
    PROVE  /\ \A s \in Slot : Yields(MovedBody(b, row, mode, key), after)[s] = Found(b, row, s)
           /\ BodyOK(MovedBody(b, row, mode, key), after, mode)
           /\ NoStray(b, after)
           /\ after["cert"] \in {Nil, row["cert"], b.sec["cert"].val}
           /\ MovedBody(b, row, mode, key).sec["cert"].val
                 \in {Nil, row["cert"], b.sec["cert"].val}
<1> DEFINE c == MovedBody(b, row, mode, key)
<1>1. /\ c.kind = b.kind
      /\ c.marked <=> Carries(b, "pw") /\ mode = "keyring"
      /\ c.keyMarked <=> b.kind = "inline" /\ mode = "keyring"
      /\ \A s \in Slot : c.sec[s] = IF Carries(b, s)
                                    THEN Finalize(Text(b, row, s), mode, key) ELSE b.sec[s]
  BY MovedFields
<1>2. \A s \in Slot :
         /\ Carries(b, s) => Text(b, row, s) = Found(b, row, s)
         /\ ~Carries(b, s) => ~InRing(b, s) /\ b.sec[s].val = Nil /\ Form(b, s) = "none"
  BY TextFound
<1>3. \A s \in Slot :
         /\ mode = "keyring" /\ Carries(b, s) => after[s] = Found(b, row, s)
         /\ mode # "keyring" \/ ~Carries(b, s) => after[s] \in {Nil, row[s]}
         /\ after[s] \in {Nil, row[s], b.sec[s].val}
  BY MovedEntries
<1> HIDE DEF c
<1>4. \A s \in Slot : InRing(c, s) <=> Carries(b, s) /\ mode = "keyring"
  BY <1>1 DEF InRing, Carries
<1>5. \A s \in Slot :
         /\ c.sec[s].val = IF Carries(b, s) /\ mode # "keyring" THEN Found(b, row, s) ELSE Nil
         /\ Form(c, s) = "none" <=> c.sec[s].val = Nil
  <2> TAKE s \in Slot
  <2>1. CASE Carries(b, s)
    BY <1>1, <1>2, <2>1, FinalizeHolds DEF Form
  <2>2. CASE ~Carries(b, s)
    BY <1>1, <1>2, <2>2 DEF Form
  <2> QED BY <2>1, <2>2
<1>6. \A s \in Slot : /\ ~Carries(b, s) => Found(b, row, s) = Nil
                      /\ Found(b, row, s) \in {row[s], b.sec[s].val}
  <2> TAKE s \in Slot
  <2>1. Bereft(b, s) => Carries(b, s)
    BY DEF Bereft, Carries
  <2> QED BY <1>2, <2>1 DEF Found, Yields
<1>7. \A s \in Slot : Yields(c, after)[s] = Found(b, row, s)
  <2> TAKE s \in Slot
  <2>1. CASE InRing(c, s)
    BY <1>3, <1>4, <2>1 DEF Yields
  <2>2. CASE ~InRing(c, s)
    BY <1>4, <1>5, <1>6, <2>2 DEF Yields
  <2> QED BY <2>1, <2>2
<1>8. Formed(c)
  BY <1>4, <1>5 DEF Formed
<1>9. NoStray(c, after)
  <2> DEFINE s == "priv"
  <2> SUFFICES ASSUME c.kind = "inline", ~c.keyMarked, Form(c, s) = "none"
               PROVE  after[s] = Nil
    BY DEF NoStray
  <2>1. s \in Slot /\ s # "pw" /\ s # "cert"
    BY DEF Slot
  <2> HIDE DEF s
  <2>2. Carries(b, s) /\ mode # "keyring"
    BY <1>1, <2>1 DEF Carries
  <2>3. Yields(b, row)[s] = Nil
    BY <1>5, <2>1, <2>2 DEF Found, Bereft
  <2>4. row[s] = Nil
    <3>1. CASE InRing(b, s)
      BY <2>1, <2>3, <3>1 DEF Yields
    <3>2. CASE ~InRing(b, s)
      <4>1. Form(b, s) = "none" /\ b.kind = "inline" /\ ~b.keyMarked
        BY <1>1, <2>1, <2>3, <3>2 DEF Yields, Formed, InRing
      <4> QED BY <4>1 DEF NoStray, s
    <3> QED BY <3>1, <3>2
  <2> QED BY <1>3, <2>1, <2>2, <2>4
<1>10. MarksFit(c, mode)
  BY <1>1, <1>4 DEF MarksFit
<1>11. NoStray(b, after)
  BY <1>3, Slots DEF NoStray, Formed
<1>12. /\ after["cert"] \in {Nil, row["cert"], b.sec["cert"].val}
       /\ c.sec["cert"].val \in {Nil, row["cert"], b.sec["cert"].val}
  BY <1>3, <1>5, <1>6, Slots
<1> QED BY <1>7, <1>8, <1>9, <1>10, <1>11, <1>12 DEF BodyOK, c

\* What a migration that fails leaves in the keyring does no harm to the file.
LEMMA FailureKeeps ==
    ASSUME NEW b \in Body, Tidy(b), Formed(b), NEW row \in Row, NoStray(b, row),
           NEW j, NEW f \in Failures(b, row, j)
    PROVE  /\ NoStray(b, f.row)
           /\ f.row["cert"] = row["cert"]
           /\ \A s \in Slot : f.row[s] = row[s] \/ (j.target = "keyring" /\ Carries(b, s))
<1> DEFINE Taken(S) == [b EXCEPT !.sec = [s \in Slot |-> IF s \in S THEN NoSecret ELSE b.sec[s]]]
           Half == Finalize(Text(b, row, "priv"), j.target, j.new)
           Halved == [Taken(KeySlot) EXCEPT !.sec["priv"] = Half]
           Written == [row EXCEPT !["priv"] = Text(b, row, "priv")]
<1>1. \/ f.row = row
      \/ f.row = Written /\ j.target = "keyring" /\ Carries(b, "cert")
  BY DEF Failures
<1>2. ASSUME Carries(b, "cert")
      PROVE  /\ NoStray(b, Written) /\ Written["cert"] = row["cert"]
             /\ \A s \in Slot : Written[s] = row[s] \/ Carries(b, s)
  <2>0. "priv" \in Slot /\ "priv" # "pw" /\ "cert" # "pw" /\ "priv" # "cert" /\ "cert" \in Slot
    BY DEF Slot
  <2>1. b.kind = "inline"
    BY <1>2, <2>0 DEF Carries
  <2>2. \A s \in Slot : Written[s] = IF s = "priv" THEN Text(b, row, "priv") ELSE row[s]
    BY DEF Row
  <2>3. Carries(b, "priv")
    BY <2>0, <2>1 DEF Carries
  <2> HIDE DEF Written
  <2>4. NoStray(b, Written)
    BY <2>0, <2>2 DEF NoStray, Text
  <2> QED BY <2>0, <2>2, <2>3, <2>4
<1> HIDE DEF Written
<1> QED BY <1>1, <1>2
-------------------------------------------------------------------------------
(* Entering, patching and copying bodies.                                     *)

\* What an owner may start with: what a user may enter, or nothing.
Entered == Typed \cup {[kind |-> "absent", texts |-> NoTexts]}

\* The fields of a body as entered.
LEMMA EnteredFields ==
    ASSUME NEW t \in Entered
    PROVE  LET b == TypedBody(t.kind, t.texts)
           IN  /\ b.kind = t.kind /\ b.marked = FALSE /\ b.keyMarked = FALSE
               /\ \A s \in Slot : b.sec[s] = IF t.texts[s] = Nil THEN NoSecret
                                             ELSE Plain(t.texts[s])
<1> DEFINE secs == [s \in Slot |-> IF t.texts[s] = Nil THEN NoSecret ELSE Plain(t.texts[s])]
           b == TypedBody(t.kind, t.texts)
<1>1. b = [Bare(t.kind) EXCEPT !.sec = secs]
  BY DEF TypedBody
<1>2. \A s \in Slot : secs[s] = IF t.texts[s] = Nil THEN NoSecret ELSE Plain(t.texts[s])
  OBVIOUS
<1> HIDE DEF secs, b
<1>3. b.kind = t.kind /\ b.marked = FALSE /\ b.keyMarked = FALSE /\ b.sec = secs
  BY <1>1 DEF Bare
<1>4. /\ b.kind = t.kind /\ b.marked = FALSE /\ b.keyMarked = FALSE
      /\ \A s \in Slot : b.sec[s] = IF t.texts[s] = Nil THEN NoSecret ELSE Plain(t.texts[s])
  BY <1>2, <1>3
<1> QED BY <1>4 DEF b

\* A slot is empty as entered when no text was.
LEMMA EnteredForms ==
    ASSUME NEW t \in Entered, NEW s \in Slot
    PROVE  /\ (t.texts[s] = Nil) <=> (Form(TypedBody(t.kind, t.texts), s) = "none")
           /\ (t.texts[s] # Nil) <=> (Form(TypedBody(t.kind, t.texts), s) = "plain")
<1> DEFINE b == TypedBody(t.kind, t.texts)
<1>1. b.sec[s] = IF t.texts[s] = Nil THEN NoSecret ELSE Plain(t.texts[s])
  BY EnteredFields
<1> HIDE DEF b
<1>2. CASE t.texts[s] = Nil
  <2>1. b.sec[s].form = "none"
    BY <1>1, <1>2 DEF NoSecret
  <2> QED BY <1>2, <2>1 DEF Form, b
<1>3. CASE t.texts[s] # Nil
  <2>1. b.sec[s].form = "plain"
    BY <1>1, <1>3 DEF Plain
  <2> QED BY <1>3, <2>1 DEF Form, b
<1> QED BY <1>2, <1>3

\* What may be entered: keys for inline logins only, which have a private key and
\* no password.
LEMMA EnteredTexts ==
    ASSUME NEW t \in Entered
    PROVE  /\ t.texts \in Row /\ t.kind \in Kind
           /\ t.kind = "inline" => t \in Typed /\ t.texts["priv"] # Nil
           /\ t.kind \in {"path", "inline"} => t.texts["pw"] = Nil
           /\ t.kind # "inline" => \A s \in KeySlot : t.texts[s] = Nil
<1>1. CASE t \in Typed
  <2> DEFINE b == TypedBody(t.kind, t.texts)
  <2>1. b.kind = t.kind /\ b.marked = FALSE /\ b.keyMarked = FALSE
    BY EnteredFields
  <2>2. \A s \in Slot : (t.texts[s] = Nil) <=> (Form(b, s) = "none")
    BY EnteredForms
  <2>3. Valid(b) /\ (t.kind # "inline" => \A s \in KeySlot : t.texts[s] = Nil)
    BY <1>1, StoreAssumption
  <2> HIDE DEF b
  <2>4. /\ t.kind = "inline" => t.texts["priv"] # Nil
        /\ t.kind \in {"path", "inline"} => t.texts["pw"] = Nil
    BY <2>1, <2>2, <2>3, Slots DEF Valid
  <2> QED BY <1>1, <2>3, <2>4, TypedTyped
<1>2. CASE t = [kind |-> "absent", texts |-> NoTexts]
  BY <1>2, NoTextsTyped, Slots DEF NoTexts, Kind
<1> QED BY <1>1, <1>2 DEF Entered

\* An entered body once sealed.
SealedFrom(t, mode, key) == SealedBody(TypedBody(t.kind, t.texts), mode, key)

\* Its row, once keyring mode has stored its texts there.
RowFrom(t, row, mode) == SealedRow(TypedBody(t.kind, t.texts), row, mode)

\* The row has the texts that keyring mode keeps there.
LEMMA RowTexts ==
    ASSUME NEW t \in Entered, NEW mode, NEW row, NEW s \in Slot
    PROVE  RowFrom(t, row, mode)[s] = IF mode = "keyring" /\ t.texts[s] # Nil
                                      THEN t.texts[s] ELSE row[s]
<1> DEFINE b == TypedBody(t.kind, t.texts)
<1>1. b.sec[s] = IF t.texts[s] = Nil THEN NoSecret ELSE Plain(t.texts[s])
  BY EnteredFields
<1>2. (t.texts[s] # Nil) <=> (Form(b, s) = "plain")
  BY EnteredForms
<1>3. RowFrom(t, row, mode)[s] = IF mode = "keyring" /\ Form(b, s) = "plain"
                                 THEN b.sec[s].val ELSE row[s]
  BY DEF RowFrom, SealedRow
<1>4. t.texts[s] # Nil => b.sec[s].val = t.texts[s]
  BY <1>1 DEF Plain
<1> QED BY <1>2, <1>3, <1>4

\* The body has those that the mode keeps there, held as it holds them.
LEMMA SealedTexts ==
    ASSUME NEW t \in Entered, NEW mode, NEW key, NEW s \in Slot
    PROVE  SealedFrom(t, mode, key).sec[s] = Finalize(t.texts[s], mode, key)
<1> DEFINE b == TypedBody(t.kind, t.texts)
           secs == [x \in Slot |-> IF Form(b, x) = "plain"
                                   THEN Finalize(b.sec[x].val, mode, key) ELSE b.sec[x]]
           c == SealedBody(b, mode, key)
<1>1. b.sec[s] = IF t.texts[s] = Nil THEN NoSecret ELSE Plain(t.texts[s])
  BY EnteredFields
<1>2. (t.texts[s] # Nil) <=> (Form(b, s) = "plain")
  BY EnteredForms
<1>3. b = [Bare(t.kind) EXCEPT !.sec = b.sec]
  BY DEF TypedBody, Bare
<1>4. c.sec = secs
  <2> HIDE DEF b, secs
  <2> QED BY <1>3 DEF SealedBody, Bare, secs
<1>5. t.texts[s] # Nil => b.sec[s].val = t.texts[s]
  <2>1. t.texts[s] # Nil => b.sec[s] = Plain(t.texts[s])
    BY <1>1
  <2> QED BY <2>1 DEF Plain
<1>6. secs[s] = Finalize(t.texts[s], mode, key)
  BY <1>1, <1>2, <1>5 DEF Finalize
<1> QED BY <1>4, <1>6 DEF SealedFrom

\* Its markers are those of keyring mode.
LEMMA SealedMarks ==
    ASSUME NEW t \in Entered, NEW mode, NEW key
    PROVE  /\ SealedFrom(t, mode, key).kind = t.kind
           /\ SealedFrom(t, mode, key).marked <=> mode = "keyring" /\ t.texts["pw"] # Nil
           /\ SealedFrom(t, mode, key).keyMarked <=> t.kind = "inline" /\ mode = "keyring"
<1> DEFINE b == TypedBody(t.kind, t.texts)
           mark == /\ mode = "keyring" /\ b.kind \notin {"path", "inline"}
                   /\ Form(b, "pw") = "plain" \/ (b.marked /\ Form(b, "pw") = "none")
           keyMark == b.kind = "inline" /\ (b.keyMarked \/ mode = "keyring")
           c == SealedBody(b, mode, key)
<1>1. b.kind = t.kind /\ b.marked = FALSE /\ b.keyMarked = FALSE
  BY EnteredFields
<1>2. (t.texts["pw"] # Nil) <=> (Form(b, "pw") = "plain")
  BY EnteredForms, Slots
<1>3. b = [Bare(t.kind) EXCEPT !.sec = b.sec]
  BY DEF TypedBody, Bare
<1>4. c.kind = b.kind /\ c.marked = mark /\ c.keyMarked = keyMark
  <2> HIDE DEF b, mark, keyMark
  <2> QED BY <1>3 DEF SealedBody, Bare, mark, keyMark
<1>5. mark <=> mode = "keyring" /\ t.texts["pw"] # Nil
  BY <1>1, <1>2, EnteredTexts, Slots
<1>6. keyMark <=> t.kind = "inline" /\ mode = "keyring"
  BY <1>1
<1> QED BY <1>1, <1>4, <1>5, <1>6 DEF SealedFrom

\* Sealing an entered body loses nothing, whatever was left in its row.
LEMMA SealedHolds ==
    ASSUME NEW t \in Entered, NEW mode, NEW key, NEW row
    PROVE  LET c == SealedFrom(t, mode, key)
               after == RowFrom(t, row, mode)
           IN  /\ \A s \in Slot : \/ Yields(c, after)[s] = t.texts[s]
                                  \/ TakenOver(c, s, t.texts[s])
               /\ BodyOK(c, after, mode)
<1> DEFINE c == SealedFrom(t, mode, key)
           after == RowFrom(t, row, mode)
<1>1. /\ c.kind = t.kind
      /\ c.marked <=> mode = "keyring" /\ t.texts["pw"] # Nil
      /\ c.keyMarked <=> t.kind = "inline" /\ mode = "keyring"
  BY SealedMarks
<1>2. \A s \in Slot : /\ c.sec[s] = Finalize(t.texts[s], mode, key)
                      /\ after[s] = IF mode = "keyring" /\ t.texts[s] # Nil
                                    THEN t.texts[s] ELSE row[s]
  BY SealedTexts, RowTexts
<1> HIDE DEF c, after
<1>3. \A s \in Slot : /\ c.sec[s].val = IF mode = "keyring" THEN Nil ELSE t.texts[s]
                      /\ Form(c, s) = "none" <=> c.sec[s].val = Nil
  BY <1>2, FinalizeHolds DEF Form
<1>4. \A s \in Slot : InRing(c, s) <=> /\ mode = "keyring"
                                       /\ IF s = "pw" THEN t.texts["pw"] # Nil
                                          ELSE t.kind = "inline"
  BY <1>1 DEF InRing
<1>5. t.kind = "inline" => t.texts["priv"] # Nil
  BY EnteredTexts
<1>6. t.kind # "inline" => \A s \in KeySlot : t.texts[s] = Nil
  BY EnteredTexts
<1>7. \A s \in Slot : Yields(c, after)[s] = t.texts[s] \/ TakenOver(c, s, t.texts[s])
  <2> TAKE s \in Slot
  <2>0. Yields(c, after)[s] = IF InRing(c, s) THEN after[s] ELSE c.sec[s].val
    BY DEF Yields
  <2>1. CASE mode # "keyring"
    BY <1>3, <1>4, <2>0, <2>1
  <2>2. CASE mode = "keyring" /\ s = "pw"
    BY <1>2, <1>3, <1>4, <2>0, <2>2
  <2>3. CASE mode = "keyring" /\ s # "pw"
    <3>1. s \in KeySlot /\ s \in {"priv", "cert"}
      BY <2>3, Slots
    <3>2. CASE t.kind = "inline"
      BY <1>2, <1>4, <1>5, <2>0, <2>3, <3>1, <3>2 DEF TakenOver
    <3>3. CASE t.kind # "inline"
      BY <1>3, <1>4, <1>6, <2>0, <2>3, <3>1, <3>3
    <3> QED BY <3>2, <3>3
  <2> QED BY <2>1, <2>2, <2>3
<1>8. Formed(c)
  BY <1>3, <1>4 DEF Formed
<1>9. NoStray(c, after)
  BY <1>1, <1>3, <1>5, Slots DEF NoStray
<1>10. MarksFit(c, mode)
  BY <1>1, <1>4 DEF MarksFit
<1> QED BY <1>7, <1>8, <1>9, <1>10 DEF BodyOK, c, after

\* A body that keeps some slots of another as they are and empties the others.
PartOf(c, b) ==
    /\ \A s \in Slot : \/ c.sec[s] = NoSecret /\ ~InRing(c, s)
                       \/ c.sec[s] = b.sec[s] /\ (InRing(c, s) <=> InRing(b, s))
    /\ c.kind = "inline" => /\ b.kind = "inline" /\ c.keyMarked = b.keyMarked
                            /\ \A s \in KeySlot : c.sec[s] = b.sec[s]

\* It is as good as the other one, and yields of it what it keeps.
LEMMA PartKeeps ==
    ASSUME NEW b, NEW c, PartOf(c, b), NEW row, NEW mode, BodyOK(b, row, mode)
    PROVE  /\ BodyOK(c, row, mode)
           /\ \A s \in Slot : Yields(c, row)[s] =
                 IF c.sec[s] # NoSecret \/ InRing(c, s) THEN Yields(b, row)[s] ELSE Nil
<1>0. NoSecret.form = "none" /\ NoSecret.val = Nil
  BY DEF NoSecret
<1>1. \A s \in Slot : \/ c.sec[s] = NoSecret /\ ~InRing(c, s)
                      \/ c.sec[s] = b.sec[s] /\ (InRing(c, s) <=> InRing(b, s))
  BY DEF PartOf
<1>2. c.kind = "inline" => /\ b.kind = "inline" /\ c.keyMarked = b.keyMarked
                           /\ \A s \in KeySlot : c.sec[s] = b.sec[s]
  BY DEF PartOf
<1>3. Formed(b) /\ NoStray(b, row) /\ MarksFit(b, mode)
  BY DEF BodyOK
<1>4. Formed(c)
  <2>1. \A s \in Slot : c.sec[s].form = "none" <=> c.sec[s].val = Nil
    BY <1>0, <1>1, <1>3 DEF Formed, Form
  <2>2. \A s \in Slot : InRing(c, s) => c.sec[s].form = "none"
    BY <1>1, <1>3 DEF Formed, Form
  <2> QED BY <2>1, <2>2 DEF Formed, Form
<1>5. NoStray(c, row)
  BY <1>2, <1>3, Slots DEF NoStray, Form
<1>6. MarksFit(c, mode)
  BY <1>1, <1>2, <1>3 DEF MarksFit
<1>7. \A s \in Slot : Yields(c, row)[s] =
         IF c.sec[s] # NoSecret \/ InRing(c, s) THEN Yields(b, row)[s] ELSE Nil
  <2> TAKE s \in Slot
  <2>1. /\ Yields(c, row)[s] = IF InRing(c, s) THEN row[s] ELSE c.sec[s].val
        /\ Yields(b, row)[s] = IF InRing(b, s) THEN row[s] ELSE b.sec[s].val
    BY DEF Yields
  <2> QED BY <1>0, <1>1, <2>1
<1> QED BY <1>4, <1>5, <1>6, <1>7 DEF BodyOK

\* A flag patch keeps part of the body, and asks to hold what it keeps.
LEMMA PatchesParts ==
    ASSUME StoreOK, ProcsOK, NEW p \in Procs, NEW o \in Owners, NEW x \in Patches(p, o)
    PROVE  /\ PartOf(x.body, mem[p].body[o])
           /\ x.want = Only(Held(mem[p], o),
                            {s \in Slot : x.body.sec[s] # NoSecret \/ InRing(x.body, s)})
<1> DEFINE b == mem[p].body[o]
           Pw == [s \in Slot |-> IF s = "pw" THEN b.sec[s] ELSE NoSecret]
           Keyed(kind) == [b EXCEPT !.kind = kind, !.sec = Pw, !.keyMarked = FALSE]
           NoPassword == [b EXCEPT !.sec["pw"] = NoSecret, !.marked = FALSE]
           Bodies == IF o \in Creds THEN {Bare("path"), Bare("none")}
                     ELSE {Keyed("path"), Keyed("none"), NoPassword, Bare("path"), Bare("none")}
           kept(c) == {s \in Slot : c.sec[s] # NoSecret \/ InRing(c, s)}
<1>1. PICK y \in Bodies : x.body = y /\ x.want = Only(Held(mem[p], o), kept(y))
  <2>1. Patches(p, o) = {[body |-> c, want |-> Only(Held(mem[p], o), kept(c))] :
                           c \in {c \in Bodies : Valid(c)}}
    BY Zenon DEF Patches
  <2> HIDE DEF kept, Bodies
  <2>2. PICK c \in Bodies : x = [body |-> c, want |-> Only(Held(mem[p], o), kept(c))]
    BY <2>1
  <2> QED BY <2>2
<1>2. b \in Body
  BY DEF ProcsOK, Config
<1>3. ASSUME NEW kind \in {"path", "none"}
      PROVE  PartOf(Bare(kind), b) /\ PartOf(Keyed(kind), b)
  <2>1. PartOf(Bare(kind), b)
    <3>1. /\ Bare(kind).kind = kind /\ Bare(kind).marked = FALSE
          /\ Bare(kind).keyMarked = FALSE /\ \A s \in Slot : Bare(kind).sec[s] = NoSecret
      BY DEF Bare
    <3> QED BY <3>1 DEF PartOf, InRing
  <2>2. PartOf(Keyed(kind), b)
    <3> DEFINE c == Keyed(kind)
    <3>0. \A s \in Slot : Pw[s] = IF s = "pw" THEN b.sec[s] ELSE NoSecret
      OBVIOUS
    <3>1. c.kind = kind /\ c.sec = Pw /\ c.marked = b.marked /\ c.keyMarked = FALSE
      BY <1>2 DEF Body
    <3> HIDE DEF c, Pw
    <3>2. PartOf(c, b)
      BY <3>0, <3>1 DEF PartOf, InRing
    <3> QED BY <3>2 DEF c, Pw
  <2> QED BY <2>1, <2>2
<1>4. PartOf(NoPassword, b)
  <2> DEFINE c == NoPassword
  <2>1. /\ c.kind = b.kind /\ c.marked = FALSE /\ c.keyMarked = b.keyMarked
        /\ \A s \in Slot : c.sec[s] = IF s = "pw" THEN NoSecret ELSE b.sec[s]
    BY <1>2 DEF Body
  <2> HIDE DEF c
  <2>2. PartOf(c, b)
    BY <2>1, Slots DEF PartOf, InRing
  <2> QED BY <2>2 DEF c
<1>5. PartOf(y, b)
  BY <1>3, <1>4
<1> QED BY <1>1, <1>5
-------------------------------------------------------------------------------
(* What an edit does to the owners it concerns.                               *)

\* Its body b in the file, with the row before and after the edit was staged; the
\* body c that is to take its place, and what the user wants.
OwnerEdited(b, before, after, c, want, step, mode) ==
    /\ NoStray(b, after)
    /\ after["cert"] \in {Nil, before["cert"], want["cert"]}
    /\ \A s \in Slot : Yields(b, after)[s] \in {Yields(b, before)[s], want[s]}
    /\ step = "saving" =>
          /\ BodyOK(c, after, mode)
          /\ \A s \in Slot : \/ Yields(c, after)[s] = want[s]
                             \/ TakenOver(c, s, want[s])
                             \/ /\ "keyring" \in Faults
                                /\ Yields(c, after)[s] = Yields(b, after)[s]

\* Entries that were written where the file's markers, if any, are complete, or
\* removed: the body in the file is as well backed as before.
LEMMA RowChanges ==
    ASSUME NEW b, NEW before, NEW after, NEW mode, BodyOK(b, before, mode),
           NEW want \in Row,
           \A s \in Slot : \/ after[s] = before[s]
                           \/ mode = "keyring" /\ after[s] = want[s]
                           \/ after[s] = Nil /\ (InRing(b, s) => want[s] = Nil)
    PROVE  /\ NoStray(b, after)
           /\ after["cert"] \in {Nil, before["cert"], want["cert"]}
           /\ \A s \in Slot : Yields(b, after)[s] \in {Yields(b, before)[s], want[s]}
<1>1. NoStray(b, after)
  <2> SUFFICES ASSUME b.kind = "inline", ~b.keyMarked, Form(b, "priv") = "none"
               PROVE  after["priv"] = Nil
    BY DEF NoStray
  <2>1. mode # "keyring" /\ before["priv"] = Nil
    BY DEF BodyOK, MarksFit, NoStray
  <2> QED BY <2>1, Slots
<1>2. \A s \in Slot : Yields(b, after)[s] \in {Yields(b, before)[s], want[s]}
  <2> TAKE s \in Slot
  <2>1. /\ Yields(b, after)[s] = IF InRing(b, s) THEN after[s] ELSE b.sec[s].val
        /\ Yields(b, before)[s] = IF InRing(b, s) THEN before[s] ELSE b.sec[s].val
    BY DEF Yields
  <2> QED BY <2>1
<1> QED BY <1>1, <1>2, Slots

\* An owner takes what a form or a flag says.
LEMMA EnteredEdit ==
    ASSUME NEW t \in Entered, NEW b, NEW row, NEW mode, NEW key, BodyOK(b, row, mode)
    PROVE  OwnerEdited(b, row, RowFrom(t, row, mode), SealedFrom(t, mode, key), t.texts,
                       "saving", mode)
<1> DEFINE after == RowFrom(t, row, mode)
           c == SealedFrom(t, mode, key)
           want == t.texts
<1>1. /\ \A s \in Slot : Yields(c, after)[s] = want[s] \/ TakenOver(c, s, want[s])
      /\ BodyOK(c, after, mode)
  BY SealedHolds
<1>2. want \in Row
  BY EnteredTexts
<1>3. \A s \in Slot : after[s] = row[s] \/ (mode = "keyring" /\ after[s] = want[s])
  BY RowTexts
<1> HIDE DEF after, c, want
<1>4. /\ NoStray(b, after)
      /\ after["cert"] \in {Nil, row["cert"], want["cert"]}
      /\ \A s \in Slot : Yields(b, after)[s] \in {Yields(b, row)[s], want[s]}
  BY <1>2, <1>3, RowChanges
<1>5. OwnerEdited(b, row, after, c, want, "saving", mode)
  BY <1>1, <1>4 DEF OwnerEdited
<1> QED BY <1>5 DEF after, c, want

\* So it does when there is nothing to seal.
LEMMA UnsealedEdit ==
    ASSUME NEW t \in Entered, ~HasPlain(TypedBody(t.kind, t.texts)),
           NEW b, NEW row, NEW mode, BodyOK(b, row, mode)
    PROVE  OwnerEdited(b, row, RowFrom(t, row, mode), TypedBody(t.kind, t.texts), t.texts,
                       "saving", mode)
<1> DEFINE after == RowFrom(t, row, mode)
           c == TypedBody(t.kind, t.texts)
<1>1. \A s \in Slot : t.texts[s] = Nil /\ Form(c, s) = "none"
  BY EnteredForms DEF HasPlain
<1>2. /\ c.kind = t.kind /\ c.marked = FALSE /\ c.keyMarked = FALSE
      /\ \A s \in Slot : c.sec[s] = NoSecret
  BY <1>1, EnteredFields
<1>3. t.texts \in Row
  BY EnteredTexts
<1>4. t.kind # "inline"
  BY <1>1, EnteredTexts, Slots
<1>5. \A s \in Slot : after[s] = row[s] \/ (mode = "keyring" /\ after[s] = t.texts[s])
  BY RowTexts
<1>6. \A s \in Slot : after[s] = row[s]
  BY <1>1, RowTexts
<1> HIDE DEF after, c
<1>7. NoSecret.val = Nil
  BY DEF NoSecret
<1>8. \A s \in Slot : ~InRing(c, s) /\ c.sec[s].val = Nil /\ Form(c, s) = "none"
  BY <1>1, <1>2, <1>7 DEF InRing
<1>9. BodyOK(c, after, mode)
  BY <1>2, <1>4, <1>8, Slots DEF BodyOK, Formed, NoStray, MarksFit
<1>10. \A s \in Slot : Yields(c, after)[s] = t.texts[s]
  BY <1>1, <1>8 DEF Yields
<1>11. /\ NoStray(b, after)
      /\ after["cert"] \in {Nil, row["cert"], t.texts["cert"]}
      /\ \A s \in Slot : Yields(b, after)[s] \in {Yields(b, row)[s], t.texts[s]}
  <2> DEFINE want == t.texts
  <2>1. want \in Row
    BY <1>3
  <2>2. \A s \in Slot : after[s] = row[s] \/ (mode = "keyring" /\ after[s] = want[s])
    BY <1>5
  <2> HIDE DEF want
  <2>3. /\ NoStray(b, after)
        /\ after["cert"] \in {Nil, row["cert"], want["cert"]}
        /\ \A s \in Slot : Yields(b, after)[s] \in {Yields(b, row)[s], want[s]}
    BY <2>1, <2>2, RowChanges
  <2> QED BY <2>3 DEF want
<1>12. OwnerEdited(b, row, after, c, t.texts, "saving", mode)
  BY <1>9, <1>10, <1>11 DEF OwnerEdited
<1> QED BY <1>12 DEF after, c

\* An owner is removed, with the entries its markers name as far as the keyring
\* lets go of them.
LEMMA RemovedEdit ==
    ASSUME NEW b, NEW row, NEW mode, BodyOK(b, row, mode),
           NEW after \in Kept(row, ForgottenRow(b, row))
    PROVE  OwnerEdited(b, row, after, Absent, NoTexts, "saving", mode)
<1>1. \A s \in Slot : after[s] = row[s] \/ after[s] = Nil
  <2> TAKE s \in Slot
  <2>1. ForgottenRow(b, row)[s] \in {Nil, row[s]}
    BY DEF ForgottenRow
  <2> QED BY <2>1, KeptSlots
<1>2. \A s \in Slot : NoTexts[s] = Nil
  BY DEF NoTexts
<1>3. /\ NoStray(b, after)
      /\ after["cert"] \in {Nil, row["cert"], NoTexts["cert"]}
      /\ \A s \in Slot : Yields(b, after)[s] \in {Yields(b, row)[s], NoTexts[s]}
  BY <1>1, <1>2, NoTextsTyped, RowChanges
<1>4. BodyOK(Absent, after, mode) /\ Yields(Absent, after) = NoTexts
  BY AbsentOK
<1> QED BY <1>3, <1>4 DEF OwnerEdited

\* A patch keeps part of the body and nothing happens to the row.
LEMMA PatchedEdit ==
    ASSUME NEW b, NEW row, NEW mode, BodyOK(b, row, mode),
           NEW c, PartOf(c, b), NEW want \in Row,
           \A s \in Slot : want[s] = IF c.sec[s] # NoSecret \/ InRing(c, s)
                                     THEN Yields(b, row)[s] ELSE Nil
    PROVE  OwnerEdited(b, row, row, c, want, "saving", mode)
<1>1. BodyOK(c, row, mode) /\ \A s \in Slot : Yields(c, row)[s] = want[s]
  BY PartKeeps
<1>2. /\ NoStray(b, row) /\ row["cert"] \in {Nil, row["cert"], want["cert"]}
      /\ \A s \in Slot : Yields(b, row)[s] \in {Yields(b, row)[s], want[s]}
  BY RowChanges
<1> QED BY <1>1, <1>2 DEF OwnerEdited

\* An owner that was not there is given the body of another and, from its row, the
\* entries that could be copied.
LEMMA CopiedEdit ==
    ASSUME NEW b \in Body, Tidy(b), Formed(b), b.kind = "absent",
           NEW c, NEW from, NEW mode, BodyOK(c, from, mode),
           NEW n \in IF "keyring" \in Faults THEN {{}, {"priv"}, Slot} ELSE {Slot},
           NEW after, after = [s \in Slot |-> IF s \in n THEN CopiedRow(c, from, NoTexts)[s]
                                              ELSE NoTexts[s]]
    PROVE  OwnerEdited(b, NoTexts, after, c, Yields(c, from), "saving", mode)
<1>1. /\ Yields(b, NoTexts) = NoTexts /\ Yields(b, after) = NoTexts
      /\ \A s \in Slot : NoTexts[s] = Nil
  BY GoneYields DEF NoTexts
<1>2. \A s \in Slot : after[s] = IF s \in n /\ InRing(c, s) THEN from[s] ELSE Nil
  <2> TAKE s \in Slot
  <2>1. CopiedRow(c, from, NoTexts)[s] = IF InRing(c, s) THEN from[s] ELSE Nil
    BY <1>1 DEF CopiedRow
  <2> QED BY <1>1, <2>1
<1>3. Formed(c) /\ NoStray(c, from) /\ MarksFit(c, mode)
  BY DEF BodyOK
<1>4. NoStray(c, after)
  <2> SUFFICES ASSUME ~c.keyMarked
               PROVE  after["priv"] = Nil
    BY DEF NoStray
  <2>1. ~InRing(c, "priv")
    BY Slots DEF InRing
  <2> QED BY <1>2, <2>1, Slots
<1>5. BodyOK(c, after, mode)
  BY <1>3, <1>4 DEF BodyOK
<1>6. \A s \in Slot : \/ Yields(c, after)[s] = Yields(c, from)[s]
                      \/ "keyring" \in Faults /\ Yields(c, after)[s] = Yields(b, after)[s]
  <2> TAKE s \in Slot
  <2>1. /\ Yields(c, after)[s] = IF InRing(c, s) THEN after[s] ELSE c.sec[s].val
        /\ Yields(c, from)[s] = IF InRing(c, s) THEN from[s] ELSE c.sec[s].val
    BY DEF Yields
  <2>2. CASE s \in n
    BY <1>2, <2>1, <2>2
  <2>3. CASE s \notin n
    <3>1. "keyring" \in Faults
      BY <2>3
    <3> QED BY <1>1, <1>2, <2>1, <2>3, <3>1
  <2> QED BY <2>2, <2>3
<1>7. NoStray(b, after)
  BY DEF NoStray
<1>8. after["cert"] \in {Nil, Yields(c, from)["cert"]}
  BY <1>2, Slots DEF Yields
<1> QED BY <1>1, <1>5, <1>6, <1>7, <1>8 DEF OwnerEdited

\* Of an inline key only the private part got into the keyring; the edit is given up.
LEMMA FailedEdit ==
    ASSUME NEW b, NEW row \in Row, BodyOK(b, row, "keyring"), NEW want \in Row,
           NEW c
    PROVE  OwnerEdited(b, row, [row EXCEPT !["priv"] = want["priv"]], c, want,
                       "failing", "keyring")
<1> DEFINE after == [row EXCEPT !["priv"] = want["priv"]]
<1>1. \A s \in Slot : after[s] = IF s = "priv" THEN want["priv"] ELSE row[s]
  BY DEF Row
<1>2. "cert" # "priv" /\ "cert" \in Slot
  BY Slots
<1> HIDE DEF after
<1>3. /\ NoStray(b, after)
      /\ after["cert"] \in {Nil, row["cert"], want["cert"]}
      /\ \A s \in Slot : Yields(b, after)[s] \in {Yields(b, row)[s], want[s]}
  BY <1>1, RowChanges
<1>4. OwnerEdited(b, row, after, c, want, "failing", "keyring")
  BY <1>1, <1>2, <1>3 DEF OwnerEdited
<1> QED BY <1>4 DEF after
-------------------------------------------------------------------------------
(* What an edit does to the store.                                            *)

\* The owners S change, from what the command loaded, and no other does.
EditForm(p, S, new, asks, step) ==
    /\ Stage(p, new, asks, step)
    /\ \A o \in Owners \ S : ring'[o] = ring[o]
    /\ \A o \in S : OwnerEdited(disk.body[o], ring[o], ring'[o], new[o], asks[o],
                                step, disk.mode)

\* An edit of some owners, which is to be saved or has failed.
EditMade(p) == \E S \in SUBSET Owners : \E new \in [S -> Body], asks \in [S -> Row],
                  step \in {"saving", "failing"} : EditForm(p, S, new, asks, step)

\* An edit of one owner.
LEMMA SingleEdit ==
    ASSUME NEW p \in Procs, NEW o \in Owners, NEW b \in Body, NEW want \in Row,
           NEW step \in {"saving", "failing"}, Stage(p, At(o, b), At(o, want), step),
           \A q \in Owners \ {o} : ring'[q] = ring[q],
           OwnerEdited(disk.body[o], ring[o], ring'[o], b, want, step, disk.mode)
    PROVE  EditMade(p)
<1> DEFINE new == At(o, b)
           asks == At(o, want)
<1>1. new \in [{o} -> Body] /\ asks \in [{o} -> Row] /\ {o} \in SUBSET Owners
  BY DEF At
<1>2. new[o] = b /\ asks[o] = want
  BY DEF At
<1> HIDE DEF new, asks
<1>3. \A q \in {o} : OwnerEdited(disk.body[q], ring[q], ring'[q], new[q], asks[q],
                                 step, disk.mode)
  BY <1>2
<1>4. Stage(p, new, asks, step)
  BY DEF new, asks
<1>5. EditForm(p, {o}, new, asks, step)
  BY <1>3, <1>4 DEF EditForm
<1> QED BY <1>1, <1>5 DEF EditMade

\* A row replaced.
LEMMA RowReplaced ==
    ASSUME StoreOK, NEW o \in Owners, NEW row, ring' = [ring EXCEPT ![o] = row]
    PROVE  ring'[o] = row /\ \A q \in Owners \ {o} : ring'[q] = ring[q]
BY DEF StoreOK

\* Every edit is of that form.
LEMMA EditsKeep ==
    ASSUME Tui = {}, StoreOK, ProcsOK, CopiesFit, OneInv,
           NEW p \in Procs, EditStep(p)
    PROVE  EditMade(p)
<1>0. /\ disk \in Config /\ ring \in [Owners -> Row] /\ minted \subseteq Owners
      /\ Present(disk) \subseteq minted
      /\ \A o \in Owners : /\ disk.body[o] \in Body /\ ring[o] \in Row
                           /\ BodyOK(disk.body[o], ring[o], disk.mode)
                           /\ BodyFits(disk.body[o], disk.mode, disk.vaultKey)
                           /\ o \notin minted => ring[o] = NoTexts
  BY DEF StoreOK, Config, CopiesFit, Fits, OneInv, ConfigOK, RingOK
<1>1. ASSUME NEW new, NEW asks, NEW step, Stage(p, new, asks, step)
      PROVE  mem[p] = disk
  BY <1>1 DEF Stage, OneInv, CommandOK
<1>2. ASSUME NEW o \in Owners
      PROVE  Held(disk, o) = Yields(disk.body[o], ring[o])
  BY <1>0, FitReads DEF Held
<1>3. ASSUME NEW o \in Owners, o \notin minted
      PROVE  disk.body[o].kind = "absent" /\ ring[o] = NoTexts
  BY <1>0, <1>3 DEF Present
<1>4. ASSUME NEW o \in Owners, CliPatch(p, o)
      PROVE  EditMade(p)
  <2>1. PICK x \in Patches(p, o) : Stage(p, At(o, x.body), At(o, x.want), "saving")
    BY <1>4 DEF CliPatch
  <2>2. ring' = ring /\ mem[p] = disk
    BY <1>1, <1>4, <2>1 DEF CliPatch
  <2>3. /\ x.body \in Body /\ x.want \in Row /\ PartOf(x.body, disk.body[o])
        /\ x.want = Only(Held(disk, o),
                         {s \in Slot : x.body.sec[s] # NoSecret \/ InRing(x.body, s)})
    BY <2>2, PatchesTyped, PatchesParts
  <2>4. \A s \in Slot : x.want[s] = IF x.body.sec[s] # NoSecret \/ InRing(x.body, s)
                                    THEN Yields(disk.body[o], ring[o])[s] ELSE Nil
    BY <1>2, <2>3 DEF Only
  <2>5. OwnerEdited(disk.body[o], ring[o], ring[o], x.body, x.want, "saving", disk.mode)
    BY <1>0, <2>3, <2>4, PatchedEdit
  <2> QED BY <2>1, <2>2, <2>3, <2>5, SingleEdit
<1>5. ASSUME NEW o \in Owners, Remove(p, o)
      PROVE  EditMade(p)
  <2>1. Stage(p, At(o, Absent), At(o, NoTexts), "saving")
    BY <1>5 DEF Remove
  <2>2. PICK row \in Kept(ring[o], ForgottenRow(disk.body[o], ring[o])) :
          ring' = [ring EXCEPT ![o] = row]
    BY <1>1, <1>5, <2>1 DEF Remove
  <2>3. OwnerEdited(disk.body[o], ring[o], row, Absent, NoTexts, "saving", disk.mode)
    BY <1>0, RemovedEdit
  <2>4. ring'[o] = row /\ \A q \in Owners \ {o} : ring'[q] = ring[q]
    BY <2>2, RowReplaced
  <2> QED BY <2>1, <2>3, <2>4, AbsentTyped, NoTextsTyped, SingleEdit
<1>6. ASSUME NEW o \in Owners, NEW t \in Typed, CliPut(p, o, t)
      PROVE  EditMade(p)
  <2> DEFINE b == TypedBody(t.kind, t.texts)
  <2>1. PICK u \in SealKey(p, b) :
          Stage(p, At(o, IF HasPlain(b) THEN SealedBody(b, mem[p].mode, u.key) ELSE b),
                At(o, t.texts), "saving")
    BY <1>6 DEF CliPut, Put
  <2>2. mem[p] = disk
    BY <1>1, <2>1
  <2>3. ring' = [ring EXCEPT ![o] = RowFrom(t, ring[o], disk.mode)]
    BY <1>6, <2>2 DEF CliPut, Put, RowFrom
  <2>4. t \in Entered /\ t.texts \in Row
    BY TypedTyped DEF Entered
  <2>5. u.key \in Nat /\ disk.mode \in Mode
    BY <1>0, SealKeyTyped DEF Config
  <2>6. ring'[o] = RowFrom(t, ring[o], disk.mode) /\ \A q \in Owners \ {o} : ring'[q] = ring[q]
    BY <2>3, RowReplaced
  <2>7. CASE HasPlain(b)
    <3>1. Stage(p, At(o, SealedFrom(t, disk.mode, u.key)), At(o, t.texts), "saving")
      BY <2>1, <2>2, <2>7 DEF SealedFrom
    <3>2. SealedFrom(t, disk.mode, u.key) \in Body
      BY <2>5, TypedTyped, SealedBodyTyped DEF SealedFrom
    <3>3. OwnerEdited(disk.body[o], ring[o], RowFrom(t, ring[o], disk.mode),
                      SealedFrom(t, disk.mode, u.key), t.texts, "saving", disk.mode)
      BY <1>0, <2>4, EnteredEdit
    <3> QED BY <2>4, <2>6, <3>1, <3>2, <3>3, SingleEdit
  <2>8. CASE ~HasPlain(b)
    <3>1. Stage(p, At(o, b), At(o, t.texts), "saving")
      BY <2>1, <2>8
    <3>2. b \in Body
      BY TypedTyped
    <3>3. OwnerEdited(disk.body[o], ring[o], RowFrom(t, ring[o], disk.mode), b, t.texts,
                      "saving", disk.mode)
      BY <1>0, <2>4, <2>8, UnsealedEdit
    <3> HIDE DEF b
    <3> QED BY <2>4, <2>6, <3>1, <3>2, <3>3, SingleEdit
  <2> QED BY <2>7, <2>8
<1>7. ASSUME NEW o \in Owners, NEW t \in Typed, PutFails(p, o, t)
      PROVE  EditMade(p)
  <2>1. Stage(p, At(o, mem[p].body[o]), At(o, t.texts), "failing")
    BY <1>7 DEF PutFails
  <2>2. mem[p] = disk
    BY <1>1, <2>1
  <2>3. disk.mode = "keyring" /\ ring' = [ring EXCEPT ![o]["priv"] = t.texts["priv"]]
    BY <1>7, <2>2 DEF PutFails
  <2>4. ring' = [ring EXCEPT ![o] = [ring[o] EXCEPT !["priv"] = t.texts["priv"]]]
    BY <2>3
  <2>5. /\ ring'[o] = [ring[o] EXCEPT !["priv"] = t.texts["priv"]]
        /\ \A q \in Owners \ {o} : ring'[q] = ring[q]
    BY <2>4, RowReplaced
  <2>6. t.texts \in Row
    BY TypedTyped
  <2>7. OwnerEdited(disk.body[o], ring[o], [ring[o] EXCEPT !["priv"] = t.texts["priv"]],
                    disk.body[o], t.texts, "failing", "keyring")
    BY <1>0, <2>3, <2>6, FailedEdit
  <2> QED BY <1>0, <2>1, <2>2, <2>3, <2>5, <2>6, <2>7, SingleEdit
<1>8. ASSUME NEW src \in Hosts, NEW dst \in Hosts, Copy(p, src, dst)
      PROVE  EditMade(p)
  <2>0. src \in Owners /\ dst \in Owners
    BY DEF Owners
  <2>1. Stage(p, At(dst, mem[p].body[src]), At(dst, Held(mem[p], src)), "saving")
    BY <1>8 DEF Copy
  <2>2. mem[p] = disk /\ dst \notin minted
    BY <1>1, <1>8, <2>1 DEF Copy
  <2>3. disk.body[dst].kind = "absent" /\ ring[dst] = NoTexts
    BY <1>3, <2>0, <2>2
  <2> DEFINE c == disk.body[src]
             copied == CopiedRow(c, ring[src], NoTexts)
  <2>4. PICK n \in IF "keyring" \in Faults THEN {{}, {"priv"}, Slot} ELSE {Slot} :
          ring' = [ring EXCEPT ![dst] = [s \in Slot |-> IF s \in n THEN copied[s]
                                                        ELSE NoTexts[s]]]
    BY <1>8, <2>2, <2>3 DEF Copy
  <2> DEFINE after == [s \in Slot |-> IF s \in n THEN copied[s] ELSE NoTexts[s]]
  <2>5. ring'[dst] = after /\ \A q \in Owners \ {dst} : ring'[q] = ring[q]
    BY <2>0, <2>4, RowReplaced
  <2>6. OwnerEdited(disk.body[dst], ring[dst], after, c, Held(disk, src), "saving", disk.mode)
    <3>1. Tidy(disk.body[dst]) /\ Formed(disk.body[dst])
      BY <1>0, <2>0 DEF BodyFits, BodyOK
    <3>2. Held(disk, src) = Yields(c, ring[src])
      BY <1>2, <2>0
    <3> HIDE DEF c
    <3>3. BodyOK(c, ring[src], disk.mode)
      BY <1>0, <2>0 DEF c
    <3>4. OwnerEdited(disk.body[dst], NoTexts, after, c, Yields(c, ring[src]), "saving",
                      disk.mode)
      BY <1>0, <2>0, <2>3, <3>1, <3>3, CopiedEdit
    <3> QED BY <2>3, <3>2, <3>4
  <2>7. Held(disk, src) \in Row
    BY <1>0, <2>0, HeldTyped
  <2> HIDE DEF after
  <2> QED BY <1>0, <2>0, <2>1, <2>2, <2>5, <2>6, <2>7, SingleEdit
<1>9. ASSUME NEW old \in Hosts, NEW o \in Hosts, NEW t \in Typed, Overwrite(p, old, o, t)
      PROVE  EditMade(p)
  <2> DEFINE b == TypedBody(t.kind, t.texts)
  <2>0. old \in Owners /\ o \in Owners
    BY DEF Owners
  <2>1. PICK u \in SealKey(p, b) :
          Stage(p, [q \in {old, o} |-> IF q = old THEN Absent
                                       ELSE SealedBody(b, mem[p].mode, u.key)],
                [q \in {old, o} |-> IF q = old THEN NoTexts ELSE t.texts], "saving")
    BY <1>9 DEF Overwrite
  <2>2. mem[p] = disk /\ o \notin minted /\ old \in Present(disk)
    BY <1>1, <1>9, <2>1 DEF Overwrite
  <2>3. old # o
    BY <1>0, <2>2
  <2>4. PICK row \in Kept(ring[old], ForgottenRow(disk.body[old], ring[old])) :
          ring' = [ring EXCEPT ![old] = row, ![o] = RowFrom(t, ring[o], disk.mode)]
    BY <1>9, <2>2 DEF Overwrite, RowFrom
  <2>5. t \in Entered /\ t.texts \in Row
    BY TypedTyped DEF Entered
  <2>6. u.key \in Nat /\ disk.mode \in Mode
    BY <1>0, SealKeyTyped DEF Config
  <2> DEFINE c == SealedFrom(t, disk.mode, u.key)
             new == [q \in {old, o} |-> IF q = old THEN Absent ELSE c]
             asks == [q \in {old, o} |-> IF q = old THEN NoTexts ELSE t.texts]
  <2>7. c \in Body
    BY <2>6, TypedTyped, SealedBodyTyped DEF SealedFrom
  <2>8. Stage(p, new, asks, "saving")
    BY <2>1, <2>2 DEF SealedFrom
  <2>9. OwnerEdited(disk.body[old], ring[old], row, Absent, NoTexts, "saving", disk.mode)
    BY <1>0, <2>0, RemovedEdit
  <2>10. OwnerEdited(disk.body[o], ring[o], RowFrom(t, ring[o], disk.mode), c, t.texts,
                     "saving", disk.mode)
    BY <1>0, <2>0, <2>5, EnteredEdit
  <2>11. /\ ring'[old] = row /\ ring'[o] = RowFrom(t, ring[o], disk.mode)
         /\ \A q \in Owners \ {old, o} : ring'[q] = ring[q]
    BY <1>0, <2>0, <2>3, <2>4
  <2> HIDE DEF c
  <2>12. /\ new \in [{old, o} -> Body] /\ asks \in [{old, o} -> Row]
         /\ new[old] = Absent /\ asks[old] = NoTexts /\ new[o] = c /\ asks[o] = t.texts
    BY <2>3, <2>5, <2>7, AbsentTyped, NoTextsTyped
  <2> HIDE DEF new, asks
  <2>13. \A q \in {old, o} : OwnerEdited(disk.body[q], ring[q], ring'[q], new[q], asks[q],
                                         "saving", disk.mode)
    BY <2>9, <2>10, <2>11, <2>12
  <2>14. EditForm(p, {old, o}, new, asks, "saving")
    BY <2>8, <2>11, <2>13 DEF EditForm
  <2>15. {old, o} \in SUBSET Owners
    BY <2>0
  <2> QED BY <2>12, <2>14, <2>15 DEF EditMade
<1>10. CASE Touch(p)
  <2> DEFINE new == [o \in {} |-> Absent]
  <2>1. Stage(p, new, NoAsks, "saving") /\ ring' = ring
    BY <1>10 DEF Touch
  <2>2. new \in [{} -> Body] /\ NoAsks \in [{} -> Row]
    BY DEF NoAsks
  <2> HIDE DEF new
  <2>3. EditForm(p, {}, new, NoAsks, "saving")
    BY <2>1 DEF EditForm
  <2> QED BY <2>2, <2>3 DEF EditMade
<1>11. \A o \in Owners : ~TuiSave(p, o)
  BY DEF TuiSave
<1> QED BY <1>4, <1>5, <1>6, <1>7, <1>8, <1>9, <1>10, <1>11 DEF EditStep
-------------------------------------------------------------------------------
(* One command at a time.                                                     *)

\* The only process there is.
LEMMA OnlyOne ==
    ASSUME OneCommand, NEW p \in Procs, RingOK(ring', minted'),
           ConfigOK(disk', ring', minted'), CommandOK(p)'
    PROVE  OneInv'
<1>1. \A q \in Procs : q = p
  BY DEF OneCommand
<1>2. \A q \in Procs : CommandOK(q)'
  BY <1>1
<1> QED BY <1>2 DEF OneInv

\* When a command is over, what is in the file is all there is.
LEMMA DoneOne ==
    ASSUME OneCommand, ProcsOK, NEW p \in Procs, NEW m, Done(p, m),
           RingOK(ring', minted'), ConfigOK(disk', ring', minted')
    PROVE  OneInv'
<1>1. pc'[p] = "idle"
  BY DEF Done, ProcsOK, OneCommand
<1> QED BY <1>1, OnlyOne DEF CommandOK

\* An empty store, or one that was entered at some time, is in order.
LEMMA InitOne == ASSUME Init PROVE OneInv
<1>1. PICK m \in InitModes,
           typed \in [Owners -> Typed \cup {[kind |-> "absent", texts |-> NoTexts]}] :
        LET bodies == [o \in Owners |-> TypedBody(typed[o].kind, typed[o].texts)]
            key == IF m = "vault" THEN 1 ELSE 0
        IN  /\ disk = [mode |-> m, vaultKey |-> key,
                       body |-> [o \in Owners |-> SealedBody(bodies[o], m, key)]]
            /\ ring = [o \in Owners |-> SealedRow(bodies[o], NoTexts, m)]
            /\ minted = Present(disk)
            /\ pc = [p \in Procs |-> "idle"]
  BY DEF Init
<1> DEFINE key == IF m = "vault" THEN 1 ELSE 0
<1>2. /\ disk.mode = m
      /\ \A o \in Owners : /\ typed[o] \in Entered
                           /\ disk.body[o] = SealedFrom(typed[o], m, key)
                           /\ ring[o] = RowFrom(typed[o], NoTexts, m)
  BY <1>1 DEF SealedFrom, RowFrom, Entered
<1> HIDE DEF key
<1>5. \A o \in Owners : BodyOK(disk.body[o], ring[o], disk.mode)
  BY <1>2, SealedHolds
<1>6. \A o \in Owners : o \notin minted => ring[o] = NoTexts
  <2> SUFFICES ASSUME NEW o \in Owners, o \notin minted
               PROVE  ring[o] = NoTexts
    OBVIOUS
  <2>1. disk.body[o].kind = "absent"
    BY <1>1 DEF Present
  <2>2. typed[o].kind = "absent"
    BY <1>2, <2>1, SealedMarks
  <2>3. typed[o].texts = NoTexts
    BY <1>2, <2>2, StoreAssumption DEF Entered
  <2>4. \A s \in Slot : ring[o][s] = NoTexts[s]
    BY <1>2, <2>3, RowTexts DEF NoTexts
  <2> QED BY <1>2, <2>4 DEF RowFrom, SealedRow, NoTexts
<1>7. RingOK(ring, minted)
  BY <1>6 DEF RingOK
<1>8. ConfigOK(disk, ring, minted)
  BY <1>1, <1>5 DEF ConfigOK
<1>9. \A p \in Procs : CommandOK(p)
  BY <1>1 DEF CommandOK
<1> QED BY <1>7, <1>8, <1>9 DEF OneInv

\* The steps that start and end a command.
LEMMA ProcessOne ==
    ASSUME OneCommand, ProcsOK, OneInv, NEW p \in Procs,
           Start(p) \/ Exit(p) \/ UnlockVault(p) \/ Save(p) \/ SaveFails(p) \/ GiveUp(p)
    PROVE  OneInv'
<1>0. RingOK(ring, minted) /\ ConfigOK(disk, ring, minted) /\ CommandOK(p)
  BY DEF OneInv
<1>1. CASE Start(p)
  <2>1. /\ pc'[p] = "ready" /\ mem'[p] = disk
        /\ disk' = disk /\ ring' = ring /\ minted' = minted
    BY <1>1 DEF Start, ProcsOK
  <2>2. CommandOK(p)'
    BY <2>1 DEF CommandOK
  <2> QED BY <1>0, <2>1, <2>2, OnlyOne
<1>2. CASE Exit(p)
  <2>1. pc'[p] = "idle" /\ disk' = disk /\ ring' = ring /\ minted' = minted
    BY <1>2 DEF Exit, ProcsOK
  <2>2. CommandOK(p)'
    BY <2>1 DEF CommandOK
  <2> QED BY <1>0, <2>1, <2>2, OnlyOne
<1>3. CASE UnlockVault(p) \/ SaveFails(p) \/ GiveUp(p)
  <2>1. (\E m : Done(p, m)) /\ disk' = disk /\ ring' = ring /\ minted' = minted
    BY <1>3 DEF UnlockVault, SaveFails, GiveUp
  <2> QED BY <1>0, <2>1, DoneOne
<1>4. CASE Save(p)
  <2>1. /\ pc[p] = "saving" /\ Done(p, ToSave(p)) /\ disk' = ToSave(p)
        /\ ring' = ring /\ minted' = minted
    BY <1>4 DEF Save
  <2>2. ConfigOK(disk', ring', minted')
    BY <1>0, <2>1 DEF CommandOK
  <2> QED BY <1>0, <2>1, <2>2, DoneOne
<1> QED BY <1>1, <1>2, <1>3, <1>4

\* The beginning of a switch or rekey: nothing has moved.
LEMMA BeginOne ==
    ASSUME OneCommand, ProcsOK, StoreOK, CopiesFit, OneInv, NEW p \in Procs,
           NEW m, NEW t, NEW src, NEW new, Begin(p, m, t, src, new),
           \A o \in Owners : Alike(m.body[o], disk.body[o]),
           disk' = disk, ring' = ring, minted' = minted
    PROVE  OneInv'
<1> DEFINE j == [NoJob EXCEPT !.op = "switch", !.target = t,
                              !.src = src, !.new = new, !.todo = Present(m)]
<1>1. pc'[p] = "migrating" /\ mem'[p] = m /\ job'[p] = j
  BY DEF Begin, ProcsOK
<1>2. j.target = t /\ j.todo = Present(m) /\ j.asks = NoAsks
  BY DEF NoJob
<1> HIDE DEF j
<1>3. ASSUME NEW o \in Owners, o \notin Present(m)
      PROVE  BodyOK(m.body[o], ring[o], t)
  <2>1. /\ disk.body[o] \in Body /\ Tidy(disk.body[o]) /\ Formed(disk.body[o])
        /\ NoStray(disk.body[o], ring[o])
    BY DEF StoreOK, Config, CopiesFit, Fits, BodyFits, OneInv, ConfigOK, BodyOK
  <2>2. m.body[o].kind = "absent" /\ disk.body[o].kind = "absent"
    BY <1>3 DEF Present, Alike
  <2>3. /\ \A s \in Slot : ~InRing(m.body[o], s)
        /\ Formed(m.body[o]) /\ NoStray(m.body[o], ring[o])
    BY <2>1, <2>2, AlikeOK, GoneYields
  <2> QED BY <2>2, <2>3 DEF BodyOK, MarksFit
<1>4. HalfOK(m, j, disk, ring)
  BY <1>2, <1>3 DEF HalfOK, Alike, Present
<1>5. CommandOK(p)'
  BY <1>1, <1>4 DEF CommandOK
<1> QED BY <1>5, OnlyOne DEF OneInv

\* A body a switch has still to migrate yields what the file's yields.
LEMMA NextBody ==
    ASSUME StoreOK, ProcsOK, CopiesFit, OneInv, NEW p \in Procs, pc[p] = "migrating",
           NEW o \in Owners, IsNext(p, o)
    PROVE  /\ mem[p].body[o] \in Body /\ ring[o] \in Row /\ disk.body[o] \in Body
           /\ Tidy(mem[p].body[o]) /\ Formed(mem[p].body[o])
           /\ NoStray(mem[p].body[o], ring[o])
           /\ Alike(mem[p].body[o], disk.body[o])
           /\ BodyOK(disk.body[o], ring[o], disk.mode)
           /\ o \in minted
           /\ job[p].target \in Mode
<1>1. HalfOK(mem[p], job[p], disk, ring) /\ HalfFits(mem[p], job[p])
  BY DEF OneInv, CommandOK, CopiesFit, CopyFits
<1>2. o \in job[p].todo /\ o \in Present(mem[p])
  BY <1>1 DEF IsNext, HalfOK
<1>3. Alike(mem[p].body[o], disk.body[o])
  BY <1>1, <1>2 DEF HalfOK
<1>4. BodyOK(disk.body[o], ring[o], disk.mode)
  BY DEF OneInv, ConfigOK
<1>5. o \in Present(disk) /\ Present(disk) \subseteq minted
  BY <1>2, <1>3 DEF Present, Alike, OneInv, ConfigOK
<1>6. Formed(mem[p].body[o]) /\ NoStray(mem[p].body[o], ring[o])
  BY <1>3, <1>4, AlikeOK DEF BodyOK
<1>7. /\ mem[p].body[o] \in Body /\ ring[o] \in Row /\ disk.body[o] \in Body
      /\ Tidy(mem[p].body[o]) /\ job[p].target \in Mode
  BY <1>1 DEF StoreOK, ProcsOK, Config, Job, HalfFits
<1> QED BY <1>3, <1>4, <1>5, <1>6, <1>7

\* A row that a switch writes for an owner who is there keeps the file in order.
LEMMA RowWritten ==
    ASSUME StoreOK, OneInv, NEW o \in Owners, o \in minted, NEW row,
           ring' = [ring EXCEPT ![o] = row], disk' = disk, minted' = minted,
           NoStray(disk.body[o], row)
    PROVE  RingOK(ring', minted') /\ ConfigOK(disk', ring', minted')
<1>1. ring'[o] = row /\ \A q \in Owners \ {o} : ring'[q] = ring[q]
  BY RowReplaced
<1>2. RingOK(ring, minted) /\ ConfigOK(disk, ring, minted)
  BY DEF OneInv
<1>3. RingOK(ring', minted')
  BY <1>1, <1>2 DEF RingOK
<1>4. \A q \in Owners : BodyOK(disk.body[q], ring'[q], disk.mode)
  BY <1>1, <1>2 DEF ConfigOK, BodyOK
<1> QED BY <1>2, <1>3, <1>4 DEF ConfigOK

\* What a migration makes of a body and its row.
LEMMA MigrateKeeps ==
    ASSUME StoreOK, ProcsOK, CopiesFit, OneInv, NEW p \in Procs, NEW o \in Owners,
           Migrate(p, o)
    PROVE  LET moved == MovedBody(mem[p].body[o], ring[o], job[p].target, job[p].new)
           IN  /\ pc[p] = "migrating" /\ pc' = pc /\ disk' = disk /\ minted' = minted
               /\ mem'[p] = [mem[p] EXCEPT !.body[o] = moved]
               /\ mem'[p].body[o] = moved
               /\ \A q \in Owners \ {o} : mem'[p].body[q] = mem[p].body[q]
               /\ job'[p] = [job[p] EXCEPT !.todo = @ \ {o}]
               /\ ring' = [ring EXCEPT ![o] = ring'[o]]
               /\ \A q \in Owners \ {o} : ring'[q] = ring[q]
               /\ \A s \in Slot : Yields(moved, ring'[o])[s] = Found(mem[p].body[o], ring[o], s)
               /\ BodyOK(moved, ring'[o], job[p].target)
               /\ moved.kind = mem[p].body[o].kind
               /\ NoStray(disk.body[o], ring'[o])
               /\ ring'[o]["cert"] \in {Nil, ring[o]["cert"], mem[p].body[o].sec["cert"].val}
               /\ moved.sec["cert"].val \in {Nil, ring[o]["cert"], mem[p].body[o].sec["cert"].val}
<1> DEFINE b == mem[p].body[o]
           j == job[p]
           moved == MovedBody(b, ring[o], j.target, j.new)
<1>0. pc[p] = "migrating" /\ IsNext(p, o)
  BY DEF Migrate
<1>1. /\ b \in Body /\ ring[o] \in Row /\ disk.body[o] \in Body
      /\ Tidy(b) /\ Formed(b) /\ NoStray(b, ring[o]) /\ Alike(b, disk.body[o])
      /\ j.target \in Mode
  BY <1>0, NextBody
<1>2. PICK row \in Kept(ring[o], MovedRow(b, ring[o], j.target)) :
        ring' = [ring EXCEPT ![o] = row]
  BY DEF Migrate
<1>3. ring'[o] = row /\ \A q \in Owners \ {o} : ring'[q] = ring[q]
  BY <1>2, RowReplaced
<1>5. /\ \A s \in Slot : Yields(moved, row)[s] = Found(b, ring[o], s)
      /\ BodyOK(moved, row, j.target)
      /\ NoStray(b, row)
      /\ row["cert"] \in {Nil, ring[o]["cert"], b.sec["cert"].val}
      /\ moved.sec["cert"].val \in {Nil, ring[o]["cert"], b.sec["cert"].val}
  BY <1>1, <1>2, MigrationKeeps
<1>6. NoStray(disk.body[o], row)
  BY <1>1, <1>5, AlikeOK
<1>7. moved.kind = b.kind
  BY <1>1, MovedFields
<1>8. /\ pc' = pc /\ disk' = disk /\ minted' = minted
      /\ mem' = [mem EXCEPT ![p].body[o] = moved]
      /\ job' = [job EXCEPT ![p].todo = @ \ {o}]
  BY DEF Migrate
<1> HIDE DEF moved
<1>9. /\ mem'[p] = [mem[p] EXCEPT !.body[o] = moved]
      /\ mem'[p].body[o] = moved
      /\ \A q \in Owners \ {o} : mem'[p].body[q] = mem[p].body[q]
      /\ job'[p] = [job[p] EXCEPT !.todo = @ \ {o}]
  BY <1>8 DEF ProcsOK, Config
<1>10. ring' = [ring EXCEPT ![o] = ring'[o]]
  BY <1>2, <1>3
<1> QED BY <1>0, <1>3, <1>5, <1>6, <1>7, <1>8, <1>9, <1>10 DEF moved

\* The steps of a switch or rekey.
LEMMA SwitchOne ==
    ASSUME OneCommand, StoreOK, ProcsOK, CopiesFit, OneInv, NEW p \in Procs, SwitchStep(p)
    PROVE  OneInv'
<1>0. /\ RingOK(ring, minted) /\ ConfigOK(disk, ring, minted) /\ CommandOK(p)
      /\ \A o \in Owners : disk.body[o] \in Body
  BY DEF OneInv, StoreOK, Config
<1>1. ASSUME NEW t \in Modes, Switch(p, t)
      PROVE  OneInv'
  <2>1. /\ mem[p] = disk /\ disk' = disk /\ ring' = ring /\ minted' = minted
        /\ \E src, new : Begin(p, disk, t, src, new)
    BY <1>0, <1>1 DEF Switch, CommandOK
  <2>2. \A o \in Owners : Alike(disk.body[o], disk.body[o])
    BY DEF Alike
  <2> QED BY <2>1, <2>2, BeginOne
<1>2. CASE Rekey(p)
  <2> DEFINE bodies == [o \in Owners |-> DecryptedBody(mem[p].body[o])]
             c == [mode |-> "undecided", vaultKey |-> 0, body |-> bodies]
  <2>1. mem[p] = disk /\ disk' = disk /\ ring' = ring /\ minted' = minted
    BY <1>0, <1>2 DEF Rekey, CommandOK
  <2>2. Begin(p, c, "vault", 0, keys + 1)
    BY <1>2 DEF Rekey
  <2>3. \A o \in Owners : Alike(bodies[o], disk.body[o])
    BY <1>0, <2>1, DecryptedAlike
  <2> HIDE DEF bodies
  <2>4. \A o \in Owners : Alike(c.body[o], disk.body[o])
    BY <2>3
  <2> HIDE DEF c
  <2> QED BY <2>1, <2>2, <2>4, BeginOne
<1>3. ASSUME NEW o \in Owners, Migrate(p, o)
      PROVE  OneInv'
  <2> DEFINE b == mem[p].body[o]
             j == job[p]
             moved == MovedBody(b, ring[o], j.target, j.new)
             k == [j EXCEPT !.todo = @ \ {o}]
  <2>1. /\ pc[p] = "migrating" /\ pc' = pc /\ disk' = disk /\ minted' = minted
        /\ mem'[p].body[o] = moved
        /\ \A q \in Owners \ {o} : mem'[p].body[q] = mem[p].body[q] /\ ring'[q] = ring[q]
        /\ job'[p] = k /\ ring' = [ring EXCEPT ![o] = ring'[o]]
        /\ BodyOK(moved, ring'[o], j.target) /\ moved.kind = b.kind
        /\ NoStray(disk.body[o], ring'[o])
    <3>1. /\ pc[p] = "migrating" /\ pc' = pc /\ disk' = disk /\ minted' = minted
          /\ mem'[p] = [mem[p] EXCEPT !.body[o] = moved]
          /\ mem'[p].body[o] = moved
          /\ \A q \in Owners \ {o} : mem'[p].body[q] = mem[p].body[q]
          /\ job'[p] = k
          /\ ring' = [ring EXCEPT ![o] = ring'[o]]
          /\ \A q \in Owners \ {o} : ring'[q] = ring[q]
          /\ \A s \in Slot : Yields(moved, ring'[o])[s] = Found(b, ring[o], s)
          /\ BodyOK(moved, ring'[o], j.target)
          /\ moved.kind = b.kind
          /\ NoStray(disk.body[o], ring'[o])
          /\ ring'[o]["cert"] \in {Nil, ring[o]["cert"], b.sec["cert"].val}
          /\ moved.sec["cert"].val \in {Nil, ring[o]["cert"], b.sec["cert"].val}
      BY <1>3, MigrateKeeps
    <3> QED BY <3>1
  <2>2. /\ k.target = j.target /\ k.asks = j.asks /\ k.todo = j.todo \ {o}
    BY DEF ProcsOK, Job
  <2>3. o \in minted
    BY <1>3, <2>1, NextBody DEF Migrate
  <2> HIDE DEF moved, k
  <2>4. RingOK(ring', minted') /\ ConfigOK(disk', ring', minted')
    BY <2>1, <2>3, RowWritten
  <2>5. HalfOK(mem[p], j, disk, ring)
    BY <1>0, <2>1 DEF CommandOK
  <2>6. /\ k.asks = NoAsks
        /\ k.todo \subseteq Present(mem'[p])
    BY <2>1, <2>2, <2>5 DEF HalfOK, Present
  <2>7. ASSUME NEW q \in Owners
        PROVE  /\ mem'[p].body[q].kind = disk.body[q].kind
               /\ IF q \in k.todo THEN Alike(mem'[p].body[q], disk.body[q])
                  ELSE BodyOK(mem'[p].body[q], ring'[q], k.target)
    <3>1. CASE q = o
      BY <2>1, <2>2, <2>5, <3>1 DEF HalfOK
    <3>2. CASE q # o
      BY <2>1, <2>2, <2>5, <3>2 DEF HalfOK
    <3> QED BY <3>1, <3>2
  <2>8. HalfOK(mem'[p], k, disk', ring')
    BY <2>1, <2>6, <2>7 DEF HalfOK
  <2>9. CommandOK(p)'
    BY <2>1, <2>8 DEF CommandOK
  <2> QED BY <2>4, <2>9, OnlyOne
<1>4. ASSUME NEW o \in Owners, MigrateFails(p, o)
      PROVE  OneInv'
  <2> DEFINE b == mem[p].body[o]
  <2>1. PICK f \in Failures(b, ring[o], job[p]) :
          /\ ring' = [ring EXCEPT ![o] = f.row] /\ \E m : Done(p, m)
    BY <1>4 DEF MigrateFails
  <2>2. pc[p] = "migrating" /\ IsNext(p, o) /\ disk' = disk /\ minted' = minted
    BY <1>4 DEF MigrateFails
  <2>3. /\ b \in Body /\ Tidy(b) /\ Formed(b) /\ ring[o] \in Row /\ NoStray(b, ring[o])
        /\ Alike(b, disk.body[o]) /\ o \in minted
    BY <2>2, NextBody
  <2>4. NoStray(b, f.row)
    BY <2>3, FailureKeeps
  <2>5. NoStray(disk.body[o], f.row)
    BY <2>3, <2>4, AlikeOK
  <2>6. RingOK(ring', minted') /\ ConfigOK(disk', ring', minted')
    BY <2>1, <2>2, <2>3, <2>5, RowWritten
  <2> QED BY <2>1, <2>6, DoneOne
<1>5. CASE Flip(p)
  <2>1. /\ pc[p] = "migrating" /\ job[p].todo = {}
        /\ mem' = [mem EXCEPT ![p].mode = job[p].target, ![p].vaultKey = job[p].new]
        /\ pc'[p] = "saving" /\ job' = job
        /\ disk' = disk /\ ring' = ring /\ minted' = minted
    BY <1>5 DEF Flip, ProcsOK
  <2>2. HalfOK(mem[p], job[p], disk, ring)
    BY <1>0, <2>1 DEF CommandOK
  <2>3. mem'[p].body = mem[p].body /\ mem'[p].mode = job[p].target
    <3>1. mem'[p] = [mem[p] EXCEPT !.mode = job[p].target, !.vaultKey = job[p].new]
      BY <2>1 DEF ProcsOK
    <3> QED BY <3>1 DEF ProcsOK, Config
  <2>4. job[p].op = "switch"
    BY <2>1 DEF CopiesFit, CopyFits, HalfFits
  <2>5. ToSave(p)' = mem'[p]
    BY <2>1, <2>4 DEF ToSave
  <2>6. ConfigOK(mem'[p], ring', minted')
    <3>1. Present(mem'[p]) = Present(disk)
      BY <2>2, <2>3 DEF Present, HalfOK
    <3>2. \A o \in Owners : BodyOK(mem'[p].body[o], ring'[o], mem'[p].mode)
      BY <2>1, <2>2, <2>3 DEF HalfOK
    <3> QED BY <1>0, <2>1, <2>2, <2>3, <3>1, <3>2 DEF ConfigOK, HalfOK
  <2>7. CommandOK(p)'
    BY <2>1, <2>2, <2>4, <2>5, <2>6 DEF CommandOK, HalfOK
  <2> QED BY <1>0, <2>1, <2>7, OnlyOne
<1> QED BY <1>1, <1>2, <1>3, <1>4, <1>5 DEF SwitchStep

\* What an edit leaves in its job: the config it is about to save.
LEMMA StagedJob ==
    ASSUME ProcsOK, NEW p \in Procs, NEW S \in SUBSET Owners, NEW new \in [S -> Body],
           NEW asks, NEW step, Stage(p, new, asks, step)
    PROVE  /\ pc'[p] = step /\ mem' = mem /\ disk' = disk /\ minted' = minted \cup S
           /\ job'[p].op = "edit" /\ job'[p].asks = asks
           /\ job'[p].next.mode = mem[p].mode /\ job'[p].next.vaultKey = mem[p].vaultKey
           /\ \A o \in Owners : job'[p].next.body[o] = IF o \in S THEN new[o]
                                                       ELSE mem[p].body[o]
<1> DEFINE bodies == [o \in Owners |-> IF o \in DOMAIN new THEN new[o] ELSE mem[p].body[o]]
           next == [mem[p] EXCEPT !.body = bodies]
           j == [NoJob EXCEPT !.op = "edit", !.asks = asks, !.next = next]
<1>1. /\ job' = [job EXCEPT ![p] = j] /\ pc' = [pc EXCEPT ![p] = step]
      /\ mem' = mem /\ disk' = disk /\ minted' = minted \cup DOMAIN new
  BY DEF Stage
<1>2. DOMAIN new = S
  OBVIOUS
<1>3. \A o \in Owners : bodies[o] = IF o \in S THEN new[o] ELSE mem[p].body[o]
  BY <1>2
<1> HIDE DEF bodies
<1>4. next.body = bodies /\ next.mode = mem[p].mode /\ next.vaultKey = mem[p].vaultKey
  BY DEF ProcsOK, Config
<1> HIDE DEF next
<1>5. j.op = "edit" /\ j.asks = asks /\ j.next = next
  BY DEF NoJob
<1> HIDE DEF j
<1>6. job'[p] = j /\ pc'[p] = step
  BY <1>1 DEF ProcsOK
<1> QED BY <1>1, <1>2, <1>3, <1>4, <1>5, <1>6

\* Staging an edit.
LEMMA EditOne ==
    ASSUME OneCommand, StoreOK, ProcsOK, CopiesFit, OneInv,
           NEW p \in Procs, EditStep(p)
    PROVE  OneInv'
<1>0. RingOK(ring, minted) /\ ConfigOK(disk, ring, minted) /\ CommandOK(p)
  BY DEF OneInv
<1>1. EditMade(p)
  BY EditsKeep DEF OneCommand
<1>2. PICK S \in SUBSET Owners : \E new \in [S -> Body], asks \in [S -> Row],
           step \in {"saving", "failing"} : EditForm(p, S, new, asks, step)
  BY <1>1 DEF EditMade
<1>3. PICK new \in [S -> Body], asks \in [S -> Row], step \in {"saving", "failing"} :
         EditForm(p, S, new, asks, step)
  BY <1>2
<1>4. Stage(p, new, asks, step)
  BY <1>3 DEF EditForm
<1>5. mem[p] = disk
  BY <1>0, <1>4 DEF Stage, CommandOK
<1> DEFINE j == job'[p]
<1>6. /\ pc'[p] = step /\ disk' = disk /\ minted' = minted \cup S
      /\ j.op = "edit" /\ j.asks = asks
      /\ j.next.mode = disk.mode /\ j.next.vaultKey = disk.vaultKey
      /\ \A o \in Owners : j.next.body[o] = IF o \in S THEN new[o] ELSE disk.body[o]
  BY <1>4, <1>5, StagedJob
<1> HIDE DEF j
<1>7. /\ \A o \in Owners \ S : ring'[o] = ring[o]
      /\ \A o \in S : OwnerEdited(disk.body[o], ring[o], ring'[o], new[o], asks[o],
                                  step, disk.mode)
  BY <1>3 DEF EditForm
<1>8. RingOK(ring', minted')
  BY <1>0, <1>6, <1>7 DEF RingOK, OwnerEdited
<1>9. ConfigOK(disk', ring', minted')
  <2>1. \A o \in Owners : BodyOK(disk.body[o], ring'[o], disk.mode)
    BY <1>0, <1>7 DEF ConfigOK, OwnerEdited, BodyOK
  <2> QED BY <1>0, <1>6, <2>1 DEF ConfigOK
<1>10. CommandOK(p)'
  <2>1. CASE step = "failing"
    BY <1>6, <2>1 DEF CommandOK
  <2>2. CASE step = "saving"
    <3>1. ToSave(p)' = j.next
      BY <1>6 DEF ToSave, j
    <3>2. ConfigOK(j.next, ring', minted')
      <4>1. \A o \in Owners : BodyOK(j.next.body[o], ring'[o], j.next.mode)
        BY <1>0, <1>6, <1>7, <2>2 DEF ConfigOK, OwnerEdited
      <4>2. Present(j.next) \subseteq minted'
        BY <1>0, <1>6 DEF Present, ConfigOK
      <4> QED BY <1>0, <1>6, <4>1, <4>2 DEF ConfigOK
    <3>3. EditOK(j, disk', ring')
      BY <1>6, <1>7, <2>2 DEF EditOK, OwnerEdited
    <3> QED BY <1>6, <2>2, <3>1, <3>2, <3>3 DEF CommandOK, j
  <2> QED BY <2>1, <2>2
<1> QED BY <1>8, <1>9, <1>10, OnlyOne

\* OneInv is inductive, relative to what is proved of every store.
LEMMA OneStep ==
    ASSUME OneCommand
    PROVE  TypeOK /\ CopiesFit /\ OneInv /\ [Next]_vars => OneInv'
<1> SUFFICES ASSUME StoreOK, ProcsOK, CopiesFit, OneInv, [Next]_vars
             PROVE  OneInv'
  BY TypeParts
<1>1. ASSUME DropCache \/ UNCHANGED vars
      PROVE  OneInv'
  <2>1. /\ disk' = disk /\ ring' = ring /\ minted' = minted
        /\ pc' = pc /\ mem' = mem /\ job' = job
    BY <1>1 DEF DropCache, vars
  <2> QED BY <2>1 DEF OneInv, CommandOK, ToSave
<1>2. ASSUME NEW p \in Procs, SwitchStep(p)
      PROVE  OneInv'
  BY <1>2, SwitchOne
<1>3. ASSUME NEW p \in Procs, EditStep(p)
      PROVE  OneInv'
  BY <1>3, EditOne
<1>4. ASSUME NEW p \in Procs,
             Start(p) \/ Exit(p) \/ UnlockVault(p) \/ Save(p) \/ SaveFails(p) \/ GiveUp(p)
      PROVE  OneInv'
  BY <1>4, ProcessOne
<1> QED BY <1>1, <1>2, <1>3, <1>4 DEF Next

\* Commands one after the other keep their store in order.
LEMMA CommandsInOrder ==
    ASSUME OneCommand
    PROVE  Spec => [](TypeOK /\ CopiesFit /\ OneInv)
<1>1. Spec => []CopiesFit
  BY CommandsFit DEF OneCommand
<1>2. Init => OneInv
  BY InitOne
<1>3. TypeOK /\ CopiesFit /\ OneInv /\ [Next]_vars => OneInv'
  BY OneStep
<1> QED BY <1>1, <1>2, <1>3, StoreTyped, PTL DEF Spec
-------------------------------------------------------------------------------
(* What the user is promised.                                                 *)

\* What a saved edit asked for is what the next connection reads, when commands
\* come one at a time and the keyring does as it is told: the form or flag that
\* names a secret replaces it and the rest stays, in any mode, whatever was left
\* in the keyring by commands before it.  Only a certificate that was not asked
\* for may be an earlier key's, where the key is in the keyring.
THEOREM CommandsDeliver ==
    ASSUME OneCommand, "keyring" \notin Faults
    PROVE  Spec => EditDelivers
<1>1. ASSUME TypeOK, CopiesFit, OneInv, NEW p \in Procs, Save(p), job[p].op = "edit",
             NEW o \in DOMAIN job[p].asks, NEW s \in Slot
      PROVE  \/ Reads(disk'.body[o], ring'[o], disk'.vaultKey)[s] = job[p].asks[o][s]
             \/ TakenOver(disk'.body[o], s, job[p].asks[o][s])
  <2> DEFINE next == job[p].next
  <2>1. pc[p] = "saving" /\ disk' = next /\ ring' = ring
    BY <1>1 DEF Save, ToSave
  <2>2. job[p].asks \in Asks
    BY <1>1 DEF TypeOK, Job
  <2>3. o \in Owners
    BY <2>2 DEF Asks
  <2>4. Fits(next) /\ EditOK(job[p], disk, ring)
    BY <1>1, <2>1 DEF CopiesFit, CopyFits, ToSave, OneInv, CommandOK
  <2>5. Reads(next.body[o], ring[o], next.vaultKey) = Yields(next.body[o], ring[o])
    BY <2>3, <2>4, FitReads DEF Fits
  <2>6. \/ Yields(next.body[o], ring[o])[s] = job[p].asks[o][s]
        \/ TakenOver(next.body[o], s, job[p].asks[o][s])
    BY <2>3, <2>4 DEF EditOK
  <2> QED BY <2>1, <2>5, <2>6
<1>2. TypeOK /\ CopiesFit /\ OneInv =>
         [\A p \in Procs : Save(p) /\ job[p].op = "edit" =>
             \A o \in DOMAIN job[p].asks, s \in Slot :
                \/ Reads(disk'.body[o], ring'[o], disk'.vaultKey)[s] = job[p].asks[o][s]
                \/ TakenOver(disk'.body[o], s, job[p].asks[o][s])
                \/ LeftBlank(p, o, s, disk'.body[o])]_vars
  BY <1>1
<1> QED BY <1>2, CommandsInOrder, PTL DEF EditDelivers

\* A mode switch or rekey re-hosts each secret and changes none, whatever fails:
\* a body reads after its migration, under the new key, as it did before, except
\* that a key without a certificate gets the one in its owner's entry, if any.
THEOREM SwitchesKeep ==
    ASSUME OneCommand
    PROVE  Spec => SwitchKeeps
<1>1. ASSUME TypeOK, CopiesFit, OneInv, NEW p \in Procs, NEW o \in Owners, Migrate(p, o),
             NEW s \in Slot
      PROVE  Reads(mem'[p].body[o], ring'[o], job[p].new)[s] =
             IF Bereft(mem[p].body[o], s) THEN ring[o][s]
             ELSE Reads(mem[p].body[o], ring[o], job[p].src)[s]
  <2> DEFINE b == mem[p].body[o]
             j == job[p]
             moved == MovedBody(b, ring[o], j.target, j.new)
  <2>0. StoreOK /\ ProcsOK /\ j.target \in Mode /\ j.new \in Nat
    BY <1>1, TypeParts DEF TypeOK, Job
  <2>1. /\ pc[p] = "migrating" /\ pc' = pc /\ disk' = disk /\ minted' = minted
        /\ mem'[p] = [mem[p] EXCEPT !.body[o] = moved]
        /\ mem'[p].body[o] = moved
        /\ \A q \in Owners \ {o} : mem'[p].body[q] = mem[p].body[q]
        /\ job'[p] = [job[p] EXCEPT !.todo = @ \ {o}]
        /\ ring' = [ring EXCEPT ![o] = ring'[o]]
        /\ \A q \in Owners \ {o} : ring'[q] = ring[q]
        /\ \A x \in Slot : Yields(moved, ring'[o])[x] = Found(b, ring[o], x)
        /\ BodyOK(moved, ring'[o], j.target)
        /\ moved.kind = b.kind
        /\ NoStray(disk.body[o], ring'[o])
        /\ ring'[o]["cert"] \in {Nil, ring[o]["cert"], b.sec["cert"].val}
        /\ moved.sec["cert"].val \in {Nil, ring[o]["cert"], b.sec["cert"].val}
    BY <1>1, <2>0, MigrateKeeps
  <2>2. b \in Body /\ ring[o] \in Row /\ Tidy(b)
    BY <1>1, <2>0, NextBody DEF Migrate
  <2>3. ~Stuck(b, ring[o], j.src)
    BY <1>1 DEF Migrate
  <2>4. Reads(b, ring[o], j.src) = Yields(b, ring[o])
    <3>1. \A x \in Slot : ~Locked(b, x, j.src)
      BY <2>2, <2>3 DEF Stuck, Locked, Tidy
    <3> QED BY <3>1, UnlockedReads
  <2>5. Reads(moved, ring'[o], j.new) = Yields(moved, ring'[o])
    <3>1. BodyFits(moved, j.target, j.new)
      BY <2>0, <2>2, MovedFits
    <3> HIDE DEF moved
    <3> QED BY <3>1, FitReads
  <2> HIDE DEF moved
  <2> QED BY <2>1, <2>4, <2>5 DEF Found
<1>2. TypeOK /\ CopiesFit /\ OneInv =>
         [\A p \in Procs, o \in Owners : Migrate(p, o) =>
             \A s \in Slot :
                 Reads(mem'[p].body[o], ring'[o], job[p].new)[s] =
                 IF Bereft(mem[p].body[o], s) THEN ring[o][s]
                 ELSE Reads(mem[p].body[o], ring[o], job[p].src)[s]]_vars
  BY <1>1
<1> QED BY <1>2, CommandsInOrder, PTL DEF SwitchKeeps
-------------------------------------------------------------------------------
(* The store implements the map.                                              *)

\* While a switch is under way nothing changes for the owners: what has moved
\* yields what it yielded or a certificate where there was none, and the file has
\* no markers to follow.
LEMMA MapInvStep ==
    ASSUME OneCommand, StoreOK, ProcsOK, CopiesFit, OneInv, MapInv,
           [Next]_vars, [KeyringKept]_vars
    PROVE  MapInv'
<1>0. ASSUME NEW p \in Procs, SwitchOK(p)'
      PROVE  MapInv'
  <2>1. \A q \in Procs : q = p
    BY DEF OneCommand
  <2>2. \A q \in Procs : SwitchOK(q)'
    BY <1>0, <2>1
  <2> QED BY <2>2 DEF MapInv
<1>1. ASSUME DropCache \/ UNCHANGED vars
      PROVE  MapInv'
  <2>1. /\ disk' = disk /\ ring' = ring
        /\ pc' = pc /\ mem' = mem /\ job' = job
    BY <1>1 DEF DropCache, vars
  <2> QED BY <2>1 DEF MapInv, SwitchOK
<1>2. ASSUME NEW p \in Procs, pc'[p] \notin {"migrating", "saving"}
      PROVE  MapInv'
  BY <1>0, <1>2 DEF SwitchOK
<1>3. ASSUME NEW p \in Procs,
             Start(p) \/ Exit(p) \/ UnlockVault(p) \/ Save(p) \/ SaveFails(p) \/ GiveUp(p)
      PROVE  MapInv'
  <2>1. pc'[p] \in {"ready", "idle"}
    BY <1>3 DEF Start, Exit, UnlockVault, Save, SaveFails, GiveUp, Done, ProcsOK
  <2> QED BY <1>2, <2>1
<1>4. ASSUME NEW p \in Procs, NEW m, NEW t, NEW src, NEW new, Begin(p, m, t, src, new),
             disk' = disk, ring' = ring, mem[p].mode # "keyring", pc[p] = "ready",
             \A o \in Owners : Alike(m.body[o], disk.body[o])
      PROVE  MapInv'
  <2>1. pc'[p] = "migrating" /\ mem'[p] = m
    BY <1>4 DEF Begin, ProcsOK
  <2>2. mem[p] = disk
    BY <1>4 DEF OneInv, CommandOK
  <2>3. SameYields(m, disk, ring)
    BY <1>4, AlikeOK DEF SameYields
  <2>4. SwitchOK(p)'
    BY <1>4, <2>1, <2>2, <2>3 DEF SwitchOK
  <2> QED BY <1>0, <2>4
<1>5. ASSUME NEW p \in Procs, NEW t \in Modes, Switch(p, t)
      PROVE  MapInv'
  <2>1. mem[p].mode # "keyring"
    <3>1. [KeyringKept]_vars /\ pc' # pc
      BY <1>5 DEF Switch, Begin, ProcsOK
    <3> QED BY <1>5, <3>1 DEF KeyringKept, vars
  <2>2. mem[p] = disk
    BY <1>5 DEF Switch, OneInv, CommandOK
  <2>3. \A o \in Owners : Alike(mem[p].body[o], disk.body[o])
    BY <2>2 DEF Alike
  <2>4. /\ disk' = disk /\ ring' = ring /\ pc[p] = "ready"
        /\ \E src, new : Begin(p, mem[p], t, src, new)
    BY <1>5 DEF Switch
  <2> QED BY <1>4, <2>1, <2>3, <2>4
<1>6. ASSUME NEW p \in Procs, Rekey(p)
      PROVE  MapInv'
  <2> DEFINE bodies == [o \in Owners |-> DecryptedBody(mem[p].body[o])]
             c == [mode |-> "undecided", vaultKey |-> 0, body |-> bodies]
  <2>1. /\ disk' = disk /\ ring' = ring /\ pc[p] = "ready" /\ mem[p].mode = "vault"
        /\ Begin(p, c, "vault", 0, keys + 1)
    BY <1>6 DEF Rekey
  <2>2. mem[p] = disk
    BY <2>1 DEF OneInv, CommandOK
  <2>3. \A o \in Owners : Alike(bodies[o], disk.body[o])
    BY <2>2, DecryptedAlike DEF StoreOK, Config
  <2> HIDE DEF bodies
  <2>4. \A o \in Owners : Alike(c.body[o], disk.body[o])
    BY <2>3
  <2> HIDE DEF c
  <2> QED BY <1>4, <2>1, <2>4
<1>7. ASSUME NEW p \in Procs, NEW o \in Owners, Migrate(p, o)
      PROVE  MapInv'
  <2> DEFINE b == mem[p].body[o]
             j == job[p]
             moved == MovedBody(b, ring[o], j.target, j.new)
  <2>1. /\ pc[p] = "migrating" /\ pc' = pc /\ disk' = disk /\ minted' = minted
        /\ mem'[p] = [mem[p] EXCEPT !.body[o] = moved]
        /\ mem'[p].body[o] = moved
        /\ \A q \in Owners \ {o} : mem'[p].body[q] = mem[p].body[q]
        /\ job'[p] = [job[p] EXCEPT !.todo = @ \ {o}]
        /\ ring' = [ring EXCEPT ![o] = ring'[o]]
        /\ \A q \in Owners \ {o} : ring'[q] = ring[q]
        /\ \A s \in Slot : Yields(moved, ring'[o])[s] = Found(b, ring[o], s)
        /\ BodyOK(moved, ring'[o], j.target)
        /\ moved.kind = b.kind
        /\ NoStray(disk.body[o], ring'[o])
        /\ ring'[o]["cert"] \in {Nil, ring[o]["cert"], b.sec["cert"].val}
        /\ moved.sec["cert"].val \in {Nil, ring[o]["cert"], b.sec["cert"].val}
    BY <1>7, MigrateKeeps
  <2> HIDE DEF moved
  <2>2. disk.mode # "keyring" /\ SameYields(mem[p], disk, ring)
    BY <2>1 DEF MapInv, SwitchOK
  <2>3. Yields(disk.body[o], ring'[o]) = Yields(disk.body[o], ring[o])
    BY <2>2 DEF OneInv, ConfigOK, BodyOK, MarksFit, Yields
  <2>4. SameYields(mem'[p], disk', ring')
    <3> SUFFICES ASSUME NEW q \in Owners, NEW s \in Slot
                 PROVE  \/ Yields(mem'[p].body[q], ring'[q])[s] =
                           Yields(disk.body[q], ring'[q])[s]
                        \/ s = "cert" /\ Yields(disk.body[q], ring'[q])[s] = Nil
      BY <2>1 DEF SameYields
    <3>0. \/ Yields(mem[p].body[q], ring[q])[s] = Yields(disk.body[q], ring[q])[s]
          \/ s = "cert" /\ Yields(disk.body[q], ring[q])[s] = Nil
      BY <2>2 DEF SameYields
    <3>1. CASE q = o /\ ~Bereft(b, s)
      BY <2>1, <2>3, <3>0, <3>1 DEF Found
    <3>2. CASE q = o /\ Bereft(b, s)
      <4>1. ~InRing(b, s) /\ b.sec[s].val = Nil
        <5>1. IsNext(p, o)
          BY <1>7 DEF Migrate
        <5>2. b \in Body /\ Tidy(b) /\ Formed(b) /\ NoStray(b, ring[o])
          BY <2>1, <5>1, NextBody
        <5> HIDE DEF b
        <5> QED BY <3>2, <5>2, TextFound
      <4>2. Yields(b, ring[o])[s] = Nil /\ s = "cert"
        BY <3>2, <4>1 DEF Yields, Bereft
      <4> QED BY <2>3, <3>0, <3>2, <4>2
    <3>3. CASE q # o
      BY <2>1, <3>0, <3>3
    <3> QED BY <3>1, <3>2, <3>3
  <2>5. SwitchOK(p)'
    BY <2>1, <2>2, <2>4 DEF SwitchOK
  <2> QED BY <1>0, <2>5
<1>8. ASSUME NEW p \in Procs, NEW o \in Owners, MigrateFails(p, o)
      PROVE  MapInv'
  <2>1. pc'[p] \in {"ready", "idle"}
    BY <1>8 DEF MigrateFails, Done, ProcsOK
  <2> QED BY <1>2, <2>1
<1>9. ASSUME NEW p \in Procs, Flip(p)
      PROVE  MapInv'
  <2>1. /\ pc[p] = "migrating" /\ pc'[p] = "saving" /\ disk' = disk /\ ring' = ring
        /\ mem'[p] = [mem[p] EXCEPT !.mode = job[p].target, !.vaultKey = job[p].new]
    BY <1>9 DEF Flip, ProcsOK
  <2>2. mem'[p].body = mem[p].body
    BY <2>1 DEF ProcsOK, Config
  <2>3. SameYields(mem'[p], disk', ring')
    BY <2>1, <2>2 DEF MapInv, SwitchOK, SameYields
  <2>4. SwitchOK(p)'
    BY <2>1, <2>3 DEF SwitchOK
  <2> QED BY <1>0, <2>4
<1>10. ASSUME NEW p \in Procs, EditStep(p)
       PROVE  MapInv'
  <2>1. EditMade(p)
    BY <1>10, EditsKeep DEF OneCommand
  <2>2. PICK S \in SUBSET Owners : \E new \in [S -> Body], asks \in [S -> Row],
             step \in {"saving", "failing"} : EditForm(p, S, new, asks, step)
    BY <2>1 DEF EditMade
  <2>3. PICK new \in [S -> Body], asks \in [S -> Row], step \in {"saving", "failing"} :
           EditForm(p, S, new, asks, step)
    BY <2>2
  <2>4. job'[p].op = "edit" /\ pc'[p] # "migrating"
    BY <2>3, StagedJob DEF EditForm
  <2>5. SwitchOK(p)'
    BY <2>4 DEF SwitchOK
  <2> QED BY <1>0, <2>5
<1> QED BY <1>1, <1>3, <1>5, <1>6, <1>7, <1>8, <1>9, <1>10 DEF Next, SwitchStep

\* What the command under way asks for, as the map is told.
Asking == IF \E p \in Procs : job[p].asks # NoAsks
          THEN job[CHOOSE p \in Procs : job[p].asks # NoAsks].asks ELSE NoAsks

\* What the file and the keyring hold, as the map is told.
Holding == [o \in Owners |-> Held(disk, o)]

\* The certificates that lie around, as the map is told.
Around == [o \in Owners |->
             ({ring[o]["cert"]} \cup {mem[p].body[o].sec["cert"].val : p \in Procs}) \ {Nil}]

\* There is one command, so it is that command's job.
LEMMA AskingJob ==
    ASSUME OneCommand, NEW p \in Procs
    PROVE  Asking = job[p].asks /\ Asking' = job'[p].asks
<1>1. \A q \in Procs : q = p
  BY DEF OneCommand
<1>2. Asking = job[p].asks
  BY <1>1 DEF Asking
<1>3. Asking' = job'[p].asks
  BY <1>1 DEF Asking
<1> QED BY <1>2, <1>3

\* What connections get is what the file's bodies yield.
LEMMA HoldingYields ==
    ASSUME CopiesFit, NEW o \in Owners
    PROVE  Holding[o] = Yields(disk.body[o], ring[o])
BY FitReads DEF Holding, Held, CopiesFit, Fits

\* So it is after a step.
LEMMA HoldingNext ==
    ASSUME CopiesFit', NEW o \in Owners
    PROVE  Holding'[o] = Yields(disk'.body[o], ring'[o])
BY FitReads DEF Holding, Held, CopiesFit, Fits

\* There is one command, so it is that command's copy.
LEMMA AroundCopy ==
    ASSUME OneCommand, NEW p \in Procs, NEW o \in Owners
    PROVE  /\ \A v : v \in Around[o] <=>
                        v # Nil /\ v \in {ring[o]["cert"], mem[p].body[o].sec["cert"].val}
           /\ \A v : v \in Around'[o] <=>
                        v # Nil /\ v \in {ring'[o]["cert"], mem'[p].body[o].sec["cert"].val}
<1>1. \A q \in Procs : q = p
  BY DEF OneCommand
<1>2. Around[o] = ({ring[o]["cert"]} \cup {mem[q].body[o].sec["cert"].val : q \in Procs})
                  \ {Nil}
  BY DEF Around
<1>3. Around'[o] = ({ring'[o]["cert"]} \cup {mem'[q].body[o].sec["cert"].val : q \in Procs})
                   \ {Nil}
  BY DEF Around
<1> QED BY <1>1, <1>2, <1>3

\* The map and the store have the same nothing to ask.
LEMMA SameNoAsks == Map!NoAsks = NoAsks
BY DEF Map!NoAsks, NoAsks

\* What an owner holds next is what it held, what is asked, or, for want of a
\* certificate, one that lay around.
HoldsNext(asks) ==
    \A o \in Owners, s \in Slot :
        \/ Holding'[o][s] = Holding[o][s]
        \/ o \in DOMAIN asks /\ Holding'[o][s] = asks[o][s]
        \/ /\ s = "cert" /\ Holding'[o][s] \in Around[o]
           /\ Holding[o][s] = Nil \/ (o \in DOMAIN asks /\ asks[o][s] = Nil)

\* The certificates around next were around, the owner's, or are asked for.
LeavesNext(asks) ==
    \A o \in Owners : \A v \in Around'[o] :
        v \in Around[o] \/ v = Holding[o]["cert"] \/ (o \in DOMAIN asks /\ v = asks[o]["cert"])

\* As the map has it.
LEMMA MapToward ==
    ASSUME NEW asks, HoldsNext(asks), LeavesNext(asks)
    PROVE  Map!Toward(asks) /\ Map!Leaves(asks)
<1> USE DEF Holding, Around
<1>1. Map!Toward(asks)
  <2> SUFFICES ASSUME NEW o \in Owners, NEW s \in Slot
               PROVE  LET may == {Holding[o][s]} \cup
                                 {asks[q][s] : q \in {o} \cap DOMAIN asks}
                      IN  Holding'[o][s] \in may \cup
                             (IF s = "cert" /\ Nil \in may THEN Around[o] ELSE {})
    BY Zenon DEF Map!Toward, Map!Back
  <2> DEFINE may == {Holding[o][s]} \cup {asks[q][s] : q \in {o} \cap DOMAIN asks}
  <2> HIDE DEF Holding, Around
  <2>1. Holding[o][s] \in may /\ (o \in DOMAIN asks => asks[o][s] \in may)
    OBVIOUS
  <2>2. \/ Holding'[o][s] \in may
        \/ s = "cert" /\ Nil \in may /\ Holding'[o][s] \in Around[o]
    BY <2>1 DEF HoldsNext
  <2> HIDE DEF may
  <2>3. Holding'[o][s] \in may \cup (IF s = "cert" /\ Nil \in may THEN Around[o] ELSE {})
    BY <2>2
  <2> QED BY <2>3 DEF may
<1>2. Map!Leaves(asks)
  <2> SUFFICES ASSUME NEW o \in Owners
               PROVE  Around'[o] \subseteq Around[o] \cup {Holding[o]["cert"]}
                         \cup {asks[q]["cert"] : q \in {o} \cap DOMAIN asks}
    BY Zenon DEF Map!Leaves
  <2> HIDE DEF Holding, Around
  <2> QED BY DEF LeavesNext
<1> QED BY <1>1, <1>2

\* Nothing changes for the owners; a command may give up what it asks for.
LEMMA MapMoves ==
    ASSUME \/ Asking = NoAsks /\ HoldsNext(Asking') /\ LeavesNext(Asking')
           \/ Asking' = NoAsks /\ HoldsNext(Asking) /\ LeavesNext(Asking)
    PROVE  Map!MNext
<1>1. CASE Asking = NoAsks /\ Asking' # NoAsks
  <2>1. HoldsNext(Asking') /\ LeavesNext(Asking')
    BY <1>1
  <2>2. Map!Toward(Asking') /\ Map!Leaves(Asking')
    <3>1. PICK asks : asks = Asking'
      OBVIOUS
    <3>2. HoldsNext(asks) /\ LeavesNext(asks)
      BY <2>1, <3>1
    <3>3. Map!Toward(asks) /\ Map!Leaves(asks)
      BY <3>2, MapToward
    <3> QED BY <3>1, <3>3 DEF Map!Toward, Map!Leaves
  <2>3. Map!Ask
    BY <1>1, <2>2, SameNoAsks DEF Map!Ask, Asking
  <2> QED BY <2>3 DEF Map!MNext
<1>2. CASE Asking # NoAsks /\ Asking' = NoAsks
  <2>1. Map!Toward(Asking) /\ Map!Leaves(Asking)
    <3>1. PICK asks : asks = Asking
      OBVIOUS
    <3>2. HoldsNext(asks) /\ LeavesNext(asks)
      BY <1>2, <3>1
    <3>3. Map!Toward(asks) /\ Map!Leaves(asks)
      BY <3>2, MapToward
    <3>4. Map!Toward(Asking)
      BY <3>1, <3>3 DEF Map!Toward
    <3>5. Map!Leaves(Asking)
      BY <3>1, <3>3 DEF Map!Leaves
    <3> QED BY <3>4, <3>5
  <2>2. Map!Settle
    BY <1>2, <2>1, SameNoAsks DEF Map!Settle, Asking
  <2> QED BY <2>2 DEF Map!MNext
<1>3. CASE Asking = NoAsks /\ Asking' = NoAsks
  <2>1. HoldsNext(NoAsks) /\ LeavesNext(NoAsks)
    BY <1>3
  <2>2. Map!Toward(NoAsks) /\ Map!Leaves(NoAsks)
    BY <2>1, MapToward
  <2>3. Map!Rest
    BY <1>3, <2>2, SameNoAsks DEF Map!Rest, Asking
  <2> QED BY <2>3 DEF Map!MNext
<1> QED BY <1>1, <1>2, <1>3

\* The keyring's certificates are as they were, and the copy is gone or has the same
\* certificates, or the file's: nothing new lies around.
LEMMA NothingNew ==
    ASSUME OneCommand, CopiesFit, OneInv, NEW p \in Procs, NEW asks,
           \A o \in Owners :
              /\ ring'[o]["cert"] \in {Nil, ring[o]["cert"]}
              /\ mem'[p].body[o].sec["cert"].val
                    \in {Nil, mem[p].body[o].sec["cert"].val, disk.body[o].sec["cert"].val}
    PROVE  LeavesNext(asks)
<1> SUFFICES ASSUME NEW o \in Owners, NEW v \in Around'[o]
             PROVE  v \in Around[o] \/ v = Holding[o]["cert"]
  BY DEF LeavesNext
<1>1. v # Nil /\ v \in {ring'[o]["cert"], mem'[p].body[o].sec["cert"].val}
  BY AroundCopy
<1>2. CASE v = disk.body[o].sec["cert"].val
  <2>1. Formed(disk.body[o])
    BY DEF OneInv, ConfigOK, BodyOK
  <2>2. ~InRing(disk.body[o], "cert")
    BY <1>1, <1>2, <2>1, Slots DEF Formed
  <2>3. v = Yields(disk.body[o], ring[o])["cert"]
    BY <1>2, <2>2, Slots DEF Yields
  <2> QED BY <2>3, HoldingYields
<1>3. CASE v \in {ring[o]["cert"], mem[p].body[o].sec["cert"].val}
  BY <1>1, <1>3, AroundCopy
<1> QED BY <1>1, <1>2, <1>3

\* A command that is over has no copy.
LEMMA DoneCopy ==
    ASSUME OneCommand, ProcsOK, NEW p \in Procs, NEW m, Done(p, m), NEW o \in Owners
    PROVE  /\ job'[p].asks = NoAsks
           /\ mem'[p].body[o].sec["cert"].val = Nil
<1>1. /\ mem'[p] = NoConfig /\ job'[p] = NoJob
  BY DEF Done, ProcsOK, OneCommand
<1>2. NoConfig.body[o].sec["cert"].val = Nil
  BY Slots DEF NoConfig, Absent, Bare, NoSecret
<1> QED BY <1>1, <1>2 DEF NoJob

\* While a switch is under way the file has no markers.
LEMMA FileStill ==
    ASSUME CopiesFit, CopiesFit', OneInv, MapInv, NEW p \in Procs, pc[p] = "migrating",
           disk' = disk
    PROVE  \A o \in Owners : Holding'[o] = Holding[o]
<1>1. disk.mode # "keyring"
  BY DEF MapInv, SwitchOK
<1> SUFFICES ASSUME NEW o \in Owners
             PROVE  Yields(disk.body[o], ring'[o]) = Yields(disk.body[o], ring[o])
  BY HoldingYields, HoldingNext
<1> QED BY <1>1 DEF OneInv, ConfigOK, BodyOK, MarksFit, Yields

\* A switch is saved: what it migrated is there, maybe with a certificate that lay
\* around.
LEMMA SwitchSaved ==
    ASSUME OneCommand, CopiesFit, CopiesFit', OneInv, MapInv, NEW p \in Procs,
           pc[p] = "saving", job[p].op # "edit", disk' = mem[p], ring' = ring, NEW asks
    PROVE  HoldsNext(asks)
<1> SUFFICES ASSUME NEW o \in Owners, NEW s \in Slot, Holding'[o][s] # Holding[o][s]
             PROVE  s = "cert" /\ Holding'[o][s] \in Around[o] /\ Holding[o][s] = Nil
  BY DEF HoldsNext
<1>1. /\ Holding[o] = Yields(disk.body[o], ring[o])
      /\ Holding'[o] = Yields(mem[p].body[o], ring[o])
  BY HoldingYields, HoldingNext
<1>2. s = "cert" /\ Holding[o][s] = Nil
  BY <1>1 DEF MapInv, SwitchOK, SameYields
<1>3. Holding'[o][s] \in {ring[o][s], mem[p].body[o].sec[s].val}
  BY <1>1 DEF Yields
<1> QED BY <1>2, <1>3, AroundCopy

\* An edit is saved: what it asked for is there, or a certificate that lay around.
LEMMA EditSaved ==
    ASSUME OneCommand, CopiesFit, CopiesFit', OneInv, NEW p \in Procs,
           pc[p] = "saving", job[p].op = "edit", disk' = job[p].next, ring' = ring
    PROVE  HoldsNext(job[p].asks)
<1> DEFINE asks == job[p].asks
           next == job[p].next
<1>0. EditOK(job[p], disk, ring)
  BY DEF OneInv, CommandOK
<1> SUFFICES ASSUME NEW o \in Owners, NEW s \in Slot
             PROVE  \/ Holding'[o][s] = Holding[o][s]
                    \/ o \in DOMAIN asks /\ Holding'[o][s] = asks[o][s]
                    \/ /\ s = "cert" /\ Holding'[o][s] \in Around[o]
                       /\ o \in DOMAIN asks /\ asks[o][s] = Nil
  BY DEF HoldsNext
<1>1. /\ Holding[o] = Yields(disk.body[o], ring[o])
      /\ Holding'[o] = Yields(next.body[o], ring[o])
  BY HoldingYields, HoldingNext
<1>2. CASE o \notin DOMAIN asks
  BY <1>0, <1>1, <1>2 DEF EditOK
<1>3. CASE o \in DOMAIN asks /\ ~TakenOver(next.body[o], s, asks[o][s])
  BY <1>0, <1>1, <1>3 DEF EditOK
<1>4. CASE o \in DOMAIN asks /\ TakenOver(next.body[o], s, asks[o][s])
  <2>1. s = "cert" /\ asks[o][s] = Nil /\ InRing(next.body[o], s)
    BY <1>4 DEF TakenOver
  <2>2. Holding'[o][s] = ring[o][s]
    BY <1>1, <2>1 DEF Yields
  <2>3. ring[o]["cert"] = Nil \/ ring[o]["cert"] \in Around[o]
    BY AroundCopy
  <2> QED BY <1>4, <2>1, <2>2, <2>3
<1> QED BY <1>2, <1>3, <1>4

\* Every step of the store is a step of the map, or nothing to its owners.
LEMMA MapStep ==
    ASSUME OneCommand, StoreOK, ProcsOK, CopiesFit, CopiesFit', OneInv, MapInv,
           [Next]_vars
    PROVE  Map!MNext \/ UNCHANGED Map!mvars
<1>0. \A o \in Owners : /\ Holding[o] = Yields(disk.body[o], ring[o])
                        /\ Holding'[o] = Yields(disk'.body[o], ring'[o])
  BY HoldingYields, HoldingNext
<1>1. CASE DropCache \/ UNCHANGED vars
  <2>1. disk' = disk /\ ring' = ring /\ job' = job /\ mem' = mem
    BY <1>1 DEF DropCache, vars
  <2>2. Asking' = Asking /\ Holding' = Holding /\ Around' = Around
    BY <2>1 DEF Asking, Holding, Held, Around
  <2>3. UNCHANGED Map!mvars
    BY <2>2 DEF Map!mvars, Asking, Holding, Around
  <2> QED BY <2>3
<1>2. ASSUME NEW p \in Procs, job'[p].asks = NoAsks,
             HoldsNext(job[p].asks), LeavesNext(job[p].asks)
      PROVE  Map!MNext
  BY <1>2, AskingJob, MapMoves
<1>3. ASSUME NEW p \in Procs, disk' = disk, ring' = ring, job'[p].asks = NoAsks,
             \A o \in Owners : mem'[p].body[o].sec["cert"].val
                \in {Nil, mem[p].body[o].sec["cert"].val, disk.body[o].sec["cert"].val}
      PROVE  Map!MNext
  <2>1. \A o \in Owners : Holding'[o] = Holding[o]
    BY <1>0, <1>3
  <2>2. HoldsNext(job[p].asks)
    BY <2>1 DEF HoldsNext
  <2>3. LeavesNext(job[p].asks)
    BY <1>3, NothingNew
  <2> QED BY <1>2, <1>3, <2>2, <2>3
<1>4. \A p \in Procs : pc[p] \in {"idle", "ready"} => job[p].asks = NoAsks
  BY DEF ProcsOK, NoJob
<1>5. ASSUME NEW p \in Procs, Start(p)
      PROVE  Map!MNext
  <2>1. disk' = disk /\ ring' = ring /\ job'[p].asks = NoAsks /\ mem'[p] = disk
    BY <1>4, <1>5 DEF Start, ProcsOK
  <2> QED BY <1>3, <2>1
<1>6. ASSUME NEW p \in Procs, Exit(p)
      PROVE  Map!MNext
  <2>1. disk' = disk /\ ring' = ring /\ job'[p].asks = NoAsks /\ mem'[p] = NoConfig
    BY <1>6 DEF Exit, ProcsOK, NoJob
  <2>2. \A o \in Owners : NoConfig.body[o].sec["cert"].val = Nil
    BY Slots DEF NoConfig, Absent, Bare, NoSecret
  <2> QED BY <1>3, <2>1, <2>2
<1>7. ASSUME NEW p \in Procs, UnlockVault(p) \/ SaveFails(p) \/ GiveUp(p)
      PROVE  Map!MNext
  <2>1. disk' = disk /\ ring' = ring /\ \E m : Done(p, m)
    BY <1>7 DEF UnlockVault, SaveFails, GiveUp
  <2>2. PICK m : Done(p, m)
    BY <2>1
  <2>3. /\ \A o \in Owners : mem'[p].body[o].sec["cert"].val = Nil
        /\ job'[p].asks = NoAsks
    BY <2>2, DoneCopy DEF Done, ProcsOK, NoJob
  <2> QED BY <1>3, <2>1, <2>3
<1>8. ASSUME NEW p \in Procs, Save(p)
      PROVE  Map!MNext
  <2>1. /\ pc[p] = "saving" /\ disk' = ToSave(p) /\ ring' = ring /\ Done(p, ToSave(p))
    BY <1>8 DEF Save
  <2>2. /\ \A o \in Owners : mem'[p].body[o].sec["cert"].val = Nil
        /\ job'[p].asks = NoAsks
    BY <2>1, DoneCopy DEF Done, ProcsOK, NoJob
  <2>3. LeavesNext(job[p].asks)
    BY <2>1, <2>2, NothingNew
  <2>4. HoldsNext(job[p].asks)
    <3>1. CASE job[p].op # "edit"
      BY <2>1, <3>1, SwitchSaved DEF ToSave
    <3>2. CASE job[p].op = "edit"
      BY <2>1, <3>2, EditSaved DEF ToSave
    <3> QED BY <3>1, <3>2
  <2> QED BY <1>2, <2>2, <2>3, <2>4
<1>9. ASSUME NEW p \in Procs, NEW m, NEW t, NEW src, NEW new, Begin(p, m, t, src, new),
             pc[p] = "ready", disk' = disk, ring' = ring,
             \A o \in Owners : Alike(m.body[o], mem[p].body[o])
      PROVE  Map!MNext
  <2>1. job'[p].asks = NoAsks /\ mem'[p] = m
    BY <1>9 DEF Begin, ProcsOK, NoJob
  <2>2. \A o \in Owners : mem'[p].body[o].sec["cert"].val = mem[p].body[o].sec["cert"].val
    BY <1>9, <2>1, Slots DEF Alike
  <2> QED BY <1>3, <1>9, <2>1, <2>2
<1>10. ASSUME NEW p \in Procs, NEW t \in Modes, Switch(p, t)
       PROVE  Map!MNext
  <2>1. /\ disk' = disk /\ ring' = ring /\ pc[p] = "ready"
        /\ \E src, new : Begin(p, mem[p], t, src, new)
    BY <1>10 DEF Switch
  <2>2. \A o \in Owners : Alike(mem[p].body[o], mem[p].body[o])
    BY DEF Alike
  <2> QED BY <1>9, <2>1, <2>2
<1>11. ASSUME NEW p \in Procs, Rekey(p)
       PROVE  Map!MNext
  <2> DEFINE bodies == [o \in Owners |-> DecryptedBody(mem[p].body[o])]
             c == [mode |-> "undecided", vaultKey |-> 0, body |-> bodies]
  <2>1. /\ disk' = disk /\ ring' = ring /\ pc[p] = "ready"
        /\ Begin(p, c, "vault", 0, keys + 1)
    BY <1>11 DEF Rekey
  <2>2. \A o \in Owners : Alike(bodies[o], mem[p].body[o])
    BY DecryptedAlike DEF ProcsOK, Config
  <2> HIDE DEF bodies
  <2>3. \A o \in Owners : Alike(c.body[o], mem[p].body[o])
    BY <2>2
  <2> HIDE DEF c
  <2> QED BY <1>9, <2>1, <2>3
<1>12. ASSUME NEW p \in Procs, NEW o \in Owners, Migrate(p, o)
       PROVE  Map!MNext
  <2> DEFINE b == mem[p].body[o]
             j == job[p]
             moved == MovedBody(b, ring[o], j.target, j.new)
  <2>1. /\ pc[p] = "migrating" /\ pc' = pc /\ disk' = disk /\ minted' = minted
        /\ mem'[p] = [mem[p] EXCEPT !.body[o] = moved]
        /\ mem'[p].body[o] = moved
        /\ \A q \in Owners \ {o} : mem'[p].body[q] = mem[p].body[q]
        /\ job'[p] = [job[p] EXCEPT !.todo = @ \ {o}]
        /\ ring' = [ring EXCEPT ![o] = ring'[o]]
        /\ \A q \in Owners \ {o} : ring'[q] = ring[q]
        /\ \A s \in Slot : Yields(moved, ring'[o])[s] = Found(b, ring[o], s)
        /\ BodyOK(moved, ring'[o], j.target)
        /\ moved.kind = b.kind
        /\ NoStray(disk.body[o], ring'[o])
        /\ ring'[o]["cert"] \in {Nil, ring[o]["cert"], b.sec["cert"].val}
        /\ moved.sec["cert"].val \in {Nil, ring[o]["cert"], b.sec["cert"].val}
    BY <1>12, MigrateKeeps
  <2> HIDE DEF moved
  <2>2. job'[p].asks = job[p].asks /\ job[p].asks = NoAsks
    BY <2>1 DEF ProcsOK, Job, OneInv, CommandOK, HalfOK
  <2>3. HoldsNext(job[p].asks)
    BY <2>1, FileStill DEF HoldsNext
  <2>4. LeavesNext(job[p].asks)
    <3> SUFFICES ASSUME NEW q \in Owners, NEW v \in Around'[q]
                 PROVE  v \in Around[q]
      BY DEF LeavesNext
    <3>1. v # Nil /\ v \in {ring'[q]["cert"], mem'[p].body[q].sec["cert"].val}
      BY AroundCopy
    <3>2. v \in {ring[q]["cert"], mem[p].body[q].sec["cert"].val}
      BY <2>1, <3>1
    <3> QED BY <3>1, <3>2, AroundCopy
  <2> QED BY <1>2, <2>2, <2>3, <2>4
<1>13. ASSUME NEW p \in Procs, NEW o \in Owners, MigrateFails(p, o)
       PROVE  Map!MNext
  <2>1. pc[p] = "migrating" /\ disk' = disk /\ (\E m : Done(p, m)) /\ IsNext(p, o)
    BY <1>13 DEF MigrateFails
  <2>2. PICK f \in Failures(mem[p].body[o], ring[o], job[p]) :
           ring' = [ring EXCEPT ![o] = f.row]
    BY <1>13 DEF MigrateFails
  <2>3. ring'[o] = f.row /\ \A q \in Owners \ {o} : ring'[q] = ring[q]
    BY <2>2, RowReplaced
  <2>4. f.row["cert"] = ring[o]["cert"]
    <3> DEFINE b == mem[p].body[o]
    <3>1. b \in Body /\ Tidy(b) /\ Formed(b) /\ ring[o] \in Row /\ NoStray(b, ring[o])
      BY <2>1, NextBody
    <3> HIDE DEF b
    <3>2. f \in Failures(b, ring[o], job[p])
      BY DEF b
    <3> QED BY <3>1, <3>2, FailureKeeps
  <2>5. /\ \A q \in Owners : mem'[p].body[q].sec["cert"].val = Nil
        /\ job'[p].asks = NoAsks
    BY <2>1, DoneCopy DEF Done, ProcsOK, NoJob
  <2>6. LeavesNext(job[p].asks)
    BY <2>3, <2>4, <2>5, NothingNew
  <2>7. HoldsNext(job[p].asks)
    BY <2>1, FileStill DEF HoldsNext
  <2> QED BY <1>2, <2>5, <2>6, <2>7
<1>14. ASSUME NEW p \in Procs, Flip(p)
       PROVE  Map!MNext
  <2>1. /\ disk' = disk /\ ring' = ring /\ job' = job /\ pc[p] = "migrating"
        /\ mem'[p] = [mem[p] EXCEPT !.mode = job[p].target, !.vaultKey = job[p].new]
    BY <1>14 DEF Flip, ProcsOK
  <2>2. job'[p].asks = NoAsks /\ mem'[p].body = mem[p].body
    BY <2>1 DEF OneInv, CommandOK, HalfOK, ProcsOK, Config
  <2> QED BY <1>3, <2>1, <2>2
<1>15. ASSUME NEW p \in Procs, EditStep(p)
       PROVE  Map!MNext
  <2>1. EditMade(p)
    BY <1>15, EditsKeep DEF OneCommand
  <2>2. PICK S \in SUBSET Owners : \E new \in [S -> Body], asks \in [S -> Row],
             step \in {"saving", "failing"} : EditForm(p, S, new, asks, step)
    BY <2>1 DEF EditMade
  <2>3. PICK new \in [S -> Body], asks \in [S -> Row], step \in {"saving", "failing"} :
           EditForm(p, S, new, asks, step)
    BY <2>2
  <2>4. disk' = disk /\ job'[p].asks = asks /\ pc[p] = "ready" /\ mem' = mem
    <3>1. Stage(p, new, asks, step)
      BY <2>3 DEF EditForm
    <3>2. disk' = disk /\ job'[p].asks = asks /\ mem' = mem
      BY <3>1, StagedJob
    <3> QED BY <3>1, <3>2 DEF Stage
  <2>5. Asking = NoAsks /\ Asking' = asks
    BY <1>4, <2>4, AskingJob
  <2>6. /\ \A o \in Owners \ S : ring'[o] = ring[o]
        /\ \A o \in S : OwnerEdited(disk.body[o], ring[o], ring'[o], new[o], asks[o],
                                    step, disk.mode)
    BY <2>3 DEF EditForm
  <2>7. HoldsNext(asks)
    <3> SUFFICES ASSUME NEW o \in Owners, NEW s \in Slot
                 PROVE  \/ Holding'[o][s] = Holding[o][s]
                        \/ o \in DOMAIN asks /\ Holding'[o][s] = asks[o][s]
      BY DEF HoldsNext
    <3> QED BY <1>0, <2>4, <2>6 DEF OwnerEdited
  <2>8. LeavesNext(asks)
    <3> SUFFICES ASSUME NEW o \in Owners, NEW v \in Around'[o]
                 PROVE  v \in Around[o] \/ (o \in DOMAIN asks /\ v = asks[o]["cert"])
      BY DEF LeavesNext
    <3>1. v # Nil /\ v \in {ring'[o]["cert"], mem[p].body[o].sec["cert"].val}
      BY <2>4, AroundCopy
    <3>2. ring'[o]["cert"] = ring[o]["cert"] \/
          (o \in S /\ ring'[o]["cert"] \in {Nil, ring[o]["cert"], asks[o]["cert"]})
      BY <2>6 DEF OwnerEdited
    <3> QED BY <3>1, <3>2, AroundCopy
  <2> QED BY <2>5, <2>7, <2>8, MapMoves
<1> QED BY <1>1, <1>5, <1>6, <1>7, <1>8, <1>10, <1>11, <1>12, <1>13, <1>14, <1>15
        DEF Next, SwitchStep

\* The store as it is found is a map to start from.
LEMMA MapStart == ASSUME OneCommand, Init PROVE MapInv /\ Map!MInit
<1>1. TypeOK /\ \A p \in Procs : pc[p] = "idle" /\ job[p] = NoJob
  BY InitTyped DEF Init
<1>2. MapInv
  BY <1>1 DEF MapInv, SwitchOK
<1>3. Asking = NoAsks
  BY <1>1 DEF Asking, NoJob
<1>4. \A o \in Owners : Held(disk, o) \in [Slot -> Vals \cup {Nil}]
  BY <1>1, HeldTyped DEF TypeOK, Row
<1>5. \A o \in Owners : Around[o] \subseteq {Held(disk, o)["cert"]}
  <2> SUFFICES ASSUME NEW o \in Owners, NEW v \in Around[o]
               PROVE  v = Held(disk, o)["cert"]
    OBVIOUS
  <2>1. PICK m \in InitModes,
             typed \in [Owners -> Typed \cup {[kind |-> "absent", texts |-> NoTexts]}] :
          LET bodies == [q \in Owners |-> TypedBody(typed[q].kind, typed[q].texts)]
              key == IF m = "vault" THEN 1 ELSE 0
          IN  /\ disk = [mode |-> m, vaultKey |-> key,
                         body |-> [q \in Owners |-> SealedBody(bodies[q], m, key)]]
              /\ ring = [q \in Owners |-> SealedRow(bodies[q], NoTexts, m)]
              /\ mem = [p \in Procs |-> NoConfig]
    BY DEF Init
  <2> DEFINE key == IF m = "vault" THEN 1 ELSE 0
             t == typed[o]
  <2>2. /\ t \in Entered /\ disk.body[o] = SealedFrom(t, m, key)
        /\ ring[o] = RowFrom(t, NoTexts, m)
    BY <2>1 DEF SealedFrom, RowFrom, Entered
  <2> HIDE DEF key, t
  <2>3. NoConfig.body[o].sec["cert"].val = Nil
    BY Slots DEF NoConfig, Absent, Bare, NoSecret
  <2>4. v # Nil /\ v = ring[o]["cert"]
    BY <2>1, <2>3 DEF Around
  <2>5. m = "keyring" /\ t.texts["cert"] # Nil
    BY <2>2, <2>4, RowTexts, Slots DEF NoTexts
  <2>6. t.kind = "inline"
    BY <2>2, <2>5, EnteredTexts, Slots
  <2>7. InRing(disk.body[o], "cert")
    BY <2>2, <2>5, <2>6, SealedMarks, Slots DEF InRing
  <2> QED BY <2>4, <2>7, Slots DEF Held, Reads
<1>6. Map!MInit
  BY <1>3, <1>4, <1>5, SameNoAsks DEF Map!MInit, Asking, Around
<1> QED BY <1>2, <1>6

\* As long as no command leaves the keyring, commands that come one at a time are
\* to their user a map from owners to texts, whatever fails and wherever they die:
\* a switch or rekey shows nowhere, and an edit leaves each slot with what it held
\* or what was asked; but where there is no certificate, or none is asked for, one
\* of that owner's earlier keys may come back.
THEOREM StoreImplementsMap ==
    ASSUME OneCommand
    PROVE  Spec /\ [][KeyringKept]_vars => Implements
<1> DEFINE Inv == TypeOK /\ CopiesFit /\ OneInv
<1>1. Init => MapInv /\ Map!MInit
  BY MapStart
<1>2. Inv /\ MapInv /\ [Next]_vars /\ [KeyringKept]_vars => MapInv'
  BY MapInvStep, TypeParts
<1>3. Inv /\ Inv' /\ MapInv /\ [Next]_vars => [Map!MNext]_(Map!mvars)
  BY MapStep, TypeParts
<1>4. Spec => []Inv
  BY CommandsInOrder
<1> HIDE DEF Inv
<1> QED BY <1>1, <1>2, <1>3, <1>4, PTL DEF Spec, Implements, Map!MSpec
===============================================================================
