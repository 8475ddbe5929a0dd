--------------------------- MODULE AccountsProofs ---------------------------
(* What holds of any set of accounts and requests. *)
EXTENDS Accounts, WellFoundedInduction, TLAPS

LEMMA LeastNatural ==
    ASSUME NEW S \in SUBSET Nat, S # {}
    PROVE  \E n \in S : \A m \in S : n <= m
<1> DEFINE Less == OpToRel(<, Nat)
<1>1. Less = {p \in Nat \X Nat : p[1] < p[2]}
  BY DEF OpToRel
<1>2. IsWellFoundedOn(Less, Nat)
  BY NatLessThanWellFounded
<1> HIDE DEF Less
<1>3. PICK n \in S : \A m \in S : <<m, n>> \notin Less
  BY <1>2, WFMin
<1>4. ASSUME NEW m \in S PROVE n <= m
  <2>1. <<m, n>> \in Nat \X Nat /\ ~(m < n)
    BY <1>1, <1>3
  <2> QED
    BY <2>1
<1> QED
  BY <1>4

\* The ids of a table stay below some number, so that there is a next one.
Bounded(table) == \E b \in Nat : \A t \in table : t.id <= b

\* A row's id is above those of all others (SQLite's rowid).
LEMMA NewIdIsNext ==
    ASSUME NEW table, \A t \in table : t.id \in Nat, Bounded(table)
    PROVE  /\ NewId(table) \in Nat
           /\ \A t \in table : t.id < NewId(table)
           /\ NewId(table) = 1 \/ \E t \in table : NewId(table) = t.id + 1
<1>1. CASE table = {}
  BY <1>1 DEF NewId
<1>2. CASE table # {}
  <2> DEFINE ids == {t.id : t \in table}
             bounds == {b \in Nat : \A i \in ids : i <= b}
  <2>1. ids # {} /\ ids \subseteq Nat /\ bounds # {} /\ bounds \subseteq Nat
    BY <1>2 DEF Bounded
  <2>2. PICK b \in bounds : \A c \in bounds : b <= c
    BY <2>1, LeastNatural
  <2>3. b \in ids
    <3>1. CASE b = 0
      BY <3>1, <2>1, <2>2
    <3>2. CASE b # 0
      <4>1. b - 1 \in Nat /\ b - 1 \notin bounds
        BY <3>2, <2>2
      <4> QED
        BY <4>1, <2>1, <2>2
    <3> QED
      BY <3>1, <3>2
  <2>4. Max(ids) \in ids /\ \A i \in ids : Max(ids) >= i
    BY <2>1, <2>2, <2>3 DEF Max
  <2>5. NewId(table) = 1 + Max(ids)
    BY <1>2 DEF NewId
  <2>6. PICK t \in table : Max(ids) = t.id
    BY <2>4
  <2>7. \A s \in table : s.id \in ids
    OBVIOUS
  <2> HIDE DEF bounds, ids
  <2> QED
    BY <2>1, <2>4, <2>5, <2>6, <2>7
<1> QED
  BY <1>1, <1>2
------------------------------------------------------------------------------
\* What a commit does to the account it is about, and to no other.
LEMMA SaveEffect ==
    ASSUME users \in [Users -> Account], NEW r \in Requests, target[r] \in Users,
           NEW form \in Account, Save(r, form)
    PROVE  /\ \A u \in Users \ {target[r]} : users'[u] = users[u]
           /\ users'[target[r]].active =
                Flushed(users[target[r]].active, seen[r].active, form.active)
           /\ users'[target[r]].admin =
                Flushed(users[target[r]].admin, seen[r].admin, form.admin)
           /\ users'[target[r]].must =
                Flushed(users[target[r]].must, seen[r].must, form.must)
           /\ users'[target[r]].pw = Flushed(users[target[r]].pw, seen[r].pw, form.pw)
           /\ users' \in [Users -> Account]
<1>1. users' = [users EXCEPT ![target[r]] =
        [active |-> Flushed(users[target[r]].active, seen[r].active, form.active),
         admin  |-> Flushed(users[target[r]].admin, seen[r].admin, form.admin),
         must   |-> Flushed(users[target[r]].must, seen[r].must, form.must),
         pw     |-> Flushed(users[target[r]].pw, seen[r].pw, form.pw)]]
  BY DEF Save
<1>2. [active |-> Flushed(users[target[r]].active, seen[r].active, form.active),
       admin  |-> Flushed(users[target[r]].admin, seen[r].admin, form.admin),
       must   |-> Flushed(users[target[r]].must, seen[r].must, form.must),
       pw     |-> Flushed(users[target[r]].pw, seen[r].pw, form.pw)] \in Account
  BY DEF Account, Flushed
<1> QED
  BY <1>1, <1>2

\* What the three forms that write an account make of it: whatever changes was
\* asked for by the form.
Written(r) ==
    \E form \in Account :
        /\ Save(r, form) /\ at[r] = "loaded" /\ writer = None /\ Kind[r] \in Saving
        /\ form.active # seen[r].active => Kind[r] = "toggle"
        /\ form.admin # seen[r].admin => Kind[r] = "update" /\ target[r] # actor[r]
        /\ form.pw \in {r, seen[r].pw}
        /\ form.must \/ form.pw = r \/ form.must = seen[r].must

LEMMA WritersSave ==
    ASSUME TypeOK, NEW r \in Requests,
           ToggleUser(r) \/ UpdateUser(r) \/ ChangePassword(r)
    PROVE  Written(r) /\ End(r, "loaded") /\ target[r] \in Users /\ seen[r] \in Account
<1>1. at[r] = "loaded" /\ writer = None /\ Kind[r] \in Saving /\ End(r, "loaded")
  BY DEF ToggleUser, UpdateUser, ChangePassword, Commit, End, Goto, Saving
<1>2. target[r] \in Users /\ seen[r] \in Account
  BY <1>1 DEF TypeOK, SessionOK
<1>3. CASE ToggleUser(r)
  <2>1. Toggled(r) \in Account
    BY <1>2 DEF Account, Toggled
  <2> QED
    BY <1>1, <1>2, <1>3, <2>1 DEF ToggleUser, Written, Account, Toggled
<1>4. CASE UpdateUser(r)
  <2>1. PICK box \in BOOLEAN, promote \in BOOLEAN, setpw \in BOOLEAN :
            Save(r, Edited(r, box, promote, setpw))
    BY <1>4 DEF UpdateUser
  <2>2. Edited(r, box, promote, setpw) \in Account
    BY <1>2 DEF Edited, Account
  <2> QED
    BY <1>1, <1>2, <1>4, <2>1, <2>2 DEF UpdateUser, Written, Account, Edited
<1>5. CASE ChangePassword(r)
  <2>1. WithPassword(r) \in Account
    BY <1>2 DEF Account, WithPassword
  <2> QED
    BY <1>1, <1>2, <1>5, <2>1
       DEF ChangePassword, Written, Account, WithPassword
<1> QED
  BY <1>3, <1>4, <1>5, <1>1, <1>2
------------------------------------------------------------------------------
(* Types. *)
IdsBounded == Bounded(invites)

LEMMA EndTypes ==
    ASSUME TypeOK, NEW r \in Requests, NEW ph \in Phases, End(r, ph)
    PROVE  /\ at' \in [Requests -> Phases] /\ actor' \in [Requests -> Users \cup {None}]
           /\ target' \in [Requests -> Users \cup {None}]
           /\ seen' \in [Requests -> Account \cup {None}]
           /\ row' \in [Requests -> Nat] /\ link' \in [Requests -> Requests \cup {None}]
BY DEF TypeOK, End, Goto, Phases

LEMMA ReadTypes ==
    ASSUME TypeOK, NEW r \in Requests,
           \/ CheckAdmin(r) \/ LoadTarget(r) \/ LoadSelf(r) \/ FindUser(r)
           \/ LoadToken(r) \/ LoadInvite(r) \/ OpenForm(r)
    PROVE  TypeOK'
<1> USE DEF TypeOK, SessionOK, GotoLoaded, Goto, Phases, AdminKinds, Saving, Mailing,
            tables, session
<1>1. CASE CheckAdmin(r)
  BY <1>1 DEF CheckAdmin
<1>2. CASE LoadTarget(r)
  BY <1>2 DEF LoadTarget
<1>3. CASE LoadSelf(r)
  BY <1>3 DEF LoadSelf
<1>4. CASE FindUser(r)
  BY <1>4 DEF FindUser
<1>5. CASE LoadToken(r)
  BY <1>5 DEF LoadToken
<1>6. CASE LoadInvite(r)
  BY <1>6 DEF LoadInvite
<1>7. CASE OpenForm(r)
  BY <1>7 DEF OpenForm, ValidInvites
<1> QED
  BY <1>1, <1>2, <1>3, <1>4, <1>5, <1>6, <1>7

InviteRow == [id : Nat, link : Requests, open : BOOLEAN]

\* The UPDATE that marks a row as used.
LEMMA ClosedInvites ==
    ASSUME NEW table \in SUBSET InviteRow, NEW id
    PROVE  /\ Closed(table, id) \in SUBSET InviteRow
           /\ \A t \in Closed(table, id) : \E s \in table :
                  /\ s.id = t.id /\ s.link = t.link
                  /\ t.open => s = t /\ s.id # id
                  /\ s.id # id => s = t
<1>1. \A t \in table : /\ [t EXCEPT !.open = FALSE] \in InviteRow
                       /\ [t EXCEPT !.open = FALSE].id = t.id
                       /\ [t EXCEPT !.open = FALSE].link = t.link
                       /\ [t EXCEPT !.open = FALSE].open = FALSE
  BY DEF InviteRow
<1> QED
  BY <1>1 DEF Closed

LEMMA WriteTypes ==
    ASSUME TypeOK, NEW r \in Requests,
           ToggleUser(r) \/ UpdateUser(r) \/ ChangePassword(r)
    PROVE  TypeOK' /\ (IdsBounded => IdsBounded')
<1>1. Written(r) /\ End(r, "loaded") /\ target[r] \in Users /\ seen[r] \in Account
  BY WritersSave
<1>2. users' \in [Users -> Account]
  BY <1>1, SaveEffect DEF Written, TypeOK
<1>3. invites' = invites /\ lapsed' = lapsed /\ writer' = writer /\ joined' = joined
  BY DEF ToggleUser, UpdateUser, ChangePassword, Commit
<1>4. resets' = resets
  BY DEF ToggleUser, UpdateUser, ChangePassword
<1>5. mailed' \in [Users -> Requests \cup {None}]
  BY <1>1 DEF TypeOK, ToggleUser, UpdateUser, ChangePassword
<1>6. /\ at' \in [Requests -> Phases] /\ actor' \in [Requests -> Users \cup {None}]
      /\ target' \in [Requests -> Users \cup {None}]
      /\ seen' \in [Requests -> Account \cup {None}]
      /\ row' \in [Requests -> Nat] /\ link' \in [Requests -> Requests \cup {None}]
  BY <1>1, EndTypes DEF Phases
<1>7. \A q \in Requests : SessionOK(q)'
  BY <1>1, <1>3 DEF TypeOK, SessionOK, End, Goto
<1> QED
  BY <1>2, <1>3, <1>4, <1>5, <1>6, <1>7 DEF TypeOK, IdsBounded

LEMMA MailTypes ==
    ASSUME TypeOK, IdsBounded, NEW r \in Requests,
           DeleteTokens(r) \/ SendMail(r) \/ MailFails(r) \/ StoreToken(r)
    PROVE  TypeOK' /\ IdsBounded'
<1>1. CASE DeleteTokens(r)
  <2>1. \A q \in Requests : SessionOK(q)'
    BY <1>1, AccountsAssumption DEF DeleteTokens, TypeOK, SessionOK, Goto, Mailing, session
  <2> QED
    BY <1>1, <2>1 DEF DeleteTokens, TypeOK, IdsBounded, Goto, Phases, tables, session
<1>2. CASE SendMail(r)
  <2>1. \A q \in Requests : SessionOK(q)'
    BY <1>2 DEF SendMail, TypeOK, SessionOK, Goto, Mailing, session
  <2>2. target[r] \in Users
    BY <1>2 DEF SendMail, TypeOK, SessionOK, Goto, Mailing
  <2> QED
    BY <1>2, <2>1, <2>2 DEF SendMail, TypeOK, IdsBounded, Goto, Phases, tables, session
<1>3. CASE MailFails(r)
  <2>1. End(r, "locked")
    BY <1>3 DEF MailFails
  <2>2. \A q \in Requests : SessionOK(q)'
    BY <1>3, <2>1 DEF MailFails, TypeOK, SessionOK, End, Goto
  <2> QED
    BY <1>3, <2>1, <2>2, EndTypes DEF MailFails, TypeOK, IdsBounded, Phases, tables
<1>4. CASE StoreToken(r)
  <2>1. End(r, "mailed")
    BY <1>4 DEF StoreToken
  <2>2. \A q \in Requests : SessionOK(q)'
    BY <1>4, <2>1 DEF StoreToken, TypeOK, SessionOK, End, Goto
  <2>3. target[r] \in Users
    BY <2>1 DEF TypeOK, SessionOK, End, Goto
  <2>4. resets' \in SUBSET [link : Requests, user : Users]
    BY <1>4, <2>3 DEF StoreToken, Kept, TypeOK
  <2> QED
    BY <1>4, <2>1, <2>2, <2>4, EndTypes DEF StoreToken, TypeOK, IdsBounded, Phases
<1> QED
  BY <1>1, <1>2, <1>3, <1>4

LEMMA InviteTypes ==
    ASSUME TypeOK, IdsBounded, NEW r \in Requests,
           CreateInvite(r) \/ RevokeInvite(r) \/ Register(r)
    PROVE  TypeOK' /\ IdsBounded'
<1>1. PICK ph \in Phases : End(r, ph)
  BY DEF CreateInvite, RevokeInvite, Register, Commit, Phases
<1>2. \A q \in Requests : SessionOK(q)'
  BY <1>1 DEF TypeOK, SessionOK, End, Goto, CreateInvite, RevokeInvite, Register, Commit
<1>3. joined' \in [Requests -> SUBSET Requests]
  BY DEF TypeOK, CreateInvite, RevokeInvite, Register
<1>4. /\ invites' \in SUBSET [id : Nat, link : Requests, open : BOOLEAN]
      /\ Bounded(invites')
  <2>1. CASE CreateInvite(r)
    <3> DEFINE id == NewId(invites)
    <3>1. id \in Nat /\ \A t \in invites : t.id < id
      BY NewIdIsNext DEF TypeOK, IdsBounded
    <3>2. invites' = invites \cup {[id |-> id, link |-> r, open |-> TRUE]}
      BY <2>1 DEF CreateInvite
    <3> HIDE DEF id
    <3>3. \A t \in invites' : t.id <= id
      BY <3>1, <3>2 DEF TypeOK
    <3>4. [id |-> id, link |-> r, open |-> TRUE] \in InviteRow
      BY <3>1 DEF InviteRow
    <3>5. Bounded(invites')
      BY <3>1, <3>3 DEF Bounded
    <3> QED
      BY <3>2, <3>4, <3>5 DEF TypeOK, InviteRow
  <2>2. CASE RevokeInvite(r)
    BY <2>2 DEF RevokeInvite, TypeOK, IdsBounded, Bounded
  <2>3. CASE Register(r)
    <3>1. PICK i \in invites : invites' = Closed(invites, i.id)
      BY <2>3 DEF Register, lookup_valid_invite, ValidInvites
    <3>2. invites \in SUBSET InviteRow
      BY DEF TypeOK, InviteRow
    <3>3. invites' \in SUBSET InviteRow /\ \A t \in invites' : \E s \in invites : s.id = t.id
      BY <3>1, <3>2, ClosedInvites
    <3> QED
      BY <3>3 DEF IdsBounded, Bounded, InviteRow
  <2> QED
    BY <2>1, <2>2, <2>3
<1> QED
  BY <1>1, <1>2, <1>3, <1>4, EndTypes
     DEF TypeOK, IdsBounded, CreateInvite, RevokeInvite, Register, Commit

LEMMA IdleTypes ==
    ASSUME TypeOK, NEW r \in Requests, ResetRaises(r) \/ InviteUsed(r) \/ GiveUp(r)
    PROVE  TypeOK'
<1>1. PICK ph \in Phases : End(r, ph)
  BY DEF ResetRaises, InviteUsed, GiveUp, Phases
<1>2. UNCHANGED <<tables, lapsed, writer, joined, mailed>>
  BY DEF ResetRaises, InviteUsed, GiveUp
<1>3. \A q \in Requests : SessionOK(q)'
  BY <1>1, <1>2 DEF TypeOK, SessionOK, End, Goto
<1> QED
  BY <1>1, <1>2, <1>3, EndTypes DEF TypeOK, tables

\* A step is one of the kinds above, or a link expires.
Reads(r) ==
    \/ CheckAdmin(r) \/ LoadTarget(r) \/ LoadSelf(r) \/ FindUser(r)
    \/ LoadToken(r) \/ LoadInvite(r) \/ OpenForm(r)
Writes(r) == ToggleUser(r) \/ UpdateUser(r) \/ ChangePassword(r)
Mails(r) == DeleteTokens(r) \/ SendMail(r) \/ MailFails(r) \/ StoreToken(r)
Invites(r) == CreateInvite(r) \/ RevokeInvite(r) \/ Register(r)
Idles(r) == ResetRaises(r) \/ InviteUsed(r) \/ GiveUp(r)

LEMMA StepKinds ==
    ASSUME Next
    PROVE  \/ \E r \in Requests : Reads(r) \/ Writes(r) \/ Mails(r) \/ Invites(r) \/ Idles(r)
           \/ \E t \in resets \cup invites : Expire(t)
BY DEF Next, Step, Reads, Writes, Mails, Invites, Idles

Typed == TypeOK /\ IdsBounded

LEMMA TypesInductive == Typed /\ [Next]_vars => Typed'
<1> SUFFICES ASSUME Typed, [Next]_vars PROVE Typed'
  OBVIOUS
<1> USE DEF Typed
<1>1. ASSUME NEW r \in Requests, Reads(r) PROVE Typed'
  <2>1. TypeOK'
    BY <1>1, ReadTypes DEF Reads
  <2>2. UNCHANGED <<resets, invites>>
    BY <1>1 DEF Reads, CheckAdmin, LoadTarget, LoadSelf, FindUser, LoadToken,
                LoadInvite, OpenForm, tables
  <2> QED
    BY <2>1, <2>2 DEF IdsBounded
<1>2. ASSUME NEW r \in Requests, Writes(r) PROVE Typed'
  BY <1>2, WriteTypes DEF Writes
<1>3. ASSUME NEW r \in Requests, Mails(r) PROVE Typed'
  BY <1>3, MailTypes DEF Mails
<1>4. ASSUME NEW r \in Requests, Invites(r) PROVE Typed'
  BY <1>4, InviteTypes DEF Invites
<1>5. ASSUME NEW r \in Requests, Idles(r) PROVE Typed'
  <2>1. UNCHANGED <<resets, invites>>
    BY <1>5 DEF Idles, ResetRaises, InviteUsed, GiveUp, tables
  <2> QED
    BY <1>5, <2>1, IdleTypes DEF Idles, IdsBounded
<1>6. ASSUME NEW t \in resets \cup invites, Expire(t) PROVE Typed'
  <2>1. t.link \in Requests
    BY DEF TypeOK
  <2>2. \A q \in Requests : SessionOK(q)'
    BY <1>6 DEF Expire, TypeOK, SessionOK, session
  <2> QED
    BY <1>6, <2>1, <2>2 DEF Expire, TypeOK, IdsBounded, tables, session
<1>7. CASE UNCHANGED vars
  <2>1. \A q \in Requests : SessionOK(q)'
    BY <1>7 DEF vars, session, TypeOK, SessionOK
  <2> QED
    BY <1>7, <2>1 DEF vars, tables, session, TypeOK, IdsBounded
<1> QED
  BY <1>1, <1>2, <1>3, <1>4, <1>5, <1>6, <1>7, StepKinds

LEMMA InitTypes == Init => Typed
<1> SUFFICES ASSUME Init PROVE Typed
  OBVIOUS
<1>1. users \in [Users -> Account]
  <2>1. \A a, m \in BOOLEAN : NewUser(a, m) \in Account
    BY DEF NewUser, Account
  <2>2. {NewUser(a, m) : a, m \in BOOLEAN} \subseteq Account
    BY <2>1
  <2> QED
    BY <2>2 DEF Init
<1> QED
  BY <1>1 DEF Init, Typed, TypeOK, IdsBounded, Bounded, Phases, SessionOK

\* The tables hold what models.py declares, and a request that is about to write
\* has loaded what it writes.
THEOREM TypesCorrect == Spec => []TypeOK
<1>1. Spec => []Typed
  BY InitTypes, TypesInductive, PTL DEF Spec
<1>2. Typed => TypeOK
  BY DEF Typed
<1> QED
  BY <1>1, <1>2, PTL
------------------------------------------------------------------------------
(* Passwords and rights. *)

\* Only the three forms touch an account.
LEMMA OthersKeepUsers ==
    ASSUME NEW r \in Requests, Reads(r) \/ Mails(r) \/ Invites(r) \/ Idles(r)
    PROVE  users' = users
BY DEF Reads, Mails, Invites, Idles, CheckAdmin, LoadTarget, LoadSelf, FindUser, LoadToken,
       LoadInvite, OpenForm, DeleteTokens, SendMail, MailFails, StoreToken,
       CreateInvite, RevokeInvite, Register, ResetRaises, InviteUsed, GiveUp, tables

\* What becomes of an account in one step.
LEMMA AccountStep ==
    ASSUME TypeOK, [Next]_vars, users' # users
    PROVE  \E r \in Requests :
             /\ Written(r) /\ End(r, "loaded") /\ at[r] = "loaded"
             /\ target[r] \in Users /\ seen[r] \in Account
<1>1. \E r \in Requests : Writes(r)
  <2>1. ASSUME NEW t \in resets \cup invites, Expire(t) PROVE FALSE
    BY <2>1 DEF Expire, tables
  <2>2. ~ UNCHANGED vars
    BY DEF vars, tables
  <2> QED
    BY <2>1, <2>2, OthersKeepUsers, StepKinds
<1> QED
  BY <1>1, WritersSave DEF Writes, Written

\* A password that was replaced never comes back.
LEMMA OldPasswordsStep ==
    ASSUME TypeOK, [Next]_vars, NEW u \in Users, users'[u].pw # users[u].pw
    PROVE  users'[u].pw # None /\ at[users'[u].pw] = "loaded"
<1>1. PICK r \in Requests : /\ Written(r) /\ at[r] = "loaded"
                            /\ target[r] \in Users /\ seen[r] \in Account
  BY AccountStep
<1>2. PICK form \in Account : Save(r, form) /\ form.pw \in {r, seen[r].pw}
  BY <1>1 DEF Written
<1>3. u = target[r] /\ users'[u].pw = Flushed(users[u].pw, seen[r].pw, form.pw)
  BY <1>1, <1>2, SaveEffect DEF TypeOK
<1> QED
  BY <1>1, <1>2, <1>3, AccountsAssumption DEF Flushed

THEOREM PasswordsStayReplaced == Spec => OldPasswordsStayOut
<1>1. TypeOK /\ [Next]_vars =>
        [\A u \in Users : users'[u].pw # users[u].pw =>
            users'[u].pw # None /\ at[users'[u].pw] = "loaded"]_vars
  BY OldPasswordsStep
<1> QED
  BY <1>1, TypesCorrect, PTL DEF Spec, OldPasswordsStayOut

\* What a request has loaded survives the steps of others.
LEMMA TogglesOthersStep == TypeOK /\ TogglesOthers /\ [Next]_vars => TogglesOthers'
<1> SUFFICES ASSUME TypeOK, TogglesOthers, [Next]_vars,
                    NEW q \in Requests, at'[q] = "loaded", Kind[q] = "toggle"
             PROVE  target'[q] # actor'[q]
  BY DEF TogglesOthers
<1> USE DEF TypeOK, TogglesOthers, Goto, GotoLoaded, session
<1>1. ASSUME NEW r \in Requests, Reads(r) PROVE target'[q] # actor'[q]
  <2>1. CASE LoadTarget(r)
    BY <1>1, <2>1 DEF LoadTarget
  <2>2. CASE CheckAdmin(r) \/ LoadSelf(r) \/ LoadToken(r) \/ FindUser(r)
    BY <1>1, <2>2 DEF CheckAdmin, LoadSelf, LoadToken, FindUser
  <2>3. CASE LoadInvite(r) \/ OpenForm(r)
    BY <1>1, <2>3 DEF LoadInvite, OpenForm, SessionOK
  <2> QED
    BY <1>1, <2>1, <2>2, <2>3 DEF Reads
<1>2. CASE \E r \in Requests : Writes(r) \/ Invites(r) \/ Idles(r)
  <2>1. PICK r \in Requests, ph \in Phases : End(r, ph)
    BY <1>2 DEF Writes, Invites, Idles, ToggleUser, UpdateUser, ChangePassword,
                CreateInvite, RevokeInvite, Register, ResetRaises, InviteUsed, GiveUp, Commit,
                Phases
  <2> QED
    BY <2>1 DEF End
<1>3. CASE \E r \in Requests : Mails(r)
  BY <1>3 DEF Mails, DeleteTokens, SendMail, MailFails, StoreToken, End
<1>4. CASE \E t \in resets \cup invites : Expire(t)
  BY <1>4 DEF Expire
<1>5. CASE UNCHANGED vars
  BY <1>5 DEF vars
<1> QED
  BY <1>1, <1>2, <1>3, <1>4, <1>5, StepKinds

\* An answered request stays answered.
LEMMA DoneStays ==
    ASSUME TypeOK, [Next]_vars
    PROVE  \A q \in Requests : at'[q] # "done" => at[q] # "done"
<1>1. CASE \E r \in Requests : Reads(r) \/ Writes(r) \/ Mails(r) \/ Invites(r) \/ Idles(r)
  BY <1>1 DEF TypeOK, Goto, GotoLoaded, Reads, CheckAdmin, LoadTarget, LoadSelf, FindUser,
      LoadToken, LoadInvite, OpenForm, Writes, ToggleUser, UpdateUser,
      ChangePassword, Mails, DeleteTokens, SendMail, MailFails, StoreToken,
      Invites, CreateInvite, RevokeInvite, Register, Idles, ResetRaises, InviteUsed, GiveUp,
      Commit, End
<1>2. CASE (\E t \in resets \cup invites : Expire(t)) \/ UNCHANGED vars
  BY <1>2 DEF Expire, vars
<1> QED
  BY <1>1, <1>2, StepKinds

LEMMA PasswordsFreshStep == TypeOK /\ PasswordsFresh /\ [Next]_vars => PasswordsFresh'
<1> SUFFICES ASSUME TypeOK, PasswordsFresh, [Next]_vars
             PROVE  PasswordsFresh'
  OBVIOUS
<1>1. \A q \in Requests : at'[q] # "done" => at[q] # "done"
  BY DoneStays
<1>2. ASSUME NEW q \in Requests, at'[q] # "done", NEW u \in Users
      PROVE  users'[u].pw # q
  <2>1. CASE users' = users
    BY <1>1, <1>2, <2>1 DEF PasswordsFresh
  <2>2. CASE users' # users
    <3>1. PICK r \in Requests : /\ Written(r) /\ End(r, "loaded")
                                /\ target[r] \in Users /\ seen[r] \in Account
      BY <2>2, AccountStep
    <3>2. PICK form \in Account : Save(r, form) /\ form.pw \in {r, seen[r].pw}
      BY <3>1 DEF Written
    <3>3. at'[r] = "done" /\ q # r
      BY <3>1, <1>2 DEF End, Goto, TypeOK
    <3>4. users'[u].pw \in {r, users[u].pw}
      BY <3>1, <3>2, SaveEffect DEF TypeOK, Flushed
    <3> QED
      BY <1>1, <1>2, <3>3, <3>4 DEF PasswordsFresh
  <2> QED
    BY <2>1, <2>2
<1>3. ASSUME NEW q \in Requests, at'[q] # "done", NEW s \in Requests, seen'[s] # None
      PROVE  seen'[s].pw # q
  <2>1. seen'[s] = seen[s] \/ seen'[s] = None \/ \E u \in Users : seen'[s] = users[u]
    <3>1. CASE \E r \in Requests : Reads(r)
      BY <3>1 DEF TypeOK, SessionOK, Goto, GotoLoaded, Reads, CheckAdmin, LoadTarget, LoadSelf,
          FindUser, LoadToken, LoadInvite, OpenForm
    <3>2. CASE \E r \in Requests : Writes(r) \/ Mails(r) \/ Invites(r) \/ Idles(r)
      BY <3>2 DEF TypeOK, Writes, ToggleUser, UpdateUser, ChangePassword, Mails,
          DeleteTokens, SendMail, MailFails, StoreToken, Invites, CreateInvite, RevokeInvite,
          Register, Idles, ResetRaises, InviteUsed, GiveUp, Commit, End, session
    <3>3. CASE (\E t \in resets \cup invites : Expire(t)) \/ UNCHANGED vars
      BY <3>3 DEF Expire, vars, session
    <3> QED
      BY <3>1, <3>2, <3>3, StepKinds
  <2> QED
    BY <1>1, <1>3, <2>1 DEF PasswordsFresh
<1> QED
  BY <1>2, <1>3 DEF PasswordsFresh

Fresh == TypeOK /\ TogglesOthers /\ PasswordsFresh

LEMMA FreshAlways == Spec => []Fresh
<1>1. Init => TogglesOthers /\ PasswordsFresh
  <2>1. ASSUME Init, NEW u \in Users PROVE users[u].pw = None
    BY <2>1 DEF Init, NewUser
  <2> QED
    BY <2>1, AccountsAssumption DEF Init, TogglesOthers, PasswordsFresh
<1> QED
  BY <1>1, TypesCorrect, TogglesOthersStep, PasswordsFreshStep, PTL DEF Spec, Fresh

LEMMA RightsStep ==
    ASSUME Fresh, [Next]_vars, NEW u \in Users
    PROVE  /\ users'[u].active # users[u].active =>
                  \E r \in Requests : Kind[r] = "toggle" /\ Asked(r, u)
           /\ users'[u].admin # users[u].admin =>
                  \E r \in Requests : Kind[r] = "update" /\ Asked(r, u)
<1> SUFFICES ASSUME users'[u] # users[u]
             PROVE  /\ users'[u].active # users[u].active =>
                          \E r \in Requests : Kind[r] = "toggle" /\ Asked(r, u)
                    /\ users'[u].admin # users[u].admin =>
                          \E r \in Requests : Kind[r] = "update" /\ Asked(r, u)
  OBVIOUS
<1>1. PICK r \in Requests : /\ Written(r) /\ End(r, "loaded") /\ at[r] = "loaded"
                            /\ target[r] \in Users /\ seen[r] \in Account
  BY AccountStep DEF Fresh
<1>2. PICK form \in Account :
        /\ Save(r, form)
        /\ form.active # seen[r].active => Kind[r] = "toggle"
        /\ form.admin # seen[r].admin => Kind[r] = "update" /\ target[r] # actor[r]
  BY <1>1 DEF Written
<1>3. /\ u = target[r]
      /\ users'[u].active = Flushed(users[u].active, seen[r].active, form.active)
      /\ users'[u].admin = Flushed(users[u].admin, seen[r].admin, form.admin)
  BY <1>1, <1>2, SaveEffect DEF Fresh, TypeOK
<1>4. at'[r] = "done"
  BY <1>1 DEF End, Goto, Fresh, TypeOK
<1>5. Kind[r] = "toggle" => target[r] # actor[r]
  BY <1>1 DEF Fresh, TogglesOthers
<1> QED
  BY <1>1, <1>2, <1>3, <1>4, <1>5 DEF Flushed, Asked

\* Nobody changes its own rights, and a form that does not ask for it changes
\* nobody's, however old what it has loaded.
THEOREM RightsAreAskedFor == Spec => RightsChangeByOthersOnly
<1>1. Fresh /\ [Next]_vars =>
        [\A u \in Users :
            /\ users'[u].active # users[u].active =>
                  \E r \in Requests : Kind[r] = "toggle" /\ Asked(r, u)
            /\ users'[u].admin # users[u].admin =>
                  \E r \in Requests : Kind[r] = "update" /\ Asked(r, u)]_vars
  BY RightsStep
<1> QED
  BY <1>1, FreshAlways, PTL DEF Spec, RightsChangeByOthersOnly

\* The last operator falls only to a form whose sender has lost its own rights
\* since it was checked.
LEMMA LastAdminStep ==
    ASSUME Fresh, [Next]_vars, Admins # {}, Admins' = {}
    PROVE  \E r \in Requests : at[r] = "loaded" /\ at'[r] = "done" /\ actor[r] \notin Admins
<1>1. PICK u \in Users : u \in Admins /\ u \notin Admins'
  BY DEF Admins
<1>2. users'[u] # users[u] /\ users' # users
  BY <1>1 DEF Admins
<1>3. PICK r \in Requests : /\ Written(r) /\ End(r, "loaded") /\ at[r] = "loaded"
                            /\ target[r] \in Users /\ seen[r] \in Account
  BY <1>2, AccountStep DEF Fresh
<1>4. PICK form \in Account :
        /\ Save(r, form)
        /\ form.active # seen[r].active => Kind[r] = "toggle"
        /\ form.admin # seen[r].admin => Kind[r] = "update" /\ target[r] # actor[r]
  BY <1>3 DEF Written
<1>5. /\ u = target[r] /\ \A v \in Users \ {u} : users'[v] = users[v]
      /\ users'[u].active = Flushed(users[u].active, seen[r].active, form.active)
      /\ users'[u].admin = Flushed(users[u].admin, seen[r].admin, form.admin)
  BY <1>2, <1>3, <1>4, SaveEffect DEF Fresh, TypeOK
<1>6. actor[r] # u
  <2>1. form.active # seen[r].active \/ form.admin # seen[r].admin
    BY <1>1, <1>5 DEF Admins, Flushed
  <2> QED
    BY <1>3, <1>4, <1>5, <2>1 DEF Fresh, TogglesOthers
<1>7. actor[r] \notin Admins
  BY <1>5, <1>6 DEF Admins
<1> QED
  BY <1>3, <1>7 DEF End, Goto, Fresh, TypeOK

THEOREM AdminRemains == Spec => LastAdminFallsToStaleForm
<1>1. Fresh /\ [Next]_vars =>
        [Admins # {} /\ Admins' = {} =>
            \E r \in Requests : at[r] = "loaded" /\ at'[r] = "done" /\ actor[r] \notin Admins]_vars
  BY LastAdminStep
<1> QED
  BY <1>1, FreshAlways, PTL DEF Spec, LastAdminFallsToStaleForm

\* A demand to change the password is met by a new password only.
LEMMA DemandStep ==
    ASSUME Fresh, [Next]_vars, NEW u \in Users, users[u].must, ~users'[u].must
    PROVE  users'[u].pw # users[u].pw
<1>1. users'[u] # users[u] /\ users' # users
  OBVIOUS
<1>2. PICK r \in Requests : /\ Written(r) /\ at[r] = "loaded"
                            /\ target[r] \in Users /\ seen[r] \in Account
  BY <1>1, AccountStep DEF Fresh
<1>3. PICK form \in Account :
        Save(r, form) /\ (form.must \/ form.pw = r \/ form.must = seen[r].must)
  BY <1>2 DEF Written
<1>4. /\ u = target[r]
      /\ users'[u].must = Flushed(users[u].must, seen[r].must, form.must)
      /\ users'[u].pw = Flushed(users[u].pw, seen[r].pw, form.pw)
  <2>1. Save(r, form) /\ users \in [Users -> Account]
    BY <1>3 DEF Fresh, TypeOK
  <2>2. u = target[r]
    BY <1>1, <1>2, <2>1, SaveEffect
  <2> QED
    BY <1>2, <2>1, <2>2, SaveEffect
<1>5. users[u].pw # r /\ seen[r].pw # r
  BY <1>2, AccountsAssumption DEF Fresh, PasswordsFresh, TypeOK, Account
<1>6. form.pw = r
  BY <1>3, <1>4 DEF Flushed
<1> QED
  BY <1>4, <1>5, <1>6 DEF Flushed

THEOREM DemandsAreMet == Spec => DemandEndsWithNewPassword
<1>1. Fresh /\ [Next]_vars =>
        [\A u \in Users : users[u].must /\ ~users'[u].must => users'[u].pw # users[u].pw]_vars
  BY DemandStep
<1> QED
  BY <1>1, FreshAlways, PTL DEF Spec, DemandEndsWithNewPassword
------------------------------------------------------------------------------
(* Invitations. *)
InvitesOnce == InvitesShape /\ InviteOpensOneAccount

LEMMA InvitesStep == TypeOK /\ IdsBounded /\ InvitesOnce /\ [Next]_vars => InvitesOnce'
<1> SUFFICES ASSUME TypeOK, IdsBounded, InvitesOnce, [Next]_vars PROVE InvitesOnce'
  OBVIOUS
<1> USE DEF InvitesOnce, InvitesShape, InviteOpensOneAccount
<1>1. /\ \A q \in Requests : at[q] = "done" => at'[q] = "done"
      /\ \A i \in invites : i.link \in Requests
  BY DoneStays DEF TypeOK
<1>2. ASSUME NEW r \in Requests, CreateInvite(r) PROVE InvitesOnce'
  <2>1. /\ at[r] # "done" /\ at'[r] = "done" /\ joined' = joined
        /\ invites' = invites \cup {[id |-> NewId(invites), link |-> r, open |-> TRUE]}
    BY <1>2 DEF CreateInvite, End, Goto, TypeOK
  <2>2. joined[r] = {} /\ \A i \in invites : i.link # r
    BY <2>1
  <2>3. [id |-> NewId(invites), link |-> r, open |-> TRUE].link = r
    OBVIOUS
  <2> QED
    BY <1>1, <2>1, <2>2, <2>3
<1>3. ASSUME NEW r \in Requests, RevokeInvite(r) PROVE InvitesOnce'
  BY <1>1, <1>3 DEF RevokeInvite
<1>4. ASSUME NEW r \in Requests, Register(r) PROVE InvitesOnce'
  <2>1. PICK i \in invites : i.open /\ i.link = link[r] /\ invites' = Closed(invites, i.id)
    BY <1>4 DEF Register, lookup_valid_invite, ValidInvites
  <2>2. /\ at[i.link] = "done" /\ joined[i.link] = {} /\ i.link \in Requests
        /\ joined' = [joined EXCEPT ![i.link] = joined[i.link] \cup {r}]
    BY <1>1, <1>4, <2>1 DEF Register
  <2>3. joined'[i.link] = {r} /\ \A l \in Requests \ {i.link} : joined'[l] = joined[l]
    BY <2>2 DEF TypeOK
  <2>4. \A t \in invites' : \E s \in invites :
            s.link = t.link /\ (t.open => s = t /\ s.id # i.id) /\ (s.id # i.id => s = t)
    <3>1. invites \in SUBSET InviteRow
      BY DEF TypeOK, InviteRow
    <3> QED
      BY <2>1, <3>1, ClosedInvites
  <2>5. \A t \in invites' : t.link = i.link => ~t.open
    BY <2>1, <2>4
  <2>6. ASSUME NEW s \in invites', NEW t \in invites', s.link = t.link PROVE s = t
    <3>1. PICK p \in invites : s = IF p.id = i.id THEN [p EXCEPT !.open = FALSE] ELSE p
      BY <2>1 DEF Closed
    <3>2. PICK q \in invites : t = IF q.id = i.id THEN [q EXCEPT !.open = FALSE] ELSE q
      BY <2>1 DEF Closed
    <3>3. p.link = s.link /\ q.link = t.link
      BY <3>1, <3>2 DEF TypeOK
    <3> QED
      BY <2>6, <3>1, <3>2, <3>3
  <2> QED
    BY <1>1, <2>2, <2>3, <2>4, <2>5, <2>6
<1>5. CASE UNCHANGED <<invites, joined>>
  BY <1>1, <1>5
<1>6. ASSUME NEW r \in Requests, Reads(r) \/ Writes(r) \/ Mails(r) \/ Idles(r)
      PROVE  UNCHANGED <<invites, joined>>
  BY <1>6 DEF Reads, CheckAdmin, LoadTarget, LoadSelf, FindUser, LoadToken,
      LoadInvite, OpenForm, Writes, ToggleUser, UpdateUser, ChangePassword,
      Mails, DeleteTokens, SendMail, MailFails, StoreToken, Idles, ResetRaises, InviteUsed,
      GiveUp, tables
<1>7. CASE (\E t \in resets \cup invites : Expire(t)) \/ UNCHANGED vars
  BY <1>5, <1>7 DEF Expire, vars, tables
<1> QED
  BY <1>2, <1>3, <1>4, <1>5, <1>6, <1>7, StepKinds DEF Invites

\* A one-time signup link opens one account, however many forms it was loaded by.
THEOREM InvitesUsedOnce == Spec => []InviteOpensOneAccount
<1>1. Init => InvitesOnce
  BY DEF Init, InvitesOnce, InvitesShape, InviteOpensOneAccount
<1>2. Typed => TypeOK /\ IdsBounded
  BY DEF Typed
<1>3. InvitesOnce => InviteOpensOneAccount
  BY DEF InvitesOnce
<1> QED
  BY <1>1, <1>2, <1>3, InvitesStep, InitTypes, TypesInductive, PTL DEF Spec
------------------------------------------------------------------------------
(* Reset links. *)
LEMMA TokensStep ==
    ASSUME TypeOK, [Next]_vars
    PROVE  resets' = resets \/ \E r \in Requests : StoreToken(r)
<1>1. ASSUME NEW r \in Requests,
             \/ Reads(r) \/ Invites(r) \/ Idles(r) \/ Writes(r)
             \/ DeleteTokens(r) \/ SendMail(r) \/ MailFails(r)
      PROVE  resets' = resets
  BY <1>1 DEF Reads, CheckAdmin, LoadTarget, LoadSelf, FindUser, LoadToken, LoadInvite,
      OpenForm, Writes, ToggleUser, UpdateUser, ChangePassword, DeleteTokens, SendMail,
      MailFails, Invites, CreateInvite, RevokeInvite, Register, Idles, ResetRaises,
      InviteUsed, GiveUp, tables
<1>2. CASE (\E t \in resets \cup invites : Expire(t)) \/ UNCHANGED vars
  BY <1>2 DEF Expire, vars, tables
<1> QED
  BY <1>1, <1>2, StepKinds DEF Mails

\* The one change of the table.
LEMMA StoreEffect ==
    ASSUME TypeOK, NEW r \in Requests, StoreToken(r)
    PROVE  /\ at[r] = "mailed" /\ target[r] \in Users
           /\ \A t \in resets' :
                  t = [link |-> r, user |-> target[r]] \/ (t \in resets /\ t.user # target[r])
           /\ \A t \in resets : t.user # target[r] => t \in resets'
           /\ \E t \in resets' : t.link = r /\ t.user = target[r]
<1>1. at[r] = "mailed" /\ target[r] \in Users
  BY DEF StoreToken, End, Goto, TypeOK, SessionOK
<1>2. PICK new : new = [link |-> r, user |-> target[r]]
  OBVIOUS
<1>3. resets' = Kept(target[r]) \cup {new} /\ new.link = r /\ new.user = target[r]
  BY <1>2 DEF StoreToken
<1> QED
  BY <1>1, <1>2, <1>3 DEF Kept

\* A new link takes the place of the user's old one, in one commit.
LEMMA OneOpenLinkStep == Typed /\ OneOpenLink /\ [Next]_vars => OneOpenLink'
<1> SUFFICES ASSUME TypeOK, OneOpenLink, [Next]_vars PROVE OneOpenLink'
  BY DEF Typed
<1>1. CASE resets' = resets
  BY <1>1 DEF OneOpenLink
<1>2. ASSUME NEW r \in Requests, StoreToken(r) PROVE OneOpenLink'
  <2>1. PICK u, new : u = target[r] /\ new = [link |-> r, user |-> target[r]]
    OBVIOUS
  <2>2. \A t \in resets' : (t = new /\ t.user = u) \/ (t \in resets /\ t.user # u)
    BY <1>2, <2>1, StoreEffect
  <2> QED
    BY <2>2 DEF OneOpenLink
<1> QED
  BY <1>1, <1>2, TokensStep

THEOREM OneLinkPerUser == Spec => []OneOpenLink
<1>1. Init => OneOpenLink
  BY DEF Init, OneOpenLink
<1> QED
  BY <1>1, OneOpenLinkStep, InitTypes, TypesInductive, PTL DEF Spec

MailsStored == Typed /\ MailedShape /\ LastMailStored

\* Nobody but the request that has the lock is between its DELETE and its end.
LEMMA LockHolder ==
    ASSUME TypeOK
    PROVE  \A q \in Requests : at[q] \in {"locked", "mailed"} => writer = q /\ target[q] \in Users
BY DEF TypeOK, SessionOK

LEMMA MailSteps ==
    ASSUME MailsStored, [Next]_vars, NEW r \in Requests,
           SendMail(r) \/ MailFails(r) \/ StoreToken(r)
    PROVE  MailedShape' /\ LastMailStored'
<1> USE DEF MailsStored, Typed
<1>1. /\ at[r] \in {"locked", "mailed"} /\ target[r] \in Users
      /\ \A q \in Requests \ {r} : /\ at[q] # "mailed" /\ at'[q] = at[q]
                                   /\ target'[q] = target[q]
  <2>1. /\ at[r] \in {"locked", "mailed"}
        /\ \A q \in Requests \ {r} : at'[q] = at[q] /\ target'[q] = target[q]
    BY DEF SendMail, MailFails, StoreToken, End, Goto, session, TypeOK
  <2> QED
    BY <2>1, LockHolder
<1>2. CASE SendMail(r)
  <2>1. /\ at[r] = "locked" /\ at'[r] = "mailed" /\ target' = target /\ resets' = resets
        /\ mailed'[target[r]] = r
        /\ \A u \in Users \ {target[r]} : mailed'[u] = mailed[u]
    BY <1>1, <1>2 DEF SendMail, Goto, session, tables, TypeOK
  <2>2. \A u \in Users : mailed[u] \in Requests \cup {None} /\ mailed[u] # r
    BY <2>1, AccountsAssumption DEF MailedShape, TypeOK
  <2> QED
    BY <1>1, <2>1, <2>2 DEF MailedShape, LastMailStored
<1>3. CASE MailFails(r)
  <2>1. /\ at[r] = "locked" /\ at'[r] = "done" /\ resets' = resets /\ mailed' = mailed
    BY <1>3 DEF MailFails, End, Goto, tables, TypeOK
  <2>2. \A u \in Users : mailed[u] \in Requests \cup {None} /\ mailed[u] # r
    BY <2>1, AccountsAssumption DEF MailedShape, TypeOK
  <2> QED
    BY <1>1, <2>1, <2>2 DEF MailedShape, LastMailStored
<1>4. CASE StoreToken(r)
  <2>1. /\ at[r] = "mailed" /\ at'[r] = "done" /\ mailed' = mailed /\ mailed[target[r]] = r
    BY <1>4 DEF StoreToken, End, Goto, TypeOK, MailedShape
  <2>2. \A u \in Users : mailed[u] \in Requests \cup {None}
                         /\ (mailed[u] = r => u = target[r])
    BY <2>1, AccountsAssumption DEF MailedShape, TypeOK
  <2>3. /\ \E t \in resets' : t.link = r /\ t.user = target[r]
        /\ \A t \in resets : t.user # target[r] => t \in resets'
    BY <1>4, StoreEffect
  <2>4. MailedShape'
    BY <1>1, <2>1, <2>2 DEF MailedShape
  <2>5. ASSUME NEW u \in Users, mailed[u] # None
        PROVE  \E t \in resets' : t.link = mailed[u] /\ t.user = u
    <3>1. CASE u = target[r]
      BY <2>1, <2>3, <3>1
    <3>2. CASE u # target[r]
      <4>1. mailed[u] \in Requests \ {r} /\ at[mailed[u]] # "mailed"
        BY <1>1, <2>2, <2>5, <3>2
      <4> QED
        BY <2>3, <2>5, <3>2, <4>1 DEF LastMailStored
    <3> QED
      BY <3>1, <3>2
  <2> QED
    BY <2>1, <2>4, <2>5 DEF LastMailStored
<1> QED
  BY <1>2, <1>3, <1>4

\* What all other steps leave alone.
LEMMA OtherSteps ==
    ASSUME TypeOK, NEW r \in Requests,
           Reads(r) \/ Invites(r) \/ Idles(r) \/ DeleteTokens(r) \/ Writes(r)
    PROVE  /\ UNCHANGED <<resets, mailed>>
           /\ \A q \in Requests : at'[q] = "mailed" => at[q] = "mailed"
           /\ \A q \in Requests : at[q] = "mailed" =>
                  at'[q] = "mailed" /\ target'[q] = target[q]
<1> USE DEF TypeOK, Goto, GotoLoaded, tables, session
<1>1. CASE Reads(r)
  BY <1>1 DEF Reads, CheckAdmin, LoadTarget, LoadSelf, FindUser, LoadToken, LoadInvite,
              OpenForm
<1>2. CASE Invites(r) \/ Idles(r)
  BY <1>2 DEF Invites, CreateInvite, RevokeInvite, Register, Idles, ResetRaises, InviteUsed,
              GiveUp, Commit, End
<1>3. CASE DeleteTokens(r) \/ Writes(r)
  BY <1>3 DEF DeleteTokens, Writes, ToggleUser, UpdateUser, ChangePassword, Commit, End
<1> QED
  BY <1>1, <1>2, <1>3

LEMMA MailsStoredStep == MailsStored /\ [Next]_vars => MailsStored'
<1> SUFFICES ASSUME MailsStored, [Next]_vars PROVE MailedShape' /\ LastMailStored'
  BY TypesInductive DEF MailsStored
<1>1. \A q \in Requests : at[q] = "done" => at'[q] = "done"
  <2>1. \A q \in Requests : at[q] = "done" /\ at'[q] # "done" => FALSE
    BY DoneStays DEF MailsStored, Typed
  <2> QED
    BY <2>1
<1>2. ASSUME UNCHANGED <<resets, mailed>>,
             \A q \in Requests : at'[q] = "mailed" => at[q] = "mailed",
             \A q \in Requests : at[q] = "mailed" => at'[q] = "mailed" /\ target'[q] = target[q]
      PROVE  MailedShape' /\ LastMailStored'
  <2>1. \A u \in Users : mailed[u] \in Requests \cup {None}
    BY DEF MailsStored, Typed, TypeOK
  <2> QED
    BY <1>1, <1>2, <2>1 DEF MailsStored, MailedShape, LastMailStored
<1>3. CASE (\E t \in resets \cup invites : Expire(t)) \/ UNCHANGED vars
  BY <1>2, <1>3 DEF Expire, vars, tables, session
<1>4. ASSUME NEW r \in Requests,
             Reads(r) \/ Invites(r) \/ Idles(r) \/ DeleteTokens(r) \/ Writes(r)
      PROVE  MailedShape' /\ LastMailStored'
  BY <1>2, <1>4, OtherSteps DEF MailsStored, Typed
<1> QED
  BY <1>3, <1>4, MailSteps, StepKinds DEF Mails

\* The link mailed last is the one that is stored, whatever mails are sent beside it
\* and whichever fail.
THEOREM MailedLinksAreStored == Spec => []LastMailStored
<1>1. Init => MailsStored
  BY InitTypes, AccountsAssumption DEF Init, MailsStored, MailedShape, LastMailStored
<1>2. MailsStored => LastMailStored
  BY DEF MailsStored
<1> QED
  BY <1>1, <1>2, MailsStoredStep, PTL DEF Spec
==============================================================================
