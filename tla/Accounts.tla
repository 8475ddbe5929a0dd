------------------------------ MODULE Accounts ------------------------------
(***************************************************************************)
(* The accounts of the gateway: what the forms of operators, users and     *)
(* visitors read and write in web_users, password_reset_tokens and         *)
(* registration_invites (app/web/accounts.py, app/web/invites.py,          *)
(* app/web/platform/users.py).                                             *)
(*                                                                         *)
(* A request reads without a lock, in as many steps as it has queries, and *)
(* writes in one transaction.  Its first flushed statement takes the write *)
(* lock; only the requests that send a mail hold the lock over several     *)
(* steps.  A flush writes the columns whose value differs from the value   *)
(* loaded, and finds rows by id; ids are reused once the newest rows are   *)
(* deleted.  A reset link is mailed and stored, but cannot be used: the    *)
(* form that redeems it fails before it writes anything.                   *)
(***************************************************************************)
EXTENDS Naturals, FiniteSets, FiniteSetsExt

CONSTANTS
    Users,      \* accounts that exist from the start
    Operators,  \* those that are platform admins
    Requests,
    Kind,       \* the form a request posts
    None

\* Forms for operators only, and all forms.
AdminKinds == {"toggle", "update", "send_reset", "invite", "revoke"}
Kinds == AdminKinds \cup {"password", "forgot", "reset", "register"}

\* A row of web_users; its password is named by the request that set it.
Account == [active : BOOLEAN, admin : BOOLEAN, must : BOOLEAN, pw : Requests \cup {None}]

ASSUME AccountsAssumption ==
    /\ Operators \subseteq Users
    /\ Kind \in [Requests -> Kinds]
    /\ None \notin Users \cup Requests \cup Account

VARIABLES
    users,    \* web_users
    resets,   \* password_reset_tokens
    invites,  \* registration_invites
    lapsed,   \* the links that are too old, named by the request that made them
    writer,   \* the request that holds the write lock
    at,       \* where a request is
    actor,    \* the account whose session it carries
    target,   \* the account it is about
    seen,     \* that account's row as loaded
    row,      \* the id of the invite it has loaded
    link,     \* the link it was posted with
    joined,   \* history: the requests that registered with an invitation
    mailed    \* history: the reset link mailed last

tables == <<users, resets, invites>>
session == <<actor, target, seen, row, link>>
vars == <<tables, lapsed, writer, at, session, joined, mailed>>

Phases == {"new", "checked", "found", "loaded", "locked", "mailed", "done"}

NewUser(admin, must) == [active |-> TRUE, admin |-> admin, must |-> must, pw |-> None]

\* Any account but an operator may still have the password it was created with.
Init ==
    /\ users \in {u \in [Users -> {NewUser(a, m) : a, m \in BOOLEAN}] :
                    \A n \in Users : u[n].admin = (n \in Operators) /\ ~(u[n].admin /\ u[n].must)}
    /\ resets = {} /\ invites = {} /\ lapsed = {}
    /\ writer = None
    /\ at = [r \in Requests |-> "new"]
    /\ actor = [r \in Requests |-> None]
    /\ target = [r \in Requests |-> None]
    /\ seen = [r \in Requests |-> None]
    /\ row = [r \in Requests |-> 0]
    /\ link = [r \in Requests |-> None]
    /\ joined = [r \in Requests |-> {}]
    /\ mailed = [u \in Users |-> None]

Goto(r, from, to) == at[r] = from /\ at' = [at EXCEPT ![r] = to]
GotoLoaded(r, from) == Goto(r, from, "loaded")

\* A request is answered; what it has loaded goes with its session.
End(r, from) ==
    /\ Goto(r, from, "done")
    /\ actor' = [actor EXCEPT ![r] = None] /\ target' = [target EXCEPT ![r] = None]
    /\ seen' = [seen EXCEPT ![r] = None] /\ row' = [row EXCEPT ![r] = 0]
    /\ link' = [link EXCEPT ![r] = None]

\* A transaction that is not held over several steps needs the write lock.
Commit(r) == writer = None /\ UNCHANGED writer /\ End(r, "loaded")

\* The id SQLite gives a new row of an INTEGER PRIMARY KEY table.
NewId(table) == IF table = {} THEN 1 ELSE 1 + Max({t.id : t \in table})

\* Mutant: the flush writes the whole row.
FlushedRow(stored, old, new) == new

\* What a column holds after the flush of a session that loaded `old`.
Flushed(stored, old, new) == IF new = old THEN stored ELSE new

\* UPDATE web_users of what `form` changes in the row the request has loaded.
Save(r, form) ==
    users' = [users EXCEPT ![target[r]] =
        [active |-> Flushed(@.active, seen[r].active, form.active),
         admin  |-> Flushed(@.admin, seen[r].admin, form.admin),
         must   |-> Flushed(@.must, seen[r].must, form.must),
         pw     |-> Flushed(@.pw, seen[r].pw, form.pw)]]
------------------------------------------------------------------------------
(* Who posts the form (web/session.py), and the account it is about. *)

\* require_platform_admin: the operator's row is loaded and checked.  An
\* account that must change its password is sent to do so.
CheckAdmin(r) ==
    /\ Kind[r] \in AdminKinds /\ Goto(r, "new", "checked")
    /\ \E u \in Users :
         /\ users[u].active /\ users[u].admin /\ ~users[u].must
         /\ actor' = [actor EXCEPT ![r] = u]
         /\ seen' = [seen EXCEPT ![r] = users[u]]
    /\ UNCHANGED <<tables, lapsed, writer, target, row, link, joined, mailed>>

\* Mutant: operators may deactivate themselves.
LoadAnyTarget(r) ==
    /\ Kind[r] \in {"toggle", "update", "send_reset"} /\ GotoLoaded(r, "checked")
    /\ \E u \in Users :
         /\ target' = [target EXCEPT ![r] = u]
         /\ seen' = [seen EXCEPT ![r] = IF u = actor[r] THEN @ ELSE users[u]]
    /\ UNCHANGED <<tables, lapsed, writer, actor, row, link, joined, mailed>>

\* db.get of the account the operator picked.  The operator's own row is not
\* read again: it is in the session's identity map.
LoadTarget(r) ==
    /\ Kind[r] \in {"toggle", "update", "send_reset"} /\ GotoLoaded(r, "checked")
    /\ \E u \in Users :
         /\ Kind[r] = "toggle" => u # actor[r]
         /\ target' = [target EXCEPT ![r] = u]
         /\ seen' = [seen EXCEPT ![r] = IF u = actor[r] THEN @ ELSE users[u]]
    /\ UNCHANGED <<tables, lapsed, writer, actor, row, link, joined, mailed>>

\* require_user, for the forms of the account page.
LoadSelf(r) ==
    /\ Kind[r] = "password" /\ GotoLoaded(r, "new")
    /\ \E u \in Users :
         /\ users[u].active
         /\ actor' = [actor EXCEPT ![r] = u]
         /\ target' = [target EXCEPT ![r] = u]
         /\ seen' = [seen EXCEPT ![r] = users[u]]
    /\ UNCHANGED <<tables, lapsed, writer, row, link, joined, mailed>>
------------------------------------------------------------------------------
(* Operators switch accounts on and off and edit them; users change their   *)
(* password.                                                                *)
Toggled(r) == [active |-> ~seen[r].active, admin |-> seen[r].admin,
               must |-> seen[r].must, pw |-> seen[r].pw]
WithPassword(r) == [active |-> seen[r].active, admin |-> seen[r].admin,
                    must |-> FALSE, pw |-> r]

ToggleUser(r) ==
    /\ Kind[r] = "toggle" /\ Commit(r)
    /\ Save(r, Toggled(r))
    /\ UNCHANGED <<resets, invites, lapsed, joined, mailed>>

\* Mutant: the box "Must change password" overwrites an earlier demand.
EditedByBox(r, box, promote, setpw) ==
    [active |-> seen[r].active,
     admin  |-> IF target[r] = actor[r] THEN seen[r].admin ELSE promote,
     must   |-> box,
     pw     |-> IF setpw THEN r ELSE seen[r].pw]

\* What the edit form makes of the row: the boxes "Must change password" and
\* "admin", and a new password if one was entered.
Edited(r, box, promote, setpw) ==
    [active |-> seen[r].active,
     admin  |-> IF target[r] = actor[r] THEN seen[r].admin ELSE promote,
     must   |-> IF setpw THEN box ELSE box \/ seen[r].must,
     pw     |-> IF setpw THEN r ELSE seen[r].pw]

UpdateUser(r) ==
    /\ Kind[r] = "update" /\ Commit(r)
    /\ \E box, promote, setpw \in BOOLEAN : Save(r, Edited(r, box, promote, setpw))
    /\ UNCHANGED <<resets, invites, lapsed, joined, mailed>>

ChangePassword(r) ==
    /\ Kind[r] = "password" /\ Commit(r)
    /\ Save(r, WithPassword(r))
    /\ UNCHANGED <<resets, invites, lapsed, joined, mailed>>
------------------------------------------------------------------------------
(* Reset links.  The mail is sent between the DELETE of create_reset_token  *)
(* and the commit, so under the write lock.                                 *)
FindUser(r) ==
    /\ Kind[r] = "forgot" /\ GotoLoaded(r, "new")
    /\ \E u \in Users : users[u].active /\ target' = [target EXCEPT ![r] = u]
    /\ UNCHANGED <<tables, lapsed, writer, actor, seen, row, link, joined, mailed>>

DeleteTokens(r) ==
    /\ Kind[r] \in {"forgot", "send_reset"} /\ Goto(r, "loaded", "locked")
    /\ writer = None /\ writer' = r
    /\ UNCHANGED <<tables, lapsed, session, joined, mailed>>

SendMail(r) ==
    /\ Goto(r, "locked", "mailed")
    /\ mailed' = [mailed EXCEPT ![target[r]] = r]
    /\ UNCHANGED <<tables, lapsed, writer, session, joined>>

\* Mutant: the tokens are deleted although no mail has gone out.
MailFailsAfterDelete(r) ==
    /\ End(r, "locked")
    /\ writer' = None
    /\ resets' = {t \in resets : t.user # target[r]}
    /\ UNCHANGED <<users, invites, lapsed, joined, mailed>>

MailFails(r) ==
    /\ End(r, "locked")
    /\ writer' = None
    /\ UNCHANGED <<tables, lapsed, joined, mailed>>

\* Mutant: create_reset_token leaves old tokens alone.
KeptAll(u) == resets

\* What the DELETE of create_reset_token leaves.  It spares used tokens, but no
\* token is ever marked as used.
Kept(u) == {t \in resets : t.user # u}

StoreToken(r) ==
    /\ End(r, "mailed")
    /\ writer' = None
    /\ resets' = Kept(target[r]) \cup {[link |-> r, user |-> target[r]]}
    /\ UNCHANGED <<users, invites, lapsed, joined, mailed>>

\* reset_submit finds the row of the link it was posted with.
LoadToken(r) ==
    /\ Kind[r] = "reset" /\ Goto(r, "new", "found")
    /\ \E t \in resets :
         /\ link' = [link EXCEPT ![r] = t.link]
         /\ target' = [target EXCEPT ![r] = t.user]
    /\ UNCHANGED <<tables, lapsed, writer, actor, seen, row, joined, mailed>>

\* It compares the expires_at that SQLite returns, which has no time zone, with
\* utcnow(), which has one: TypeError, before the account is loaded.
ResetRaises(r) ==
    /\ Kind[r] = "reset" /\ End(r, "found")
    /\ UNCHANGED <<tables, lapsed, writer, joined, mailed>>
------------------------------------------------------------------------------
(* Invitations. *)
CreateInvite(r) ==
    /\ Kind[r] = "invite" /\ End(r, "checked")
    /\ writer = None
    /\ invites' = invites \cup {[id |-> NewId(invites), link |-> r, open |-> TRUE]}
    /\ UNCHANGED <<users, resets, lapsed, writer, joined, mailed>>

\* db.get of the invite to revoke; a used one is refused.
LoadInvite(r) ==
    /\ Kind[r] = "revoke" /\ GotoLoaded(r, "checked")
    /\ \E i \in invites : i.open /\ row' = [row EXCEPT ![r] = i.id]
    /\ UNCHANGED <<tables, lapsed, writer, actor, target, seen, link, joined, mailed>>

RowsWith(table, id) == {t \in table : t.id = id}
Closed(table, id) == {IF t.id = id THEN [t EXCEPT !.open = FALSE] ELSE t : t \in table}

RevokeInvite(r) ==
    /\ Kind[r] = "revoke" /\ Commit(r)
    /\ invites' = invites \ RowsWith(invites, row[r])
    /\ UNCHANGED <<users, resets, lapsed, joined, mailed>>

ValidInvites == {i \in invites : i.open /\ i.link \notin lapsed}
lookup_valid_invite(l) == {i \in ValidInvites : i.link = l}

OpenForm(r) ==
    /\ Kind[r] = "register" /\ GotoLoaded(r, "new")
    /\ \E i \in ValidInvites : link' = [link EXCEPT ![r] = i.link]
    /\ UNCHANGED <<tables, lapsed, writer, actor, target, seen, row, joined, mailed>>

\* Mutant: the invite is not looked up again under the write lock.
RegisterUnchecked(r) ==
    /\ Kind[r] = "register" /\ Commit(r)
    /\ invites' = {IF i.link = link[r] THEN [i EXCEPT !.open = FALSE] ELSE i : i \in invites}
    /\ joined' = [joined EXCEPT ![link[r]] = @ \cup {r}]
    /\ UNCHANGED <<users, resets, lapsed, mailed>>

\* register_submit from the flush of the new account on: the invite is looked
\* up again, under the write lock.
Register(r) ==
    /\ Kind[r] = "register" /\ Commit(r)
    /\ \E i \in lookup_valid_invite(link[r]) : invites' = Closed(invites, i.id)
    /\ joined' = [joined EXCEPT ![link[r]] = @ \cup {r}]
    /\ UNCHANGED <<users, resets, lapsed, mailed>>

InviteUsed(r) ==
    /\ Kind[r] = "register" /\ End(r, "loaded")
    /\ writer = None
    /\ lookup_valid_invite(link[r]) = {}
    /\ UNCHANGED <<tables, lapsed, writer, joined, mailed>>
------------------------------------------------------------------------------
\* A request ends without a commit: its input is refused, it waits too long for
\* the write lock, or the client goes away while the form is read.
GiveUp(r) ==
    /\ at[r] \in {"checked", "loaded"} /\ End(r, at[r])
    /\ UNCHANGED <<tables, lapsed, writer, joined, mailed>>

\* RESET_TTL and INVITE_TTL.
Expire(t) ==
    /\ t.link \notin lapsed
    /\ lapsed' = lapsed \cup {t.link}
    /\ UNCHANGED <<tables, writer, at, session, joined, mailed>>

Step(r) ==
    \/ CheckAdmin(r) \/ LoadTarget(r) \/ LoadSelf(r)
    \/ ToggleUser(r) \/ UpdateUser(r) \/ ChangePassword(r)
    \/ FindUser(r) \/ DeleteTokens(r) \/ SendMail(r) \/ MailFails(r) \/ StoreToken(r)
    \/ LoadToken(r) \/ ResetRaises(r)
    \/ CreateInvite(r) \/ LoadInvite(r) \/ RevokeInvite(r)
    \/ OpenForm(r) \/ Register(r) \/ InviteUsed(r)
    \/ GiveUp(r)

Next == (\E r \in Requests : Step(r)) \/ (\E t \in resets \cup invites : Expire(t))

Spec == Init /\ [][Next]_vars
------------------------------------------------------------------------------
\* What a request that is about to write has loaded.
Saving == {"toggle", "update", "password"}
Mailing == {"forgot", "send_reset"}

SessionOK(r) ==
    /\ at[r] = "checked" => Kind[r] \in AdminKinds /\ actor[r] \in Users /\ seen[r] \in Account
    /\ at[r] = "found" => Kind[r] = "reset" /\ target[r] \in Users /\ link[r] \in Requests
    /\ at[r] = "loaded" /\ Kind[r] \in Saving => target[r] \in Users /\ seen[r] \in Account
    /\ at[r] \in {"loaded", "locked", "mailed"} /\ Kind[r] \in Mailing => target[r] \in Users
    /\ at[r] \in {"locked", "mailed"} => Kind[r] \in Mailing /\ writer = r
    /\ at[r] = "loaded" /\ Kind[r] = "register" => link[r] \in Requests

TypeOK ==
    /\ users \in [Users -> Account]
    /\ resets \in SUBSET [link : Requests, user : Users]
    /\ invites \in SUBSET [id : Nat, link : Requests, open : BOOLEAN]
    /\ lapsed \in SUBSET Requests
    /\ writer \in Requests \cup {None}
    /\ at \in [Requests -> Phases]
    /\ actor \in [Requests -> Users \cup {None}]
    /\ target \in [Requests -> Users \cup {None}]
    /\ seen \in [Requests -> Account \cup {None}]
    /\ row \in [Requests -> Nat]
    /\ link \in [Requests -> Requests \cup {None}]
    /\ joined \in [Requests -> SUBSET Requests]
    /\ mailed \in [Users -> Requests \cup {None}]
    /\ \A r \in Requests : SessionOK(r)

\* A password that was replaced never comes back, whatever was loaded before it
\* was replaced and written afterwards.
OldPasswordsStayOut ==
    [][\A u \in Users : users'[u].pw # users[u].pw =>
          users'[u].pw # None /\ at[users'[u].pw] = "loaded"]_vars

\* An account is switched on or off, promoted or demoted only by a form that an
\* operator posted about it and that asks for that: no password form and no
\* edit begun earlier undoes it (users_toggle, users_update).
Asked(r, u) ==
    /\ at[r] = "loaded" /\ at'[r] = "done" /\ target[r] = u /\ actor[r] # u

RightsChangeByOthersOnly ==
    [][\A u \in Users :
         /\ users'[u].active # users[u].active =>
               \E r \in Requests : Kind[r] = "toggle" /\ Asked(r, u)
         /\ users'[u].admin # users[u].admin =>
               \E r \in Requests : Kind[r] = "update" /\ Asked(r, u)]_vars

\* The last operator goes only by a form whose own sender has lost its rights
\* after it was checked (target.id != user.id in users_toggle, users_update).
Admins == {u \in Users : users[u].active /\ users[u].admin}

LastAdminFallsToStaleForm ==
    [][Admins # {} /\ Admins' = {} =>
         \E r \in Requests : at[r] = "loaded" /\ at'[r] = "done" /\ actor[r] \notin Admins]_vars

\* The demand to change a password ends only with another password.
DemandEndsWithNewPassword ==
    [][\A u \in Users : users[u].must /\ ~users'[u].must => users'[u].pw # users[u].pw]_vars

\* A user has at most one reset link in force, however many are mailed at once.
OneOpenLink == \A s, t \in resets : s.user = t.user => s = t

\* The link mailed last is the one that is stored (once its request has
\* committed), whatever mails fail afterwards.  That it is stored does not help
\* its owner yet: see MailedLinkAccepted.
LastMailStored ==
    \A u \in Users : mailed[u] = None \/ at[mailed[u]] = "mailed" \/
        \E t \in resets : t.link = mailed[u] /\ t.user = u

\* "Reset your password (valid 1 hour)" (the mail of forgot_submit): a form posted
\* with a link that is stored and not too old sets the password of its owner.
Redeemable(r) ==
    /\ \E t \in resets : t.link = link[r] /\ t.user = target[r]
    /\ link[r] \notin lapsed /\ users[target[r]].active

MailedLinkAccepted ==
    [][\A r \in Requests :
          Kind[r] = "reset" /\ at[r] = "found" /\ at'[r] = "done" /\ Redeemable(r) =>
              users'[target[r]].pw = r]_vars

\* "One-time signup link" (users.py users_invite_create): one account per link.
InviteOpensOneAccount == \A l \in Requests : \A r, s \in joined[l] : r = s

\* The strengthening that makes these inductive.  A request's password is
\* nowhere before it is answered; nobody toggles its own account; an invitation
\* that was used is closed; and a request that has mailed a link holds the record
\* of it.
PasswordsFresh ==
    \A r \in Requests : at[r] # "done" =>
        /\ \A u \in Users : users[u].pw # r
        /\ \A s \in Requests : seen[s] # None => seen[s].pw # r

TogglesOthers ==
    \A r \in Requests : at[r] = "loaded" /\ Kind[r] = "toggle" => target[r] # actor[r]

InvitesShape ==
    /\ \A i \in invites : at[i.link] = "done"
    /\ \A i, j \in invites : i.link = j.link => i = j
    /\ \A l \in Requests : joined[l] # {} =>
          at[l] = "done" /\ \A i \in invites : i.link = l => ~i.open

MailedShape ==
    /\ \A u \in Users : mailed[u] # None =>
          /\ at[mailed[u]] \in {"mailed", "done"}
          /\ at[mailed[u]] = "mailed" => target[mailed[u]] = u
    /\ \A r \in Requests : at[r] = "mailed" => mailed[target[r]] = r

IInv ==
    /\ TypeOK /\ OneOpenLink /\ LastMailStored /\ InviteOpensOneAccount
    /\ PasswordsFresh /\ TogglesOthers /\ InvitesShape /\ MailedShape
=============================================================================
