------------------------------ MODULE Accounts ------------------------------
(***************************************************************************)
(* UsersService over the tables user and token: signing up, activating,    *)
(* resending the activation token, resetting the password, changing the    *)
(* name.  Every method is one unit of work; here each of its statements    *)
(* is a step, for other requests run between any two of them.              *)
(*                                                                         *)
(* A request is an id.  The user that a sign-up creates and the token that *)
(* a request issues carry the id of the request, so a request knows all it *)
(* may create.  PostgreSQL runs the transactions at READ COMMITTED:        *)
(*   - a statement sees what was committed when it began;                  *)
(*   - an INSERT waits for an open one with the same e-mail, an UPDATE for *)
(*     the holder of the user's row, a token only for one that writes a    *)
(*     unique column of it;                                                *)
(*   - a DELETE first picks its rows (sees), then waits for those another  *)
(*     open DELETE holds, and skips what is gone by then.  DELETEs take    *)
(*     rows in the order of the table, so that they wait as a whole.       *)
(* Rows that only their own transaction sees, and the row locks, follow    *)
(* from pc and are not variables.  Any statement may fail.                 *)
(***************************************************************************)
EXTENDS Naturals

CONSTANTS Requests, Emails, None

ASSUME AccountsAssumption == None \notin Requests \cup Emails

VARIABLES
  user,      \* committed rows of user, by id
  tokens,    \* committed rows of token
  mailed,    \* tokens that have reached the mailbox
  pc,        \* progress of each request
  kind,      \* which method of UsersService a request runs
  arg,       \* the e-mail or the token the client sent
  uid,       \* user.id or token.user_id, once the request knows it
  sees,      \* the rows its DELETE has picked
  older      \* history: the tokens it replaces that existed when it read the user

tables    == <<user, tokens>>
handler   == <<kind, arg, older>>
vars      == <<user, tokens, mailed, pc, kind, arg, uid, sees, older>>

Absent    == [email |-> None, active |-> FALSE, password |-> None]
InTable(u) == user[u].email # None

Issuing   == {"signup", "resend", "reset"}
Using     == {"activate", "password"}
Replacing == Using \cup {"resend"}           \* those that delete_all_for_user

Running   == {"begun", "inserted", "found", "updated", "deleting", "deleted", "committed"}
Ended     == {"done", "refused", "failed"}
Committed(r) == pc[r] \in {"committed", "done"}

\* The scope of the token a request issues or uses.
Scope(r) == IF kind[r] \in {"reset", "password"} THEN "password-reset" ELSE "activation"

OfUser(u, r) == {t \in tokens : uid[t] = u /\ Scope(t) = Scope(r)}

TypeOK ==
  /\ user \in [Requests -> [email    : Emails \cup {None},
                            active   : BOOLEAN,
                            password : Requests \cup {None}]]
  /\ tokens \subseteq Requests
  /\ mailed \subseteq Requests
  /\ pc    \in [Requests -> Running \cup Ended \cup {"idle"}]
  /\ kind  \in [Requests -> Issuing \cup Using \cup {"change", "none"}]
  /\ arg   \in [Requests -> Emails \cup Requests \cup {None}]
  /\ uid   \in [Requests -> Requests \cup {None}]
  /\ sees  \in [Requests -> SUBSET Requests]
  /\ older \in [Requests -> SUBSET Requests]

Init ==
  /\ user   = [u \in Requests |-> Absent]
  /\ tokens = {}
  /\ mailed = {}
  /\ pc     = [r \in Requests |-> "idle"]
  /\ kind   = [r \in Requests |-> "none"]
  /\ arg    = [r \in Requests |-> None]
  /\ uid    = [r \in Requests |-> None]
  /\ sees   = [r \in Requests |-> {}]
  /\ older  = [r \in Requests |-> {}]

Goto(r, from, to) ==
  /\ pc[r] = from
  /\ pc' = [pc EXCEPT ![r] = to]

\* A request that ends without a commit leaves nothing behind.
GiveUp(r, how) ==
  /\ pc'    = [pc    EXCEPT ![r] = how]
  /\ kind'  = [kind  EXCEPT ![r] = "none"]
  /\ arg'   = [arg   EXCEPT ![r] = None]
  /\ uid'   = [uid   EXCEPT ![r] = None]
  /\ sees'  = [sees  EXCEPT ![r] = {}]
  /\ older' = [older EXCEPT ![r] = {}]
  /\ UNCHANGED <<tables, mailed>>

-----------------------------------------------------------------------------
\* Row locks.

\* From its INSERT or UPDATE until the unit of work ends, however it ends.
HoldsUser(r) ==
  \/ pc[r] = "inserted"
  \/ kind[r] \in Using \cup {"change"} /\ pc[r] \in {"updated", "deleting", "deleted"}

\* The columns that the UPDATE of the user's row sets, and those that a token's foreign key
\* could refer to, because a unique index is on them.
Sets(r) == CASE kind[r] = "activate" -> {"is_active"}
             [] kind[r] = "password" -> {"password_hash"}
             [] kind[r] = "change"   -> {"username"}
             [] OTHER                -> {}
Keys    == {"id", "email"}

\* Mutant: the user's row is read FOR UPDATE.
HoldsRow(r)  == HoldsUser(r)

\* It writes a key of the user's row, which a token that refers to the row must wait for.
HoldsKey(r)  == HoldsUser(r) /\ Sets(r) \cap Keys # {}

\* Its transaction holds a row with this e-mail.
HoldsEmail(r, e) ==
  \/ pc[r] = "inserted" /\ arg[r] = e
  \/ HoldsUser(r) /\ user[uid[r]].email = e

\* It has taken rows of token that the DELETE of r has picked too.
HoldsPicked(q, r) == q # r /\ pc[q] = "deleted" /\ sees[q] \cap sees[r] \cap tokens # {}

UserFree(u)  == \A r \in Requests : uid[r] = u => ~HoldsUser(r)
KeyFree(u)   == \A r \in Requests : uid[r] = u => ~HoldsKey(r)
EmailFree(e) == \A r \in Requests : ~HoldsEmail(r, e)

Taken(e)     == \E u \in Requests : user[u].email = e

-----------------------------------------------------------------------------
\* The client.

Begin(r, k, a) ==
  /\ Goto(r, "idle", "begun")
  /\ kind' = [kind EXCEPT ![r] = k]
  /\ arg'  = [arg EXCEPT ![r] = a]
  /\ UNCHANGED <<tables, mailed, uid, sees, older>>

\* Endpoints that take an e-mail, and those that take a token out of a mail,
\* whatever it was mailed for.
AskForToken(r)  == \E k \in Issuing, e \in Emails : Begin(r, k, e)
PresentToken(r) == \E k \in Using, t \in mailed : Begin(r, k, t)

\* An endpoint that takes the id of a user: check_exists_active has let the user through.
AskToChange(r) == \E u \in Requests :
  /\ InTable(u) /\ user[u].active
  /\ Goto(r, "idle", "begun")
  /\ kind' = [kind EXCEPT ![r] = "change"]
  /\ uid'  = [uid EXCEPT ![r] = u]
  /\ UNCHANGED <<tables, mailed, arg, sees, older>>

-----------------------------------------------------------------------------
\* Issuing a token.

\* Mutant: the user is created in a unit of work of its own.
InsertUserAtOnce(r) ==
  /\ kind[r] = "signup"
  /\ EmailFree(arg[r]) /\ ~Taken(arg[r])
  /\ Goto(r, "begun", "inserted")
  /\ uid'  = [uid EXCEPT ![r] = r]
  /\ user' = [user EXCEPT ![r] = [email |-> arg[r], active |-> FALSE, password |-> r]]
  /\ UNCHANGED <<tokens, mailed, handler, sees>>

\* create_with_hashed_password.
InsertUser(r) ==
  /\ kind[r] = "signup"
  /\ EmailFree(arg[r]) /\ ~Taken(arg[r])
  /\ Goto(r, "begun", "inserted")
  /\ uid' = [uid EXCEPT ![r] = r]
  /\ UNCHANGED <<tables, mailed, handler, sees>>

\* AlreadyExistsError: signup goes on as resend_activation_token.
EmailTaken(r) ==
  /\ kind[r] = "signup"
  /\ EmailFree(arg[r]) /\ Taken(arg[r])
  /\ pc[r] = "begun"
  /\ kind' = [kind EXCEPT ![r] = "resend"]
  /\ UNCHANGED <<tables, mailed, pc, arg, uid, sees, older>>

\* get_by_email.
FindUser(r) ==
  /\ kind[r] \in {"resend", "reset"}
  /\ Goto(r, "begun", "found")
  /\ \E u \in Requests :
       /\ user[u].email = arg[r]
       /\ kind[r] = "resend" => ~user[u].active
       /\ uid'   = [uid EXCEPT ![r] = u]
       /\ older' = [older EXCEPT ![r] = OfUser(u, r)]
  /\ UNCHANGED <<tables, mailed, kind, arg, sees>>

\* No such user, or an active one asks for an activation token.
RefuseEmail(r) ==
  /\ kind[r] \in {"resend", "reset"}
  /\ \A u \in Requests : user[u].email = arg[r] => kind[r] = "resend" /\ user[u].active
  /\ pc[r] = "begun"
  /\ GiveUp(r, "refused")

\* new_token, save and the commit; an INSERT before its commit is seen by nobody, and
\* no UPDATE waits for the lock it takes on its user's row.
CommitToken(r) ==
  /\ \/ kind[r] = "signup" /\ Goto(r, "inserted", "committed")
     \/ kind[r] = "resend" /\ KeyFree(uid[r]) /\ Goto(r, "deleted", "committed")
     \/ kind[r] = "reset"  /\ KeyFree(uid[r]) /\ Goto(r, "found", "committed")
  /\ user' = IF kind[r] = "signup"
             THEN [user EXCEPT ![r] = [email |-> arg[r], active |-> FALSE, password |-> r]]
             ELSE user
  /\ tokens' = (tokens \ sees[r]) \cup {r}
  /\ UNCHANGED <<mailed, handler, uid, sees>>

\* Mutant: the recipient instead of the link.
MailRecipient(r) ==
  /\ Goto(r, "committed", "done")
  /\ mailed' = mailed \cup {arg[r]}
  /\ UNCHANGED <<tables, handler, uid, sees>>

\* The template, then the mail in a task of its own; either may fail unnoticed.
Mail(r) ==
  /\ Goto(r, "committed", "done")
  /\ mailed' \in {mailed, mailed \cup {r}}
  /\ UNCHANGED <<tables, handler, uid, sees>>

-----------------------------------------------------------------------------
\* Using a token.

\* Mutant: the scope is not looked at.
FindAnyToken(r) ==
  /\ kind[r] \in Using
  /\ arg[r] \in tokens
  /\ Goto(r, "begun", "found")
  /\ uid'   = [uid EXCEPT ![r] = uid[arg[r]]]
  /\ older' = [older EXCEPT ![r] = OfUser(uid[arg[r]], r)]
  /\ UNCHANGED <<tables, mailed, kind, arg, sees>>

\* tokens_repo.get_by_hash, which does not look at the expiry.
FindToken(r) ==
  /\ kind[r] \in Using
  /\ arg[r] \in tokens /\ Scope(arg[r]) = Scope(r)
  /\ Goto(r, "begun", "found")
  /\ uid'   = [uid EXCEPT ![r] = uid[arg[r]]]
  /\ older' = [older EXCEPT ![r] = OfUser(uid[arg[r]], r)]
  /\ UNCHANGED <<tables, mailed, kind, arg, sees>>

\* NotFoundError, answered as InvalidTokenError.
RefuseToken(r) ==
  /\ kind[r] \in Using
  /\ ~ (arg[r] \in tokens /\ Scope(arg[r]) = Scope(r))
  /\ pc[r] = "begun"
  /\ GiveUp(r, "refused")

\* mark_as_active, set_new_password.
UpdateUser(r) ==
  /\ kind[r] \in Using
  /\ UserFree(uid[r])
  /\ Goto(r, "found", "updated")
  /\ UNCHANGED <<tables, mailed, handler, uid, sees>>

CommitUse(r) ==
  /\ kind[r] \in Using
  /\ Goto(r, "deleted", "done")
  /\ user' = IF kind[r] = "activate" THEN [user EXCEPT ![uid[r]].active = TRUE]
                                     ELSE [user EXCEPT ![uid[r]].password = r]
  /\ tokens' = tokens \ sees[r]
  /\ UNCHANGED <<mailed, handler, uid, sees>>

-----------------------------------------------------------------------------
\* Changing the name.

\* update_by_id.  With nothing but an e-mail or a photo it has no column to update, and the
\* request fails with DatabaseError: see Fail.
UpdateName(r) ==
  /\ kind[r] = "change"
  /\ UserFree(uid[r])
  /\ Goto(r, "begun", "updated")
  /\ UNCHANGED <<tables, mailed, handler, uid, sees>>

\* When there is an e-mail too, the request fails after this commit: email_verification is
\* no method of EmailTemplates.  Nothing is mailed, so that nobody can have a token that
\* update_email_confirm accepts, and no e-mail ever changes.
CommitName(r) ==
  /\ kind[r] = "change"
  /\ Goto(r, "updated", "done")
  /\ UNCHANGED <<tables, mailed, handler, uid, sees>>

-----------------------------------------------------------------------------
\* delete_all_for_user.

\* Mutant: only the token that was presented.
DeletePresented(r) ==
  /\ kind[r] \in Replacing
  /\ Goto(r, IF kind[r] = "resend" THEN "found" ELSE "updated", "deleting")
  /\ sees' = [sees EXCEPT ![r] = tokens \cap {arg[r]}]
  /\ UNCHANGED <<tables, mailed, handler, uid>>

\* Mutant: of every scope.
DeleteEveryScope(r) ==
  /\ kind[r] \in Replacing
  /\ Goto(r, IF kind[r] = "resend" THEN "found" ELSE "updated", "deleting")
  /\ sees' = [sees EXCEPT ![r] = {t \in tokens : uid[t] = uid[r]}]
  /\ UNCHANGED <<tables, mailed, handler, uid>>

PickTokens(r) ==
  /\ kind[r] \in Replacing
  /\ Goto(r, IF kind[r] = "resend" THEN "found" ELSE "updated", "deleting")
  /\ sees' = [sees EXCEPT ![r] = OfUser(uid[r], r)]
  /\ UNCHANGED <<tables, mailed, handler, uid>>

DeleteTokens(r) ==
  /\ \A q \in Requests : ~HoldsPicked(q, r)
  /\ Goto(r, "deleting", "deleted")
  /\ UNCHANGED <<tables, mailed, handler, uid, sees>>

-----------------------------------------------------------------------------
\* An exception in the unit of work, or the death of the process: nothing is written.
Fail(r) ==
  /\ pc[r] \in Running \ {"committed"}
  /\ GiveUp(r, "failed")

Step(r) ==
  \/ InsertUser(r) \/ EmailTaken(r)  \/ FindUser(r)   \/ RefuseEmail(r)
  \/ CommitToken(r) \/ Mail(r)
  \/ FindToken(r)  \/ RefuseToken(r) \/ UpdateUser(r) \/ CommitUse(r)
  \/ PickTokens(r) \/ DeleteTokens(r)
  \/ UpdateName(r) \/ CommitName(r)

Next ==
  \E r \in Requests :
    \/ AskForToken(r) \/ PresentToken(r) \/ AskToChange(r)
    \/ Step(r) \/ Fail(r)

Spec == Init /\ [][Next]_vars

-----------------------------------------------------------------------------
\* Properties.

\* signup creates the token "inside transaction to avoid user creating in case of
\* error", and resending replaces tokens in one: whatever fails, a user who cannot sign
\* in yet has an activation token in the table.
InactiveHasToken == \A u \in Requests :
  InTable(u) /\ ~user[u].active =>
    \E t \in tokens : uid[t] = u /\ Scope(t) = "activation"

\* Whoever has used a token, or had a new one sent, can rely on it that what was mailed
\* before works no more, however many other requests were deleting the same rows and
\* whichever of them failed.
OldTokensAreDead == \A r \in Requests :
  Committed(r) /\ kind[r] \in Replacing => older[r] \cap tokens = {}

\* And nothing else takes a token away: a token that was committed and is gone had the
\* scope and the user of a committed request that replaces or uses tokens.
TokensDieForAReason == \A t \in Requests :
  Committed(t) /\ kind[t] \in Issuing /\ t \notin tokens =>
    \E r \in Requests \ {t} : /\ Committed(r)
                              /\ kind[r] \in Replacing
                              /\ uid[r] = uid[t]
                              /\ Scope(r) = Scope(t)

\* A user is activated, and a password replaced, only by a request with a token of that
\* user that was mailed for this purpose.
Authorised(u, scope) == \E r \in Requests :
  /\ pc[r] # "done" /\ pc'[r] = "done"
  /\ arg[r] \in mailed /\ uid[arg[r]] = u /\ Scope(arg[r]) = scope

OwnTokenOnly == [][\A u \in Requests : InTable(u) =>
  /\ user'[u].active   # user[u].active   => Authorised(u, "activation")
  /\ user'[u].password # user[u].password => Authorised(u, "password-reset")]_vars

\* q holds what the next statement of r, or the INSERT or DELETE it is in, needs.
WaitsFor(r, q) ==
  \/ /\ \/ pc[r] = "found" /\ kind[r] \in Using
        \/ pc[r] = "begun" /\ kind[r] = "change"
     /\ uid[q] = uid[r] /\ HoldsUser(q)
  \/ pc[r] = "begun" /\ kind[r] = "signup" /\ HoldsEmail(q, arg[r])
  \/ pc[r] = "deleting" /\ HoldsPicked(q, r)
  \/ /\ \/ pc[r] = "deleted" /\ kind[r] = "resend"
        \/ pc[r] = "found" /\ kind[r] = "reset"
     /\ uid[q] = uid[r] /\ HoldsKey(q)

\* Activation takes the user's row and then the tokens, resending takes the tokens and then
\* saves one that refers to the row.  Yet units of work never wait in a circle, so that
\* PostgreSQL has none to break: of any that wait, one waits only for others.
NoCircleOfWaits ==
  LET Waiting == {r \in Requests : \E q \in Requests : WaitsFor(r, q)} IN
    \A S \in SUBSET Waiting : S # {} => \E r \in S : \A q \in S : ~WaitsFor(r, q)
=============================================================================
