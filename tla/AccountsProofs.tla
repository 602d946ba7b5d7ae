--------------------------- MODULE AccountsProofs ---------------------------
(***************************************************************************)
(* The safety of accounts and their tokens, for any number of requests and *)
(* addresses.                                                              *)
(***************************************************************************)
EXTENDS Accounts, TLAPS

\* Token t was committed, for the user request r is about and the scope r works on.
Fits(t, r) == Committed(t) /\ kind[t] \in Issuing /\ uid[t] = uid[r] /\ Scope(t) = Scope(r)

\* Kinds that pass through a stage.
StageFitsKind == \A r \in Requests :
  /\ pc[r] = "inserted"              => kind[r] = "signup" /\ uid[r] = r
  /\ pc[r] = "found"                 => kind[r] \in {"resend", "reset"} \cup Using
  /\ pc[r] = "updated"               => kind[r] \in Using \cup {"change"}
  /\ pc[r] \in {"deleting", "deleted"} => kind[r] \in Replacing
  /\ pc[r] = "committed"             => kind[r] \in Issuing
  /\ pc[r] = "done"                  => kind[r] \in Issuing \cup Using \cup {"change"}
  /\ kind[r] \in Issuing             => arg[r] \in Emails
  /\ kind[r] = "change"              => uid[r] \in Requests
  /\ pc[r] \in (Running \cup {"done"}) \ {"begun"} => uid[r] \in Requests

\* Only committed rows are in the tables, only committed tokens in the mail.
IssuedOnly ==
  /\ \A t \in tokens : Committed(t) /\ kind[t] \in Issuing
  /\ \A t \in mailed : Committed(t) /\ kind[t] \in Issuing
  /\ \A u \in Requests : InTable(u) => Committed(u)

\* A DELETE picks tokens of its user and scope, and first of all the older ones.
NothingPicked == \A r \in Requests :
  /\ pc[r] \in {"idle", "begun", "inserted", "found", "updated"} => sees[r] = {}
  /\ pc[r] \in {"idle", "begun", "inserted"} => older[r] = {}
PicksFit      == \A r \in Requests : \A t \in sees[r] \cup older[r] : Fits(t, r)
OlderIsPicked == \A r \in Requests :
  pc[r] \in {"deleting", "deleted"} => older[r] \cap tokens \subseteq sees[r]

\* A token is used as what it was mailed for.
PresentedFits == \A r \in Requests : kind[r] \in Using =>
  /\ arg[r] \in mailed
  /\ pc[r] # "begun" => Fits(arg[r], r)

IInv ==
  /\ TypeOK
  /\ StageFitsKind
  /\ IssuedOnly
  /\ NothingPicked
  /\ PicksFit
  /\ OlderIsPicked
  /\ PresentedFits
  /\ InactiveHasToken
  /\ OldTokensAreDead
  /\ TokensDieForAReason

\* A request arrives.
LEMMA BeginKeepsIInv ==
  ASSUME AccountsAssumption, IInv, NEW r \in Requests,
         AskForToken(r) \/ PresentToken(r) \/ AskToChange(r)
  PROVE  IInv'
  <1> USE DEF AskForToken, PresentToken, AskToChange, Begin, Goto, tables, handler, Committed, Running, Ended, Issuing, Using, Replacing
  <1>1. TypeOK'
    <2>1. CASE AskForToken(r)
      BY <2>1 DEF IInv, TypeOK
    <2>2. CASE PresentToken(r)
      BY <2>2 DEF IInv, TypeOK
    <2>3. CASE AskToChange(r)
      BY <2>3 DEF IInv, TypeOK
    <2>4. QED
      BY <2>1, <2>2, <2>3
  <1>2. StageFitsKind'
    BY DEF IInv, TypeOK, StageFitsKind
  <1>3. IssuedOnly'
    <2>1. UNCHANGED <<user, tokens, mailed>>
          /\ \A t \in Requests : Committed(t) => Committed(t)' /\ kind'[t] = kind[t]
      BY DEF IInv, TypeOK
    <2>2. QED
      BY <2>1 DEF IInv, TypeOK, IssuedOnly, InTable
  <1>4. NothingPicked'
    BY DEF IInv, TypeOK, NothingPicked
  <1>5. PicksFit'
    BY DEF IInv, TypeOK, PicksFit, NothingPicked, IssuedOnly, InTable, StageFitsKind, Fits, Scope, OfUser
  <1>6. OlderIsPicked'
    BY DEF IInv, TypeOK, OlderIsPicked, NothingPicked, OfUser, Fits, PicksFit
  <1>7. PresentedFits'
    <2>1. kind'[r] \in Using => arg'[r] \in mailed' /\ pc'[r] = "begun"
      BY DEF IInv, TypeOK
    <2>2. ASSUME NEW q \in Requests, q # r, kind'[q] \in Using
          PROVE  arg'[q] \in mailed' /\ (pc'[q] # "begun" => Fits(arg[q], q)')
      <3>1. arg[q] \in mailed /\ (pc[q] # "begun" => Fits(arg[q], q))
        BY <2>2 DEF IInv, TypeOK, PresentedFits
      <3>2. Committed(arg[q]) /\ arg[q] \in Requests
        BY <3>1 DEF IInv, TypeOK, IssuedOnly, InTable
      <3>3. QED
        BY <2>2, <3>1, <3>2 DEF IInv, TypeOK, Fits, Scope
    <2>3. \A q \in Requests : q # r => arg'[q] = arg[q]
      BY DEF IInv, TypeOK
    <2>4. QED
      BY <2>1, <2>2, <2>3 DEF PresentedFits
  <1>8. InactiveHasToken'
    <2>1. UNCHANGED <<user, tokens>> /\ \A t \in Requests : Committed(t) => kind'[t] = kind[t] /\ uid'[t] = uid[t]
      BY DEF IInv, TypeOK
    <2>2. \A t \in tokens : kind'[t] = kind[t] /\ uid'[t] = uid[t]
      BY <2>1 DEF IInv, TypeOK, IssuedOnly
    <2>3. QED
      BY <2>1, <2>2 DEF IInv, InactiveHasToken, InTable, Scope
  <1>9. OldTokensAreDead'
    BY DEF IInv, TypeOK, OldTokensAreDead, StageFitsKind
  <1>10. TokensDieForAReason'
    BY DEF IInv, TypeOK, TokensDieForAReason, StageFitsKind, Scope
  <1>11. QED
    BY <1>1, <1>2, <1>3, <1>4, <1>5, <1>6, <1>7, <1>8, <1>9, <1>10 DEF IInv

\* A request is refused or fails.
LEMMA GiveUpKeepsIInv ==
  ASSUME AccountsAssumption, IInv, NEW r \in Requests, RefuseEmail(r) \/ RefuseToken(r) \/ Fail(r)
  PROVE  IInv'
  <1> USE DEF RefuseEmail, RefuseToken, Fail, GiveUp, Goto, tables, handler, Committed, Running, Ended, Issuing, Using, Replacing
  <1>1. TypeOK'
    <2>1. GiveUp(r, "refused") \/ GiveUp(r, "failed")
      OBVIOUS
    <2>2. CASE GiveUp(r, "refused")
      BY <2>2 DEF IInv, TypeOK
    <2>3. CASE GiveUp(r, "failed")
      BY <2>3 DEF IInv, TypeOK
    <2>4. QED
      BY <2>1, <2>2, <2>3
  <1>2. StageFitsKind'
    BY DEF IInv, TypeOK, StageFitsKind
  <1>3. IssuedOnly'
    <2>1. UNCHANGED <<user, tokens, mailed>>
          /\ \A t \in Requests : Committed(t) => Committed(t)' /\ kind'[t] = kind[t]
      BY DEF IInv, TypeOK
    <2>2. QED
      BY <2>1 DEF IInv, TypeOK, IssuedOnly, InTable
  <1>4. NothingPicked'
    BY DEF IInv, TypeOK, NothingPicked
  <1>5. PicksFit'
    <2>1. /\ UNCHANGED tokens
          /\ \A t \in Requests : Committed(t) => kind'[t] = kind[t] /\ uid'[t] = uid[t]
      BY DEF IInv, TypeOK
    <2>2. sees'[r] = {} /\ older'[r] = {}
      BY DEF IInv, TypeOK
    <2>3. \A q \in Requests : q # r =>
            /\ sees'[q] = sees[q] /\ older'[q] = older[q] /\ pc'[q] = pc[q]
            /\ kind'[q] = kind[q] /\ uid'[q] = uid[q]
      BY DEF IInv, TypeOK
    <2>4. ASSUME NEW q \in Requests, q # r, NEW t \in sees[q] \cup older[q]
          PROVE  Fits(t, q)'
      <3>1. Fits(t, q) /\ t \in Requests
        BY <2>4 DEF IInv, TypeOK, PicksFit
      <3>2. pc'[t] = pc[t]
        BY <3>1, <2>3 DEF IInv, TypeOK, Fits
      <3>3. QED
        BY <2>1, <2>3, <2>4, <3>1, <3>2 DEF Fits, Scope
    <2>5. QED
      BY <2>2, <2>3, <2>4 DEF PicksFit
  <1>6. OlderIsPicked'
    BY DEF IInv, TypeOK, OlderIsPicked, NothingPicked, OfUser, Fits, PicksFit
  <1>7. PresentedFits'
    BY DEF IInv, TypeOK, PresentedFits, IssuedOnly, InTable, StageFitsKind, Fits, Scope
  <1>8. InactiveHasToken'
    <2>1. UNCHANGED <<user, tokens>> /\ \A t \in Requests : Committed(t) => kind'[t] = kind[t] /\ uid'[t] = uid[t]
      BY DEF IInv, TypeOK
    <2>2. \A t \in tokens : kind'[t] = kind[t] /\ uid'[t] = uid[t]
      BY <2>1 DEF IInv, TypeOK, IssuedOnly
    <2>3. QED
      BY <2>1, <2>2 DEF IInv, InactiveHasToken, InTable, Scope
  <1>9. OldTokensAreDead'
    BY DEF IInv, TypeOK, OldTokensAreDead, StageFitsKind
  <1>10. TokensDieForAReason'
    BY DEF IInv, TypeOK, TokensDieForAReason, StageFitsKind, Scope
  <1>11. QED
    BY <1>1, <1>2, <1>3, <1>4, <1>5, <1>6, <1>7, <1>8, <1>9, <1>10 DEF IInv

\* Steps before the DELETE and steps outside a unit of work.
LEMMA ReadingKeepsIInv ==
  ASSUME AccountsAssumption, IInv, NEW r \in Requests,
         InsertUser(r) \/ EmailTaken(r) \/ UpdateUser(r) \/ UpdateName(r) \/ CommitName(r)
           \/ Mail(r)
  PROVE  IInv'
  <1> USE DEF InsertUser, EmailTaken, UpdateUser, UpdateName, CommitName, Mail, Goto, tables, handler, Committed, Running, Ended, Issuing, Using, Replacing
  <1>1. TypeOK'
    BY DEF IInv, TypeOK, Absent
  <1>2. StageFitsKind'
    <2>1. CASE InsertUser(r)
      BY <2>1 DEF IInv, TypeOK, StageFitsKind
    <2>2. CASE EmailTaken(r)
      BY <2>2 DEF IInv, TypeOK, StageFitsKind
    <2>3. CASE UpdateUser(r) \/ Mail(r)
      BY <2>3 DEF IInv, TypeOK, StageFitsKind
    <2>4. CASE UpdateName(r) \/ CommitName(r)
      BY <2>4 DEF IInv, TypeOK, StageFitsKind
    <2>5. QED
      BY <2>1, <2>2, <2>3, <2>4
  <1>3. IssuedOnly'
    <2>1. UNCHANGED <<user, tokens>>
      OBVIOUS
    <2>2. \A t \in Requests : Committed(t) => Committed(t)' /\ kind'[t] = kind[t]
      BY DEF IInv, TypeOK, StageFitsKind
    <2>3. \/ mailed' = mailed
          \/ Mail(r) /\ mailed' \subseteq mailed \cup {r}
      OBVIOUS
    <2>4. Mail(r) => Committed(r) /\ kind[r] \in Issuing
      BY DEF IInv, StageFitsKind
    <2>5. QED
      BY <2>1, <2>2, <2>3, <2>4 DEF IInv, TypeOK, IssuedOnly, InTable
  <1>4. NothingPicked'
    BY DEF IInv, TypeOK, NothingPicked
  <1>5. PicksFit'
    BY DEF IInv, TypeOK, PicksFit, NothingPicked, IssuedOnly, InTable, StageFitsKind, Fits, Scope, OfUser
  <1>6. OlderIsPicked'
    <2>1. UNCHANGED <<sees, older, tokens>>
      OBVIOUS
    <2>2. \A q \in Requests : pc'[q] \in {"deleting", "deleted"} => pc[q] = pc'[q]
      BY DEF IInv, TypeOK
    <2>3. QED
      BY <2>1, <2>2 DEF IInv, OlderIsPicked
  <1>7. PresentedFits'
    BY DEF IInv, TypeOK, PresentedFits, IssuedOnly, InTable, StageFitsKind, Fits, Scope
  <1>8. InactiveHasToken'
    BY DEF IInv, TypeOK, InactiveHasToken, InTable, IssuedOnly, Scope
  <1>9. OldTokensAreDead'
    BY DEF IInv, TypeOK, OldTokensAreDead, StageFitsKind
  <1>10. TokensDieForAReason'
    BY DEF IInv, TypeOK, TokensDieForAReason, StageFitsKind, Scope
  <1>11. QED
    BY <1>1, <1>2, <1>3, <1>4, <1>5, <1>6, <1>7, <1>8, <1>9, <1>10 DEF IInv

\* The user and the older tokens are read.
LEMMA FindingKeepsIInv ==
  ASSUME AccountsAssumption, IInv, NEW r \in Requests, FindUser(r) \/ FindToken(r)
  PROVE  IInv'
  <1> USE DEF Goto, Committed, Running, Ended, Issuing, Using, Replacing
  <1>1. PICK u \in Requests : /\ uid'   = [uid EXCEPT ![r] = u]
                             /\ older' = [older EXCEPT ![r] = OfUser(u, r)]
    <2>1. CASE FindUser(r)
      BY <2>1 DEF FindUser
    <2>2. CASE FindToken(r)
      <3>1. uid[arg[r]] \in Requests
        BY <2>2 DEF FindToken, IInv, TypeOK, IssuedOnly, InTable, StageFitsKind
      <3>2. QED
        BY <2>2, <3>1 DEF FindToken
    <2>3. QED
      BY <2>1, <2>2
  <1>2. /\ pc[r] = "begun" /\ pc' = [pc EXCEPT ![r] = "found"]
        /\ UNCHANGED <<user, tokens, mailed, kind, arg, sees>>
        /\ kind[r] \in {"resend", "reset"} \cup Using
    BY DEF FindUser, FindToken, tables
  <1>3. kind[r] \in Using => /\ Committed(arg[r]) /\ kind[arg[r]] \in Issuing
                             /\ uid[arg[r]] = u /\ Scope(arg[r]) = Scope(r)
    BY <1>1, <1>2 DEF FindUser, FindToken, IInv, TypeOK, IssuedOnly, InTable
  <1>4. \A t \in Requests : Committed(t) => t # r /\ Committed(t)' /\ uid'[t] = uid[t]
    BY <1>1, <1>2 DEF IInv, TypeOK
  <1>5. TypeOK'
    <2>1. OfUser(u, r) \subseteq Requests
      BY DEF IInv, TypeOK, OfUser
    <2>2. QED
      BY <1>1, <1>2, <2>1 DEF IInv, TypeOK
  <1>6. StageFitsKind'
    BY <1>1, <1>2 DEF IInv, TypeOK, StageFitsKind
  <1>7. IssuedOnly'
    BY <1>2, <1>4 DEF IInv, TypeOK, IssuedOnly, InTable
  <1>8. NothingPicked'
    BY <1>1, <1>2 DEF IInv, TypeOK, NothingPicked
  <1>9. PicksFit'
    <2>1. \A t \in OfUser(u, r) : Fits(t, r)'
      BY <1>1, <1>2, <1>4 DEF IInv, TypeOK, IssuedOnly, InTable, OfUser, Fits, Scope
    <2>2. sees'[r] = {} /\ older'[r] = OfUser(u, r)
      BY <1>1, <1>2 DEF IInv, TypeOK, NothingPicked
    <2>3. ASSUME NEW q \in Requests, q # r, NEW t \in sees'[q] \cup older'[q]
          PROVE  Fits(t, q)'
      <3>1. t \in sees[q] \cup older[q] /\ t \in Requests
        BY <1>1, <1>2, <2>3 DEF IInv, TypeOK
      <3>2. Fits(t, q)
        BY <3>1 DEF IInv, PicksFit
      <3>3. QED
        BY <1>1, <1>2, <1>4, <2>3, <3>1, <3>2 DEF IInv, TypeOK, Fits, Scope
    <2>4. QED
      BY <2>1, <2>2, <2>3 DEF PicksFit
  <1>10. OlderIsPicked'
    BY <1>1, <1>2 DEF IInv, TypeOK, OlderIsPicked
  <1>11. PresentedFits'
    <2>1. kind[r] \in Using => Fits(arg[r], r)'
      BY <1>1, <1>2, <1>3, <1>4 DEF IInv, TypeOK, PresentedFits, IssuedOnly, InTable, Fits, Scope
    <2>2. ASSUME NEW q \in Requests, q # r, kind'[q] \in Using, pc'[q] # "begun"
          PROVE  Fits(arg[q], q)'
      <3>1. Fits(arg[q], q) /\ arg[q] \in Requests
        BY <1>2, <2>2 DEF IInv, TypeOK, PresentedFits
      <3>2. QED
        BY <1>1, <1>2, <1>4, <2>2, <3>1 DEF IInv, TypeOK, Fits, Scope
    <2>3. QED
      BY <1>2, <2>1, <2>2 DEF IInv, PresentedFits
  <1>12. InactiveHasToken'
    BY <1>1, <1>2, <1>4 DEF IInv, TypeOK, IssuedOnly, InTable, InactiveHasToken, Scope
  <1>13. OldTokensAreDead'
    BY <1>1, <1>2 DEF IInv, TypeOK, OldTokensAreDead
  <1>14. TokensDieForAReason'
    BY <1>1, <1>2, <1>4 DEF IInv, TypeOK, TokensDieForAReason, Scope
  <1>15. QED
    BY <1>5, <1>6, <1>7, <1>8, <1>9, <1>10, <1>11, <1>12, <1>13, <1>14 DEF IInv

\* The DELETE picks its rows and gets them.
LEMMA DeletingKeepsIInv ==
  ASSUME AccountsAssumption, IInv, NEW r \in Requests, PickTokens(r) \/ DeleteTokens(r)
  PROVE  IInv'
  <1> USE DEF PickTokens, DeleteTokens, Goto, tables, handler, Committed, Running, Ended, Issuing, Using, Replacing
  <1>1. TypeOK'
    <2>1. OfUser(uid[r], r) \subseteq Requests
      BY DEF IInv, TypeOK, OfUser
    <2>2. CASE PickTokens(r)
      BY <2>1, <2>2 DEF IInv, TypeOK
    <2>3. CASE DeleteTokens(r)
      BY <2>3 DEF IInv, TypeOK
    <2>4. QED
      BY <2>2, <2>3
  <1>2. StageFitsKind'
    BY DEF IInv, TypeOK, StageFitsKind
  <1>3. IssuedOnly'
    <2>1. UNCHANGED <<user, tokens, mailed, kind>> /\ \A t \in Requests : Committed(t) => Committed(t)'
      BY DEF IInv, TypeOK
    <2>2. QED
      BY <2>1 DEF IInv, TypeOK, IssuedOnly, InTable
  <1>4. NothingPicked'
    BY DEF IInv, TypeOK, NothingPicked
  <1>5. PicksFit'
    BY DEF IInv, TypeOK, PicksFit, NothingPicked, IssuedOnly, StageFitsKind, Fits, Scope, OfUser
  <1>6. OlderIsPicked'
    BY DEF IInv, TypeOK, OlderIsPicked, NothingPicked, OfUser, Fits, PicksFit
  <1>7. PresentedFits'
    BY DEF IInv, TypeOK, PresentedFits, IssuedOnly, InTable, StageFitsKind, Fits, Scope
  <1>8. InactiveHasToken'
    BY DEF IInv, TypeOK, InactiveHasToken, InTable, IssuedOnly, Scope
  <1>9. OldTokensAreDead'
    BY DEF IInv, TypeOK, OldTokensAreDead, StageFitsKind
  <1>10. TokensDieForAReason'
    BY DEF IInv, TypeOK, TokensDieForAReason, StageFitsKind, Scope
  <1>11. QED
    BY <1>1, <1>2, <1>3, <1>4, <1>5, <1>6, <1>7, <1>8, <1>9, <1>10 DEF IInv

\* A new token is committed.
LEMMA CommitTokenKeepsIInv ==
  ASSUME AccountsAssumption, IInv, NEW r \in Requests, CommitToken(r)
  PROVE  IInv'
  <1> USE DEF Goto, Committed, Running, Ended, Issuing, Using, Replacing
  <1>1. /\ pc[r] \in {"inserted", "deleted", "found"} /\ kind[r] \in Issuing
        /\ pc' = [pc EXCEPT ![r] = "committed"]
        /\ tokens' = (tokens \ sees[r]) \cup {r}
        /\ UNCHANGED <<mailed, kind, arg, uid, sees, older>>
        /\ arg[r] \in Emails \cup Requests \cup {None}
    BY DEF CommitToken, handler, IInv, TypeOK
  <1>2. /\ \A u \in Requests : (u = uid[r] /\ kind[r] = "signup") \/ user'[u] = user[u]
        /\ kind[r] = "signup" => uid[r] = r /\ sees[r] = {}
        /\ sees[r] # {} => kind[r] = "resend" /\ pc[r] = "deleted"
        /\ kind[r] = "resend" => pc[r] = "deleted"
        /\ uid[r] \in Requests
    BY DEF CommitToken, IInv, TypeOK, StageFitsKind, NothingPicked
  <1>3. \A t \in Requests : Committed(t) => t # r /\ Committed(t)'
    BY <1>1 DEF IInv, TypeOK
  <1>4. \A q, t \in Requests : Fits(t, q) => t # r /\ (Fits(t, q)')
    BY <1>1, <1>3 DEF Fits, Scope
  <1>5. TypeOK'
    <2>1. arg[r] \in Emails \/ kind[r] # "signup"
      BY <1>1 DEF IInv, StageFitsKind
    <2>2. user' \in [Requests -> [email : Emails \cup {None}, active : BOOLEAN,
                                  password : Requests \cup {None}]]
      BY <2>1 DEF CommitToken, IInv, TypeOK
    <2>3. QED
      BY <1>1, <2>2 DEF IInv, TypeOK
  <1>6. StageFitsKind'
    BY <1>1, <1>2 DEF IInv, TypeOK, StageFitsKind
  <1>7. IssuedOnly'
    <2>1. /\ \A t \in tokens' : Committed(t)' /\ kind'[t] \in Issuing
          /\ \A t \in mailed' : Committed(t)' /\ kind'[t] \in Issuing
      BY <1>1, <1>3 DEF IInv, TypeOK, IssuedOnly
    <2>2. ASSUME NEW u \in Requests, InTable(u)'
          PROVE  Committed(u)'
      <3>1. CASE user'[u] = user[u]
        BY <1>3, <2>2, <3>1 DEF IInv, IssuedOnly, InTable
      <3>2. CASE u = r
        BY <1>1, <3>2 DEF IInv, TypeOK
      <3>3. QED
        BY <1>2, <3>1, <3>2
    <2>3. QED
      BY <2>1, <2>2 DEF IssuedOnly
  <1>8. NothingPicked'
    BY <1>1 DEF IInv, TypeOK, NothingPicked
  <1>9. PicksFit'
    BY <1>1, <1>4 DEF IInv, TypeOK, PicksFit
  <1>10. OlderIsPicked'
    <2>1. ASSUME NEW q \in Requests, pc'[q] \in {"deleting", "deleted"}
          PROVE  older[q] \cap tokens' \subseteq sees[q]
      <3>1. r \notin older[q]
        BY <1>4 DEF IInv, PicksFit
      <3>2. QED
        BY <1>1, <2>1, <3>1 DEF IInv, TypeOK, OlderIsPicked
    <2>2. QED
      BY <1>1, <2>1 DEF OlderIsPicked
  <1>11. PresentedFits'
    BY <1>1, <1>4 DEF IInv, TypeOK, PresentedFits
  <1>12. InactiveHasToken'
    <2>1. SUFFICES ASSUME NEW u \in Requests, user'[u].email # None, ~user'[u].active
                   PROVE  \E t \in tokens' : uid[t] = u /\ Scope(t) = "activation"
      BY <1>1 DEF InactiveHasToken, InTable, Scope
    <2>2. CASE u = uid[r] /\ Scope(r) = "activation"
      BY <1>1, <2>2
    <2>3. CASE ~(u = uid[r] /\ Scope(r) = "activation")
      <3>1. user'[u] = user[u]
        BY <1>2, <2>3 DEF Scope
      <3>2. PICK t \in tokens : uid[t] = u /\ Scope(t) = "activation"
        BY <2>1, <3>1 DEF IInv, InactiveHasToken, InTable
      <3>3. t \notin sees[r]
        BY <2>3, <3>2 DEF IInv, PicksFit, Fits
      <3>4. QED
        BY <1>1, <3>2, <3>3
    <2>4. QED
      BY <2>2, <2>3
  <1>13. OldTokensAreDead'
    <2>1. ASSUME NEW q \in Requests, Committed(q)', kind[q] \in Replacing
          PROVE  older[q] \cap tokens' = {}
      <3>1. r \notin older[q]
        BY <1>4 DEF IInv, PicksFit
      <3>2. CASE q = r
        BY <1>1, <1>2, <2>1, <3>1, <3>2 DEF IInv, OlderIsPicked
      <3>3. CASE q # r
        BY <1>1, <2>1, <3>1, <3>3 DEF IInv, TypeOK, OldTokensAreDead
      <3>4. QED
        BY <3>2, <3>3
    <2>2. QED
      BY <1>1, <2>1 DEF OldTokensAreDead
  <1>14. TokensDieForAReason'
    <2>1. SUFFICES ASSUME NEW t \in Requests, Committed(t)', kind[t] \in Issuing, t \notin tokens'
                   PROVE  \E q \in Requests \ {t} : /\ Committed(q)'
                                                    /\ kind[q] \in Replacing
                                                    /\ uid[q] = uid[t]
                                                    /\ Scope(q) = Scope(t)
      BY <1>1 DEF TokensDieForAReason, Scope
    <2>2. t # r /\ Committed(t)
      BY <1>1, <2>1 DEF IInv, TypeOK
    <2>3. CASE t \notin tokens
      BY <1>3, <2>1, <2>2, <2>3 DEF IInv, TokensDieForAReason
    <2>4. CASE t \in tokens
      <3>1. t \in sees[r] /\ Fits(t, r)
        BY <1>1, <2>1, <2>2, <2>4 DEF IInv, PicksFit
      <3>2. QED
        BY <1>1, <1>2, <2>2, <3>1 DEF IInv, TypeOK, Fits
    <2>5. QED
      BY <2>3, <2>4
  <1>15. QED
    BY <1>5, <1>6, <1>7, <1>8, <1>9, <1>10, <1>11, <1>12, <1>13, <1>14 DEF IInv

\* The use of a token is committed.
LEMMA CommitUseKeepsIInv ==
  ASSUME AccountsAssumption, IInv, NEW r \in Requests, CommitUse(r)
  PROVE  IInv'
  <1> USE DEF Goto, Committed, Running, Ended, Issuing, Using, Replacing
  <1>1. /\ pc[r] = "deleted" /\ kind[r] \in Using
        /\ pc' = [pc EXCEPT ![r] = "done"]
        /\ tokens' = tokens \ sees[r]
        /\ UNCHANGED <<mailed, kind, arg, uid, sees, older>>
    BY DEF CommitUse, handler, IInv, TypeOK
  <1>2. /\ uid[r] \in Requests
        /\ \A u \in Requests :
             /\ user'[u].email = user[u].email
             /\ ~ (kind[r] = "activate" /\ u = uid[r]) => user'[u].active = user[u].active
        /\ kind[r] = "activate" => user'[uid[r]].active
    <2>1. uid[r] \in Requests /\ user \in [Requests -> [email : Emails \cup {None},
                                    active : BOOLEAN, password : Requests \cup {None}]]
      BY <1>1 DEF IInv, TypeOK, StageFitsKind
    <2>2. \A u \in Requests : u # uid[r] => user'[u] = user[u]
      BY <2>1 DEF CommitUse
    <2>3. user'[uid[r]].email = user[uid[r]].email
      BY <2>1 DEF CommitUse
    <2>4. kind[r] = "activate" => user'[uid[r]].active
      BY <2>1 DEF CommitUse
    <2>5. kind[r] # "activate" => user'[uid[r]].active = user[uid[r]].active
      BY <2>1 DEF CommitUse
    <2>6. \A u \in Requests : user'[u].email = user[u].email
      BY <2>2, <2>3
    <2>7. \A u \in Requests :
            ~ (kind[r] = "activate" /\ u = uid[r]) => user'[u].active = user[u].active
      BY <2>2, <2>5
    <2>8. QED
      BY <2>1, <2>4, <2>6, <2>7
  <1>3. \A t \in Requests : Committed(t) => t # r /\ Committed(t)'
    BY <1>1 DEF IInv, TypeOK
  <1>4. \A q, t \in Requests : Fits(t, q) => t # r /\ (Fits(t, q)')
    BY <1>1, <1>3 DEF Fits, Scope
  <1>5. TypeOK'
    <2>1. user' \in [Requests -> [email : Emails \cup {None}, active : BOOLEAN,
                                  password : Requests \cup {None}]]
      <3>1. CASE kind[r] = "activate"
        <4> DEFINE Rows == [email : Emails \cup {None}, active : BOOLEAN,
                            password : Requests \cup {None}]
        <4>1. user \in [Requests -> Rows]
          BY DEF IInv, TypeOK
        <4>2. [user[uid[r]] EXCEPT !.active = TRUE] \in Rows
          BY <1>2, <4>1
        <4>3. user' = [user EXCEPT ![uid[r]] = [user[uid[r]] EXCEPT !.active = TRUE]]
          BY <3>1 DEF CommitUse
        <4>4. QED
          BY <1>2, <4>1, <4>2, <4>3
      <3>2. CASE kind[r] # "activate"
        BY <1>2, <3>2 DEF CommitUse, IInv, TypeOK
      <3>3. QED
        BY <3>1, <3>2
    <2>2. QED
      BY <1>1, <2>1 DEF IInv, TypeOK
  <1>6. StageFitsKind'
    BY <1>1, <1>2 DEF IInv, TypeOK, StageFitsKind
  <1>7. IssuedOnly'
    <2>1. /\ \A t \in tokens' : Committed(t)' /\ kind'[t] \in Issuing
          /\ \A t \in mailed' : Committed(t)' /\ kind'[t] \in Issuing
      BY <1>1, <1>3 DEF IInv, TypeOK, IssuedOnly
    <2>2. \A u \in Requests : InTable(u)' => Committed(u)'
      BY <1>2, <1>3 DEF IInv, IssuedOnly, InTable
    <2>3. QED
      BY <2>1, <2>2 DEF IssuedOnly
  <1>8. NothingPicked'
    BY <1>1 DEF IInv, TypeOK, NothingPicked
  <1>9. PicksFit'
    BY <1>1, <1>4 DEF IInv, TypeOK, PicksFit
  <1>10. OlderIsPicked'
    <2>1. ASSUME NEW q \in Requests, pc'[q] \in {"deleting", "deleted"}
          PROVE  older[q] \cap tokens' \subseteq sees[q]
      <3>1. r \notin older[q]
        BY <1>4 DEF IInv, PicksFit
      <3>2. QED
        BY <1>1, <2>1, <3>1 DEF IInv, TypeOK, OlderIsPicked
    <2>2. QED
      BY <1>1, <2>1 DEF OlderIsPicked
  <1>11. PresentedFits'
    BY <1>1, <1>4 DEF IInv, TypeOK, PresentedFits
  <1>12. InactiveHasToken'
    <2>1. SUFFICES ASSUME NEW u \in Requests, user'[u].email # None, ~user'[u].active
                   PROVE  \E t \in tokens' : uid[t] = u /\ Scope(t) = "activation"
      BY <1>1 DEF InactiveHasToken, InTable, Scope
    <2>2. ~(u = uid[r] /\ Scope(r) = "activation")
      BY <1>1, <1>2, <2>1 DEF Scope
    <2>3. PICK t \in tokens : uid[t] = u /\ Scope(t) = "activation"
      <3>1. InTable(u) /\ ~user[u].active
        BY <1>2, <2>1 DEF InTable
      <3>2. QED
        BY <3>1 DEF IInv, InactiveHasToken
    <2>4. t \notin sees[r]
      BY <2>2, <2>3 DEF IInv, PicksFit, Fits
    <2>5. QED
      BY <1>1, <2>3, <2>4
  <1>13. OldTokensAreDead'
    <2>1. ASSUME NEW q \in Requests, Committed(q)', kind[q] \in Replacing
          PROVE  older[q] \cap tokens' = {}
      <3>1. r \notin older[q]
        BY <1>4 DEF IInv, PicksFit
      <3>2. CASE q = r
        BY <1>1, <1>2, <2>1, <3>1, <3>2 DEF IInv, OlderIsPicked
      <3>3. CASE q # r
        BY <1>1, <2>1, <3>1, <3>3 DEF IInv, TypeOK, OldTokensAreDead
      <3>4. QED
        BY <3>2, <3>3
    <2>2. QED
      BY <1>1, <2>1 DEF OldTokensAreDead
  <1>14. TokensDieForAReason'
    <2>1. SUFFICES ASSUME NEW t \in Requests, Committed(t)', kind[t] \in Issuing, t \notin tokens'
                   PROVE  \E q \in Requests \ {t} : /\ Committed(q)'
                                                    /\ kind[q] \in Replacing
                                                    /\ uid[q] = uid[t]
                                                    /\ Scope(q) = Scope(t)
      BY <1>1 DEF TokensDieForAReason, Scope
    <2>2. t # r /\ Committed(t)
      BY <1>1, <2>1 DEF IInv, TypeOK
    <2>3. CASE t \notin tokens
      BY <1>3, <2>1, <2>2, <2>3 DEF IInv, TokensDieForAReason
    <2>4. CASE t \in tokens
      <3>1. t \in sees[r] /\ Fits(t, r)
        BY <1>1, <2>1, <2>2, <2>4 DEF IInv, PicksFit
      <3>2. QED
        BY <1>1, <1>2, <2>2, <3>1 DEF IInv, TypeOK, Fits
    <2>5. QED
      BY <2>3, <2>4
  <1>15. QED
    BY <1>5, <1>6, <1>7, <1>8, <1>9, <1>10, <1>11, <1>12, <1>13, <1>14 DEF IInv

LEMMA InitIInv ==
  ASSUME AccountsAssumption, Init
  PROVE  IInv
  BY DEF Init, IInv, TypeOK, StageFitsKind, IssuedOnly, InTable, NothingPicked, PicksFit, OlderIsPicked,
         PresentedFits, InactiveHasToken, OldTokensAreDead, TokensDieForAReason, Absent,
         Committed, Running, Ended, Issuing, Using, Replacing

LEMMA NextIInv ==
  ASSUME AccountsAssumption, IInv, [Next]_vars
  PROVE  IInv'
  <1>1. CASE UNCHANGED vars
    BY <1>1 DEF vars, IInv, TypeOK, StageFitsKind, IssuedOnly, InTable, NothingPicked, PicksFit,
                OlderIsPicked, PresentedFits, InactiveHasToken, OldTokensAreDead,
                TokensDieForAReason, InTable, Committed, Fits, Scope
  <1>2. ASSUME NEW r \in Requests, AskForToken(r) \/ PresentToken(r) \/ AskToChange(r)
                                   \/ Step(r) \/ Fail(r)
        PROVE  IInv'
    BY <1>2, BeginKeepsIInv, GiveUpKeepsIInv, ReadingKeepsIInv, FindingKeepsIInv,
       DeletingKeepsIInv, CommitTokenKeepsIInv, CommitUseKeepsIInv DEF Step
  <1>3. QED
    BY <1>1, <1>2 DEF Next

LEMMA Invariance == Spec => []IInv
  <1>1. Init => IInv
    BY AccountsAssumption, InitIInv
  <1>2. IInv /\ [Next]_vars => IInv'
    BY AccountsAssumption, NextIInv
  <1>3. QED
    BY <1>1, <1>2, PTL DEF Spec

\* Every state of UsersService is well typed: a row has an e-mail of the clients', and every
\* reference to a user or a token is the id of a request.
THEOREM AccountsTypeOK == Spec => []TypeOK
  BY Invariance, PTL DEF IInv

\* A user who is not active has an activation token: signup and resend_activation_token
\* write both or neither.
THEOREM InactiveUsersHaveTokens == Spec => []InactiveHasToken
  BY Invariance, PTL DEF IInv

\* Tokens mailed before a committed use or resending are gone, for any number of
\* overlapping deletions.
THEOREM ReplacedTokensAreDead == Spec => []OldTokensAreDead
  BY Invariance, PTL DEF IInv

\* No token goes but by a request about its user and scope.
THEOREM TokensAreKept == Spec => []TokensDieForAReason
  BY Invariance, PTL DEF IInv

\* Only a token of the user, mailed for the purpose, activates or changes a password.
THEOREM OnlyOwnTokens == Spec => OwnTokenOnly
  <1> DEFINE Allowed == \A u \in Requests : InTable(u) =>
               /\ user'[u].active   # user[u].active   => Authorised(u, "activation")
               /\ user'[u].password # user[u].password => Authorised(u, "password-reset")
  <1>1. IInv /\ [Next]_vars => [Allowed]_vars
    <2>1. SUFFICES ASSUME IInv, [Next]_vars, NEW u \in Requests, InTable(u), user'[u] # user[u]
                   PROVE  /\ user'[u].active   # user[u].active   => Authorised(u, "activation")
                          /\ user'[u].password # user[u].password => Authorised(u, "password-reset")
      OBVIOUS
    <2>2. CASE \E r \in Requests : CommitUse(r)
      <3>1. PICK r \in Requests : CommitUse(r)
        BY <2>2
      <3>2. /\ kind[r] \in Using /\ pc[r] = "deleted" /\ pc'[r] = "done"
            /\ UNCHANGED <<mailed, uid, kind>>
            /\ \A v \in Requests : v # uid[r] => user'[v] = user[v]
            /\ user'[u].active # user[u].active => kind[r] = "activate"
            /\ user'[u].password # user[u].password => kind[r] = "password"
        <4>1. uid[r] \in Requests /\ user \in [Requests -> [email : Emails \cup {None},
                                        active : BOOLEAN, password : Requests \cup {None}]]
          BY <2>1, <3>1 DEF CommitUse, Goto, IInv, TypeOK, StageFitsKind, Replacing, Running
        <4>2. CASE kind[r] = "activate"
          BY <2>1, <3>1, <4>1, <4>2 DEF CommitUse, Goto, handler, IInv, TypeOK, Using
        <4>3. CASE kind[r] # "activate"
          BY <2>1, <3>1, <4>1, <4>3 DEF CommitUse, Goto, handler, IInv, TypeOK, Using
        <4>4. QED
          BY <4>2, <4>3
      <3>3. u = uid[r]
        BY <2>1, <3>2
      <3>4. arg[r] \in mailed /\ Fits(arg[r], r)
        BY <2>1, <3>2 DEF IInv, PresentedFits
      <3>5. QED
        BY <3>2, <3>3, <3>4 DEF Authorised, Fits, Scope
    <2>3. CASE \E r \in Requests : CommitToken(r)
      <3>1. PICK r \in Requests : CommitToken(r)
        BY <2>3
      <3>2. QED
        <4>1. kind[r] = "signup" => ~Committed(r)
          BY <3>1 DEF CommitToken, Goto, Committed
        <4>2. kind[r] = "signup" /\ u = r
          BY <2>1, <3>1 DEF CommitToken, IInv, TypeOK
        <4>3. QED
          BY <2>1, <4>1, <4>2 DEF IInv, IssuedOnly, InTable
    <2>4. QED
      BY <2>1, <2>2, <2>3
      DEF Next, Step, AskForToken, PresentToken, Begin, Fail, GiveUp, InsertUser, EmailTaken,
          AskToChange, UpdateName, CommitName,
          FindUser, RefuseEmail, Mail, FindToken, RefuseToken, UpdateUser, PickTokens,
          DeleteTokens, tables, vars
  <1>2. QED
    BY <1>1, Invariance, PTL DEF Spec, OwnTokenOnly

-----------------------------------------------------------------------------
(***************************************************************************)
(* Waiting.  Who is waited for is always further than who waits.           *)
(***************************************************************************)

Level(r) == IF pc[r] \in {"idle", "begun", "found"} THEN 0
            ELSE IF pc[r] = "deleting" THEN 1
            ELSE 2

\* No UPDATE of a user's row sets a column that tokens could refer to: saving one never waits.
LEMMA NoKeyIsWritten ==
  ASSUME NEW r \in Requests
  PROVE  ~HoldsKey(r)
  BY DEF HoldsKey, Sets, Keys

LEMMA WaitsUpwards ==
  ASSUME NEW r \in Requests, NEW q \in Requests, WaitsFor(r, q)
  PROVE  Level(r) < Level(q)
  <1>1. HoldsUser(q) => Level(q) > 0
    BY DEF HoldsUser, Level
  <1>2. \A e : HoldsEmail(q, e) => Level(q) > 0
    BY <1>1 DEF HoldsEmail, Level
  <1>3. ~HoldsKey(q)
    BY NoKeyIsWritten
  <1>4. CASE pc[r] \in {"begun", "found"}
    <2>1. Level(r) = 0
      BY <1>4 DEF Level
    <2>2. QED
      BY <1>1, <1>2, <1>3, <1>4, <2>1 DEF WaitsFor
  <1>5. CASE pc[r] = "deleting"
    <2>1. Level(r) = 1 /\ HoldsPicked(q, r)
      BY <1>5 DEF Level, WaitsFor
    <2>2. QED
      BY <2>1 DEF HoldsPicked, Level
  <1>6. QED
    BY <1>3, <1>4, <1>5 DEF WaitsFor

\* Units of work on accounts never wait in a circle: a set of them in which each waits for
\* another would hold one at a level above all.
THEOREM NoDeadlock == Spec => []NoCircleOfWaits
  <1>1. NoCircleOfWaits
    <2>1. SUFFICES ASSUME NEW S \in SUBSET Requests, S # {},
                          \A r \in S : \E q \in S : WaitsFor(r, q)
                   PROVE  FALSE
      BY DEF NoCircleOfWaits
    <2>2. \A r \in S : Level(r) \in 0..2 /\ \E q \in S : Level(r) < Level(q)
      <3>1. \A r \in S : Level(r) \in 0..2
        BY DEF Level
      <3>2. \A r \in S : \E q \in S : Level(r) < Level(q)
        BY <2>1, WaitsUpwards
      <3>3. QED
        BY <3>1, <3>2
    <2>3. \E q \in S : Level(q) >= 1
      BY <2>1, <2>2
    <2>4. \E q \in S : Level(q) >= 2
      BY <2>2, <2>3
    <2>5. QED
      BY <2>2, <2>4
  <1>2. QED
    BY <1>1, PTL
=============================================================================
