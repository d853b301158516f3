----------------------------- MODULE AccountsProofs -----------------------------
(***************************************************************************)
(* Proofs about Accounts, for any number of people, addresses, nicknames   *)
(* and overlapping requests.                                               *)
(***************************************************************************)
EXTENDS Accounts, TLAPS

\* Whoever is about to get tokens has shown the password: the request has read
\* the row, or has just inserted it.
SigningMatches ==
  \A s \in AccountSlots :
    /\ Awaits(s, "sign") =>
         /\ visit[s].email \in Registered
         /\ visit[s].person = account[visit[s].email].owner
    /\ visit[s].pc \in {"rename", "withdraw"} => visit[s].email \in Registered

AccountsInv == AccountTypeOK /\ TokensGoToOwner /\ SigningMatches /\ NicknamesUnique

-----------------------------------------------------------------------------
\* What a request in a slot carries, by its next query.
LEMMA VisitFields ==
  ASSUME AccountTypeOK, NEW s \in AccountSlots
  PROVE  /\ visit[s].pc \in {"insert", "rename"} =>
              /\ visit[s].person \in People /\ visit[s].email \in Emails
              /\ visit[s].nickname \in Nicknames
         /\ visit[s].pc \in {"login", "withdraw"} =>
              visit[s].person \in People /\ visit[s].email \in Emails
         /\ visit[s].pc = "sign" =>
              visit[s].person \in People /\ visit[s].email \in Emails /\ visit[s].role \in Roles
<1>1. visit[s] \in Visit
  BY DEF AccountTypeOK
<1>2. QED
  BY <1>1 DEF Visit, NoVisit

\* A row that is there has the fields of one.
LEMMA RowFields ==
  ASSUME AccountTypeOK, NEW e \in Registered
  PROVE  e \in Emails /\ account[e] \in AccountRow
BY DEF AccountTypeOK, Registered

\* No row is mistaken for none.
LEMMA RowIsNotNone == \A row \in AccountRow : row # NoAccount
<1>1. ASSUME NEW row \in AccountRow, row = NoAccount PROVE FALSE
  <2>1. DOMAIN row = {"owner", "nickname", "role", "active"}
    BY DEF AccountRow
  <2>2. DOMAIN row = {"active"}
    BY <1>1 DEF NoAccount
  <2>3. QED
    BY <2>1, <2>2
<1>2. QED
  BY <1>1

LEMMA AccountsInitInvariant == AccountInit => AccountsInv
<1> SUFFICES ASSUME AccountInit PROVE AccountsInv
  OBVIOUS
<1>1. PICK seeded \in BOOLEAN, owner \in People, n \in Nicknames :
        account = [e \in Emails |->
            IF seeded /\ e = SeededAdmin
              THEN [owner |-> owner, nickname |-> n, role |-> "ADMIN", active |-> TRUE]
              ELSE NoAccount]
  BY DEF AccountInit
<1>2. [owner |-> owner, nickname |-> n, role |-> "ADMIN", active |-> TRUE] \in AccountRow
  BY DEF AccountRow, Roles
<1>3. account \in [Emails -> AccountRow \cup {NoAccount}]
  BY <1>1, <1>2
<1>4. AccountTypeOK
  <2>1. NoVisit \in Visit
    BY DEF Visit
  <2>2. visit \in [AccountSlots -> Visit]
    BY <2>1 DEF AccountInit
  <2>3. tokens \subseteq Token /\ visits \in 0..MaxVisits
    BY AccountAssumption DEF AccountInit, AccountAssumption
  <2>4. QED
    BY <1>3, <2>2, <2>3 DEF AccountTypeOK
<1>5. \A e \in Registered : e = SeededAdmin
  BY <1>1 DEF Registered
<1>6. QED
  BY <1>4, <1>5 DEF AccountInit, AccountsInv, TokensGoToOwner, SigningMatches, NicknamesUnique, Awaits, NoVisit

\* A step that leaves the rows alone and lets a request go on to `next`.
LEMMA GoOn ==
  ASSUME AccountsInv, UNCHANGED <<account, tokens>>, NEW s \in AccountSlots, NEW next \in Visit,
         visit' = [visit EXCEPT ![s] = next], visits' \in 0..MaxVisits,
         next.pc = "sign" => next.email \in Registered /\ next.person = account[next.email].owner,
         next.pc \in {"rename", "withdraw"} => next.email \in Registered
  PROVE  AccountsInv'
<1>1. AccountTypeOK'
  BY DEF AccountsInv, AccountTypeOK
<1>2. Registered' = Registered
  BY DEF Registered
<1>3. TokensGoToOwner' /\ NicknamesUnique'
  BY <1>2 DEF AccountsInv, TokensGoToOwner, NicknamesUnique
<1>4. SigningMatches'
  <2> SUFFICES ASSUME NEW q \in AccountSlots
               PROVE  /\ Awaits(q, "sign")' =>
                           /\ visit'[q].email \in Registered
                           /\ visit'[q].person = account[visit'[q].email].owner
                      /\ visit'[q].pc \in {"rename", "withdraw"} => visit'[q].email \in Registered
    BY <1>2 DEF SigningMatches
  <2>1. CASE q = s
    BY <2>1 DEF AccountsInv, AccountTypeOK, Awaits
  <2>2. CASE q # s
    BY <2>2 DEF AccountsInv, AccountTypeOK, SigningMatches, Awaits
  <2>3. QED
    BY <2>1, <2>2
<1>5. QED
  BY <1>1, <1>3, <1>4 DEF AccountsInv

\* A step that writes one row, which keeps its owner if it had one, and ends or
\* goes on with a request that does not sign.
LEMMA WriteRow ==
  ASSUME AccountsInv, NEW e \in Emails, NEW row \in AccountRow,
         account' = [account EXCEPT ![e] = row],
         e \in Registered => row.owner = account[e].owner,
         \A f \in Registered \ {e} : account[f].nickname # row.nickname,
         UNCHANGED tokens, visits' = visits,
         visit' \in [AccountSlots -> Visit],
         \A q \in AccountSlots :
           visit'[q] = visit[q] \/ visit'[q].pc \notin {"sign", "rename", "withdraw"}
  PROVE  AccountsInv'
<1>1. AccountTypeOK'
  <2>1. account' \in [Emails -> AccountRow \cup {NoAccount}]
    BY DEF AccountsInv, AccountTypeOK
  <2>2. QED
    BY <2>1 DEF AccountsInv, AccountTypeOK
<1>2. Registered' = Registered \cup {e} /\ account'[e] = row
  BY RowIsNotNone DEF AccountsInv, AccountTypeOK, Registered
<1>3. \A f \in Registered : f \in Emails /\ account'[f].owner = account[f].owner
  BY <1>2 DEF AccountsInv, AccountTypeOK, Registered
<1>4. TokensGoToOwner'
  BY <1>2, <1>3 DEF AccountsInv, TokensGoToOwner
<1>5. NicknamesUnique'
  <2>1. \A f \in Registered \ {e} : account'[f] = account[f]
    BY DEF AccountsInv, AccountTypeOK, Registered
  <2>2. QED
    BY <1>2, <2>1 DEF AccountsInv, NicknamesUnique
<1>6. SigningMatches'
  <2> SUFFICES ASSUME NEW q \in AccountSlots
               PROVE  /\ Awaits(q, "sign")' =>
                           /\ visit'[q].email \in Registered'
                           /\ visit'[q].person = account'[visit'[q].email].owner
                      /\ visit'[q].pc \in {"rename", "withdraw"} => visit'[q].email \in Registered'
    BY DEF SigningMatches
  <2>1. QED
    BY <1>2, <1>3 DEF AccountsInv, SigningMatches, Awaits
<1>7. QED
  BY <1>1, <1>4, <1>5, <1>6 DEF AccountsInv

LEMMA AccountsNextInvariant == AccountsInv /\ [AccountNext]_accountVars => AccountsInv'
<1> SUFFICES ASSUME AccountsInv, [AccountNext]_accountVars PROVE AccountsInv'
  OBVIOUS
<1>a. AccountTypeOK
  BY DEF AccountsInv
<1>b. MaxVisits \in Nat
  BY AccountAssumption DEF AccountAssumption
<1>c. NoVisit \in Visit /\ NoVisit.pc = "none"
  BY DEF Visit, NoVisit
<1>d. ASSUME NEW s \in AccountSlots, NEW next \in Visit, visit' = [visit EXCEPT ![s] = next],
             next.pc \notin {"sign", "rename", "withdraw"}
      PROVE  /\ visit' \in [AccountSlots -> Visit]
             /\ \A q \in AccountSlots :
                  visit'[q] = visit[q] \/ visit'[q].pc \notin {"sign", "rename", "withdraw"}
  BY <1>a, <1>d DEF AccountTypeOK
<1>1. ASSUME NEW s \in AccountSlots, NEW p \in People, NEW e \in Emails, NEW n \in Nicknames,
             Register(s, p, e, n)
      PROVE  AccountsInv'
  <2>1. [pc |-> "insert", person |-> p, email |-> e, nickname |-> n] \in Visit
    BY DEF Visit
  <2>2. visits' \in 0..MaxVisits
    BY <1>1, <1>a, <1>b DEF Register, Come, AccountTypeOK
  <2>3. QED
    BY <1>1, <2>1, <2>2, GoOn DEF Register, Come
<1>2. ASSUME NEW s \in AccountSlots, NEW p \in People, NEW e \in Emails, Login(s, p, e)
      PROVE  AccountsInv'
  <2>1. account[e] \in AccountRow
    BY <1>2, <1>a, RowFields DEF Login, Recognised
  <2>2. Signing(p, e) \in Visit /\ Signing(p, e).pc = "sign" /\ Signing(p, e).email = e /\ Signing(p, e).person = p
    BY <2>1 DEF Visit, Signing, AccountRow
  <2>3. visits' \in 0..MaxVisits
    BY <1>2, <1>a, <1>b DEF Login, Come, AccountTypeOK
  <2>4. QED
    BY <1>2, <2>2, <2>3, GoOn DEF Login, Recognised, Come
<1>3. ASSUME NEW s \in AccountSlots, NEW p \in People, NEW e \in Emails, NEW n \in Nicknames,
             Rename(s, p, e, n)
      PROVE  AccountsInv'
  <2>1. [pc |-> "rename", person |-> p, email |-> e, nickname |-> n] \in Visit
    BY DEF Visit
  <2>2. visits' \in 0..MaxVisits
    BY <1>3, <1>a, <1>b DEF Rename, Come, AccountTypeOK
  <2>3. QED
    BY <1>3, <2>1, <2>2, GoOn DEF Rename, Come
<1>4. ASSUME NEW s \in AccountSlots, NEW p \in People, NEW e \in Emails, Withdraw(s, p, e)
      PROVE  AccountsInv'
  <2>1. [pc |-> "withdraw", person |-> p, email |-> e] \in Visit
    BY DEF Visit
  <2>2. visits' \in 0..MaxVisits
    BY <1>4, <1>a, <1>b DEF Withdraw, Come, AccountTypeOK
  <2>3. e \in Registered
    BY <1>4, <1>a DEF Withdraw, HasAccess, AccountsInv, TokensGoToOwner
  <2>4. QED
    BY <1>4, <2>1, <2>2, <2>3, GoOn DEF Withdraw, Come
<1>5. ASSUME NEW s \in AccountSlots, InsertAccount(s) PROVE AccountsInv'
  <2> DEFINE v == visit[s]
             row == [owner |-> v.person, nickname |-> v.nickname, role |-> "USER", active |-> TRUE]
             next == [pc |-> "login", person |-> v.person, email |-> v.email]
  <2>1. v.person \in People /\ v.email \in Emails /\ v.nickname \in Nicknames
    BY <1>5, <1>a, VisitFields DEF InsertAccount, Awaits
  <2>2. row \in AccountRow /\ row.nickname = v.nickname /\ row.owner = v.person
    BY <2>1 DEF AccountRow, Roles
  <2>3. next \in Visit /\ next.pc = "login"
    BY <2>1 DEF Visit
  <2>4. /\ v.email \notin Registered
        /\ \A f \in Registered : account[f].nickname # v.nickname
        /\ account' = [account EXCEPT ![v.email] = row]
        /\ visit' = [visit EXCEPT ![s] = next] /\ visits' = visits /\ tokens' = tokens
    BY <1>5 DEF InsertAccount, NicknameFree, Go
  <2> HIDE DEF row, next, v
  <2>5. /\ visit' \in [AccountSlots -> Visit]
        /\ \A q \in AccountSlots :
             visit'[q] = visit[q] \/ visit'[q].pc \notin {"sign", "rename", "withdraw"}
    BY <1>d, <2>3, <2>4
  <2>6. v.email \in Registered => row.owner = account[v.email].owner
    BY <2>4
  <2>7. \A f \in Registered \ {v.email} : account[f].nickname # row.nickname
    BY <2>2, <2>4
  <2>8. QED
    BY <2>1, <2>2, <2>4, <2>5, <2>6, <2>7, WriteRow
<1>6. ASSUME NEW s \in AccountSlots, RegisteredLogin(s) PROVE AccountsInv'
  <2> DEFINE p == visit[s].person  e == visit[s].email
  <2>1. e \in Registered /\ account[e].owner = p /\ p \in People
    BY <1>6, <1>a, VisitFields DEF RegisteredLogin, Recognised, Awaits
  <2>2. Signing(p, e) \in Visit /\ Signing(p, e).pc = "sign" /\ Signing(p, e).email = e /\ Signing(p, e).person = p
    BY <2>1, <1>a, RowFields DEF Visit, Signing, AccountRow
  <2>3. visit' = [visit EXCEPT ![s] = Signing(p, e)] /\ visits' \in 0..MaxVisits
        /\ UNCHANGED <<account, tokens>>
    BY <1>6, <1>a DEF RegisteredLogin, Go, AccountTypeOK
  <2> HIDE DEF p, e
  <2>4. QED
    BY <2>1, <2>2, <2>3, GoOn
<1>7. ASSUME NEW s \in AccountSlots, NEW t \in tokens, Refresh(s, t) PROVE AccountsInv'
  <2>1. t.email \in Registered /\ t.holder = account[t.email].owner
    BY DEF AccountsInv, TokensGoToOwner
  <2>2. /\ Signing(t.holder, t.email) \in Visit /\ Signing(t.holder, t.email).pc = "sign"
        /\ Signing(t.holder, t.email).email = t.email /\ Signing(t.holder, t.email).person = t.holder
    BY <2>1, <1>a, RowFields DEF Visit, Signing, AccountRow
  <2>3. visit' = [visit EXCEPT ![s] = Signing(t.holder, t.email)] /\ visits' \in 0..MaxVisits
        /\ UNCHANGED <<account, tokens>>
    BY <1>7, <1>a DEF Refresh, Go, AccountTypeOK
  <2>4. QED
    BY <2>1, <2>2, <2>3, GoOn
<1>8. ASSUME NEW s \in AccountSlots, SignTokens(s) PROVE AccountsInv'
  <2>1. visit[s].email \in Registered /\ visit[s].person = account[visit[s].email].owner
    BY <1>8 DEF SignTokens, AccountsInv, SigningMatches
  <2>2. tokens' \subseteq Token
    BY <1>8, <1>a DEF SignTokens, AccountTypeOK
  <2>3. AccountTypeOK'
    BY <1>8, <1>a, <1>c, <2>2 DEF SignTokens, Go, AccountTypeOK
  <2>4. account' = account /\ Registered' = Registered
    BY <1>8 DEF SignTokens, Registered
  <2>5. TokensGoToOwner'
    BY <1>8, <2>1, <2>4 DEF SignTokens, AccountsInv, TokensGoToOwner
  <2>6. NicknamesUnique'
    BY <2>4 DEF AccountsInv, NicknamesUnique
  <2>7. \A q \in AccountSlots : visit'[q] = visit[q] \/ visit'[q].pc = "none"
    BY <1>8, <1>a, <1>c DEF SignTokens, Go, AccountTypeOK
  <2>8. SigningMatches'
    BY <2>4, <2>7 DEF AccountsInv, SigningMatches, Awaits
  <2>9. QED
    BY <2>3, <2>5, <2>6, <2>8 DEF AccountsInv
<1>9. ASSUME NEW s \in AccountSlots, WriteNickname(s) PROVE AccountsInv'
  <2> DEFINE e == visit[s].email
             row == [account[e] EXCEPT !.nickname = visit[s].nickname]
  <2>1. e \in Registered /\ e \in Emails /\ visit[s].nickname \in Nicknames
    BY <1>9, <1>a, VisitFields DEF WriteNickname, Awaits, AccountsInv, SigningMatches
  <2>2. account[e] \in AccountRow
    BY <2>1, <1>a, RowFields
  <2>3. row \in AccountRow /\ row.owner = account[e].owner /\ row.nickname = visit[s].nickname
    BY <2>1, <2>2 DEF AccountRow
  <2>4. account' = [account EXCEPT ![e] = row]
    BY <1>9, <1>a, <2>1 DEF WriteNickname, AccountTypeOK
  <2>5. /\ \A f \in Registered : account[f].nickname # visit[s].nickname
        /\ visit' = [visit EXCEPT ![s] = NoVisit] /\ visits' = visits /\ tokens' = tokens
    BY <1>9 DEF WriteNickname, NicknameFree, Go
  <2> HIDE DEF e, row
  <2>6. /\ visit' \in [AccountSlots -> Visit]
        /\ \A q \in AccountSlots :
             visit'[q] = visit[q] \/ visit'[q].pc \notin {"sign", "rename", "withdraw"}
    BY <1>c, <1>d, <2>5
  <2>7. \A f \in Registered \ {e} : account[f].nickname # row.nickname
    BY <2>3, <2>5
  <2>8. QED
    BY <2>1, <2>3, <2>4, <2>5, <2>6, <2>7, WriteRow
<1>10. ASSUME NEW s \in AccountSlots, Deactivate(s) PROVE AccountsInv'
  <2> DEFINE e == visit[s].email
             row == [account[e] EXCEPT !.active = FALSE]
  <2>1. e \in Registered /\ e \in Emails
    BY <1>10, <1>a, VisitFields DEF Deactivate, Awaits, AccountsInv, SigningMatches
  <2>2. account[e] \in AccountRow
    BY <2>1, <1>a, RowFields
  <2>3. row \in AccountRow /\ row.owner = account[e].owner /\ row.nickname = account[e].nickname
    BY <2>2 DEF AccountRow
  <2>4. account' = [account EXCEPT ![e] = row]
    BY <1>10, <1>a, <2>1 DEF Deactivate, AccountTypeOK
  <2>5. visit' = [visit EXCEPT ![s] = NoVisit] /\ visits' = visits /\ tokens' = tokens
    BY <1>10 DEF Deactivate, Go
  <2>6. \A f \in Registered \ {e} : account[f].nickname # row.nickname
    BY <2>1, <2>3 DEF AccountsInv, NicknamesUnique
  <2> HIDE DEF e, row
  <2>7. /\ visit' \in [AccountSlots -> Visit]
        /\ \A q \in AccountSlots :
             visit'[q] = visit[q] \/ visit'[q].pc \notin {"sign", "rename", "withdraw"}
    BY <1>c, <1>d, <2>5
  <2>8. QED
    BY <2>1, <2>3, <2>4, <2>5, <2>6, <2>7, WriteRow
<1>11. ASSUME NEW s \in AccountSlots, FailVisit(s) PROVE AccountsInv'
  <2>1. visit' = [visit EXCEPT ![s] = NoVisit] /\ visits' \in 0..MaxVisits /\ UNCHANGED <<account, tokens>>
    BY <1>11, <1>a DEF FailVisit, Go, AccountTypeOK
  <2>2. QED
    BY <1>c, <2>1, GoOn
<1>12. ASSUME NEW t \in tokens, Expire(t) PROVE AccountsInv'
  BY <1>12 DEF Expire, AccountsInv, AccountTypeOK, TokensGoToOwner, SigningMatches, NicknamesUnique,
               Registered, Awaits
<1>13. ASSUME NEW e \in Emails, Demote(e) PROVE AccountsInv'
  <2> DEFINE row == [account[e] EXCEPT !.role = "USER"]
  <2>1. account[e] \in AccountRow /\ e \in Registered
    BY <1>13, <1>a, RowFields DEF Demote
  <2>2. row \in AccountRow /\ row.owner = account[e].owner /\ row.nickname = account[e].nickname
    BY <2>1 DEF AccountRow, Roles
  <2>3. account' = [account EXCEPT ![e] = row] /\ visit' = visit /\ visits' = visits /\ tokens' = tokens
    BY <1>13, <1>a DEF Demote, AccountTypeOK
  <2>4. \A f \in Registered \ {e} : account[f].nickname # row.nickname
    BY <2>1, <2>2 DEF AccountsInv, NicknamesUnique
  <2> HIDE DEF row
  <2>5. visit' \in [AccountSlots -> Visit]
    BY <1>a, <2>3 DEF AccountTypeOK
  <2>6. QED
    BY <2>2, <2>3, <2>4, <2>5, WriteRow
<1>14. CASE UNCHANGED accountVars
  BY <1>14 DEF accountVars, AccountsInv, AccountTypeOK, TokensGoToOwner, SigningMatches, NicknamesUnique,
               Registered, Awaits
<1>15. QED
  BY <1>1, <1>2, <1>3, <1>4, <1>5, <1>6, <1>7, <1>8, <1>9, <1>10, <1>11, <1>12, <1>13, <1>14
     DEF AccountNext

LEMMA AccountsInvariance == AccountSpec => []AccountsInv
BY AccountsInitInvariant, AccountsNextInvariant, PTL DEF AccountSpec

\* Every variable keeps its type: a token names an account of the table.
THEOREM AccountsTypeCorrect == AccountSpec => []AccountTypeOK
BY AccountsInvariance, PTL DEF AccountsInv

\* Only who knows the password of an account ever holds a token of it, however
\* registrations of the same address overlap; and the nickname check of
\* registrations and renames, which others overtake, is made good by the index.
THEOREM AccountsStaySound == AccountSpec => []AccountsSound
<1>1. AccountsInv => AccountsSound
  BY DEF AccountsInv, AccountsSound
<1>2. QED
  BY <1>1, AccountsInvariance, PTL
=================================================================================
