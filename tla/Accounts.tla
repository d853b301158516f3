------------------------------- MODULE Accounts -------------------------------
(***************************************************************************)
(* Users and their tokens: UsersService and UsersRepository behind the     *)
(* guards of modules/auth.                                                 *)
(*                                                                         *)
(* Registration inserts the user and then logs in; a login signs tokens    *)
(* from the row it read before it compared the password and stamped the    *)
(* row.  Tokens are not stored: until it expires a token is good for       *)
(* whatever its payload says, and only a refresh reads the row again.  The *)
(* phone number is checked like the nickname and left out, as are reads.   *)
(* A request refused by its first read changes nothing and is no step.     *)
(***************************************************************************)
EXTENDS Naturals, FiniteSets

CONSTANTS
  Emails,         \* addresses; they identify accounts and never change
  SeededAdmin,    \* the one that the seed may have made an administrator
  Nicknames,
  People,         \* clients; each knows one password
  AccountSlots,   \* bound: how many requests overlap
  MaxVisits       \* bound: requests ever made, those for a refresh aside

ASSUME AccountAssumption == SeededAdmin \in Emails /\ MaxVisits \in Nat

VARIABLES
  account,  \* table users: email -> row
  tokens,   \* the tokens signed and not expired
  visit,    \* slot -> what is left of the request in it
  visits    \* requests made, for the bound

accountVars == <<account, tokens, visit, visits>>
-----------------------------------------------------------------------------
\* Of the five roles of the enum no endpoint asks for another than ADMIN.
Roles     == {"USER", "ADMIN"}
NoAccount == [active |-> FALSE]

\* `owner` stands for the password.
AccountRow == [owner : People, nickname : Nicknames, role : Roles, active : BOOLEAN]
Token      == [type : {"access", "refresh"}, email : Emails, role : Roles, holder : People]

NoVisit == [pc |-> "none"]
Visit ==
  {NoVisit}
  \cup [pc : {"insert", "rename"}, person : People, email : Emails, nickname : Nicknames]
  \cup [pc : {"login", "withdraw"}, person : People, email : Emails]
  \cup [pc : {"sign"}, person : People, email : Emails, role : Roles]

\* Types of every variable.
AccountTypeOK ==
  /\ account \in [Emails -> AccountRow \cup {NoAccount}]
  /\ tokens \subseteq Token
  /\ visit \in [AccountSlots -> Visit] /\ visits \in 0..MaxVisits

Registered      == {e \in Emails : account[e] # NoAccount}
NicknameFree(n) == \A e \in Registered : account[e].nickname # n
Awaits(s, pc)   == visit[s].pc = pc

\* JwtAuthGuard and JwtStrategy: nothing but the token is looked at.
HasAccess(p, e) == \E t \in tokens : t.type = "access" /\ t.email = e /\ t.holder = p
\* RolesGuard, for the endpoints of administrators: the role of the payload.
ActsAsAdmin(e)  == \E t \in tokens : t.type = "access" /\ t.email = e /\ t.role = "ADMIN"

AccountInit ==
  /\ \E seeded \in BOOLEAN, owner \in People, n \in Nicknames :
       account = [e \in Emails |->
            IF seeded /\ e = SeededAdmin
              THEN [owner |-> owner, nickname |-> n, role |-> "ADMIN", active |-> TRUE]
              ELSE NoAccount]
  /\ tokens = {} /\ visit = [s \in AccountSlots |-> NoVisit] /\ visits = 0
-----------------------------------------------------------------------------
Come(s, next) ==
  /\ Awaits(s, "none") /\ visit' = [visit EXCEPT ![s] = next]
  /\ visits < MaxVisits /\ visits' = visits + 1
  /\ UNCHANGED <<account, tokens>>

Go(s, next) == visit' = [visit EXCEPT ![s] = next] /\ UNCHANGED visits

\* create(), up to the INSERT.
Register(s, p, e, n) ==
  /\ e \notin Registered /\ NicknameFree(n)
  /\ Come(s, [pc |-> "insert", person |-> p, email |-> e, nickname |-> n])

\* Seeded fault: a registration that finds the email taken goes on to log in.
InsertAccountOrExisting(s) ==
  /\ Awaits(s, "insert")
  /\ LET v == visit[s] IN
       /\ account' = IF v.email \in Registered \/ ~NicknameFree(v.nickname) THEN account
            ELSE [account EXCEPT ![v.email] =
                   [owner |-> v.person, nickname |-> v.nickname, role |-> "USER", active |-> TRUE]]
       /\ Go(s, IF v.email \in Registered
                  THEN [pc |-> "sign", person |-> v.person, email |-> v.email,
                        role |-> account[v.email].role]
                  ELSE [pc |-> "login", person |-> v.person, email |-> v.email])
  /\ UNCHANGED tokens

\* The INSERT under the unique indexes; register() goes on to log in.
InsertAccount(s) ==
  /\ Awaits(s, "insert")
  /\ LET v == visit[s] IN
       /\ v.email \notin Registered /\ NicknameFree(v.nickname)
       /\ account' = [account EXCEPT ![v.email] =
            [owner |-> v.person, nickname |-> v.nickname, role |-> "USER", active |-> TRUE]]
       /\ Go(s, [pc |-> "login", person |-> v.person, email |-> v.email])
  /\ UNCHANGED tokens

\* login() up to updateLastLogin: the row is read, an active account asked for,
\* the password compared.
Recognised(p, e) == e \in Registered /\ account[e].active /\ account[e].owner = p
Signing(p, e)    == [pc |-> "sign", person |-> p, email |-> e, role |-> account[e].role]

Login(s, p, e)     == Recognised(p, e) /\ Come(s, Signing(p, e))
RegisteredLogin(s) ==
  /\ Awaits(s, "login") /\ Recognised(visit[s].person, visit[s].email)
  /\ Go(s, Signing(visit[s].person, visit[s].email))
  /\ UNCHANGED <<account, tokens>>

\* Seeded fault: the account is not asked to be active.
RefreshInactive(s, t) ==
  /\ Awaits(s, "none") /\ t.type = "refresh"
  /\ Go(s, Signing(t.holder, t.email)) /\ UNCHANGED <<account, tokens>>

\* refreshAccessToken() behind JwtRefreshAuthGuard, up to generateTokens.
Refresh(s, t) ==
  /\ Awaits(s, "none") /\ t.type = "refresh" /\ account[t.email].active
  /\ Go(s, Signing(t.holder, t.email)) /\ UNCHANGED <<account, tokens>>

\* generateTokens: both kinds, from what was read.
SignTokens(s) ==
  /\ Awaits(s, "sign")
  /\ tokens' = tokens \cup {t \in Token : /\ t.holder = visit[s].person
                                          /\ t.email = visit[s].email
                                          /\ t.role = visit[s].role}
  /\ Go(s, NoVisit) /\ UNCHANGED account

\* update() of the nickname, up to the UPDATE; isActive is not asked.
Rename(s, p, e, n) ==
  /\ HasAccess(p, e) /\ e \in Registered /\ NicknameFree(n)
  /\ Come(s, [pc |-> "rename", person |-> p, email |-> e, nickname |-> n])

WriteNickname(s) ==
  /\ Awaits(s, "rename") /\ NicknameFree(visit[s].nickname)
  /\ account' = [account EXCEPT ![visit[s].email].nickname = visit[s].nickname]
  /\ Go(s, NoVisit) /\ UNCHANGED tokens

\* remove(), up to softDelete; the check for ongoing orders and what softDelete
\* does to orders and products is in Marketplace.
Withdraw(s, p, e) ==
  /\ HasAccess(p, e) /\ account[e].active
  /\ Come(s, [pc |-> "withdraw", person |-> p, email |-> e])

Deactivate(s) ==
  /\ Awaits(s, "withdraw")
  /\ account' = [account EXCEPT ![visit[s].email].active = FALSE]
  /\ Go(s, NoVisit) /\ UNCHANGED tokens

\* A query raises (P2002 among others), a later check refuses, or the request
\* dies: after the INSERT of a registration the account stays.
FailVisit(s) ==
  /\ ~Awaits(s, "none") /\ Go(s, NoVisit) /\ UNCHANGED <<account, tokens>>

\* 15 minutes and 7 days: a refresh token outlives its access token, but a
\* later access token may outlive an earlier refresh token.
Expire(t) == tokens' = tokens \ {t} /\ UNCHANGED <<account, visit, visits>>

\* The database is edited: no endpoint changes a role.
Demote(e) ==
  /\ e \in Registered /\ account[e].role = "ADMIN"
  /\ account' = [account EXCEPT ![e].role = "USER"]
  /\ UNCHANGED <<tokens, visit, visits>>

AccountNext ==
  \/ \E s \in AccountSlots :
       \/ \E p \in People, e \in Emails :
            \/ \E n \in Nicknames : Register(s, p, e, n)
            \/ Login(s, p, e)
            \/ \E n \in Nicknames : Rename(s, p, e, n)
            \/ Withdraw(s, p, e)
       \/ InsertAccount(s)
       \/ RegisteredLogin(s)
       \/ \E t \in tokens : Refresh(s, t)
       \/ SignTokens(s)
       \/ WriteNickname(s)
       \/ Deactivate(s)
       \/ FailVisit(s)
  \/ \E t \in tokens : Expire(t)
  \/ \E e \in Emails : Demote(e)

\* Time passes, and a request that signs tokens ends.
AccountFairness ==
  /\ \A e \in Emails, r \in Roles :
       WF_accountVars(\E t \in {t \in tokens : t.email = e /\ t.role = r} : Expire(t))
  /\ \A s \in AccountSlots : WF_accountVars(SignTokens(s))

AccountSpec == AccountInit /\ [][AccountNext]_accountVars /\ AccountFairness
-----------------------------------------------------------------------------
(***************************************************************************)
(* Properties                                                              *)
(***************************************************************************)
\* Tokens of an account are held by who knows its password: of two people who
\* register one address at once the loser gets no tokens, although he passed
\* the check for the address and register() logs in whoever it has created.
TokensGoToOwner ==
  \A t \in tokens : t.email \in Registered /\ t.holder = account[t.email].owner

\* No two accounts share a nickname, however registrations and renames overlap.
NicknamesUnique ==
  \A e, f \in Registered : account[e].nickname = account[f].nickname => e = f

\* The checks that registration and renaming make before they write are no more
\* than courtesy; with the unique indexes behind them, nobody is let into the
\* account of another and no name is given twice.
AccountsSound == TokensGoToOwner /\ NicknamesUnique

\* Whoever has withdrawn ends without any token, for good: tokens signed before,
\* or by a login or refresh that had read the row before, run out and cannot be
\* renewed.
WithdrawnLosesAccess ==
  \A e \in Emails :
    <>[](e \in Registered /\ ~account[e].active => \A t \in tokens : t.email # e)

\* Whoever is no administrator any more ends up not acting as one, for good:
\* the role of a token is that of the row when the row was last read.
DemotedLosesRole ==
  \A e \in Emails :
    <>[](e \in Registered /\ account[e].role = "USER" => ~ActsAsAdmin(e))
==============================================================================
