--------------------------------- MODULE Accounts ---------------------------------
(***************************************************************************)
(* Accounts and their second factor: src/internal/handler/user.go, the     *)
(* setup and 2FA handlers of handler/auth.go, and service/totp.go. Nothing *)
(* is locked: a request reads the account's row, compares hashes for some  *)
(* time, and saves the whole row, or some columns of it.                   *)
(*                                                                         *)
(* gorm's Save inserts the row, with its old id, if it has been deleted.   *)
(* Passwords, tokens and the limiter of logins are left out.               *)
(***************************************************************************)
EXTENDS Naturals, FiniteSets

CONSTANTS Users, AcctReqs,
          Codes,       \* recovery codes in a batch
          MaxAccounts, \* accounts ever created
          MaxSecrets   \* secrets and batches ever generated

ASSUME AccountsAssumption == MaxAccounts \in Nat /\ MaxSecrets \in Nat

VARIABLES acct,         \* the rows, per username; id 0: none
          acctReq,      \* the requests: step, username, row as it will be saved, code used
          acctIds,      \* accounts created so far
          acctFresh,    \* secrets and batches generated so far
          acctVerified, \* secrets that a code was verified for
          acctRenewed,  \* accounts that asked for a new secret while 2FA was enabled
          acctLogins,   \* recovery codes that have let someone in: <<batch, code>>
          acctFaults,   \* "reused": a code let in twice; "second": Setup made a second account
          acctMet       \* two requests have met, or the panel died in one

acctVars == <<acct, acctReq, acctIds, acctFresh, acctVerified, acctRenewed, acctLogins, acctFaults, acctMet>>
acctGhosts == <<acctVerified, acctRenewed, acctLogins, acctFaults>>

Roles == {"admin", "viewer"}
Account == [id : 0..MaxAccounts, role : Roles, secret : 0..MaxSecrets, enabled : BOOLEAN,
            batch : 0..MaxSecrets, unused : SUBSET Codes]
NoAccount == [id |-> 0, role |-> "viewer", secret |-> 0, enabled |-> FALSE, batch |-> 0, unused |-> {}]
NoCode == "none"
AcctSteps == {"done", "insert", "save", "delete", "disable"}
NoRequest == [step |-> "done", user |-> NoCode, row |-> NoAccount, code |-> NoCode, first |-> FALSE]

AcctTypeOK ==
  /\ acct \in [Users -> Account]
  /\ acctReq \in [AcctReqs -> [step : AcctSteps, user : Users \cup {NoCode}, row : Account,
                               code : Codes \cup {NoCode}, first : BOOLEAN]]
  /\ acctIds \in 0..MaxAccounts /\ acctFresh \in 0..MaxSecrets
  /\ acctVerified \subseteq 1..MaxSecrets /\ acctRenewed \subseteq Users
  /\ acctLogins \subseteq (1..MaxSecrets) \X Codes
  /\ acctFaults \subseteq {"reused", "second"} /\ acctMet \in BOOLEAN

AcctInit ==
  /\ acct = [u \in Users |-> NoAccount]
  /\ acctReq = [r \in AcctReqs |-> NoRequest]
  /\ acctIds = 0 /\ acctFresh = 0
  /\ acctVerified = {} /\ acctRenewed = {} /\ acctLogins = {} /\ acctFaults = {} /\ acctMet = FALSE

There(u) == acct[u].id # 0
Admin(u) == There(u) /\ acct[u].role = "admin"  \* RequireAdmin
AcctBusy == \E r \in AcctReqs : acctReq[r].step # "done"
AcctAt(r, step) == acctReq[r].step = step

AcctBegin(r, step, u, row) ==
  /\ AcctAt(r, "done")
  /\ acctReq' = [acctReq EXCEPT ![r] = [NoRequest EXCEPT !.step = step, !.user = u, !.row = row]]
  /\ acctMet' = (acctMet \/ AcctBusy)

AcctDone(r) == acctReq' = [acctReq EXCEPT ![r] = NoRequest] /\ UNCHANGED acctMet

-----------------------------------------------------------------------------
(* Accounts.                                                               *)

\* The first account: the table is counted, the row inserted later.
Setup(r) ==
  /\ \A u \in Users : ~There(u)
  /\ \E u \in Users : AcctAt(r, "done") /\ acctReq' =
       [acctReq EXCEPT ![r] = [NoRequest EXCEPT !.step = "insert", !.user = u, !.first = TRUE,
                                                !.row = [NoAccount EXCEPT !.role = "admin"]]]
  /\ acctMet' = (acctMet \/ AcctBusy)
  /\ UNCHANGED <<acct, acctIds, acctFresh, acctGhosts>>

CreateUser(r) ==
  /\ \E admin, u \in Users, role \in Roles :
       Admin(admin) /\ ~There(u) /\ AcctBegin(r, "insert", u, [NoAccount EXCEPT !.role = role])
  /\ UNCHANGED <<acct, acctIds, acctFresh, acctGhosts>>

\* A username is unique in the table.
InsertUser(r) ==
  /\ AcctAt(r, "insert") /\ AcctDone(r)
  /\ IF There(acctReq[r].user) THEN UNCHANGED <<acct, acctIds, acctFaults>>
     ELSE /\ acctIds < MaxAccounts /\ acctIds' = acctIds + 1
          /\ acct' = [acct EXCEPT ![acctReq[r].user] = [acctReq[r].row EXCEPT !.id = acctIds + 1]]
          /\ acctFaults' = acctFaults \cup {f \in {"second"} : acctReq[r].first /\ \E u \in Users : There(u)}
  /\ UNCHANGED <<acctFresh, acctVerified, acctRenewed, acctLogins>>

\* A new role or password: the row is read, and all of it saved.
UpdateUser(r) ==
  /\ \E admin, u \in Users, role \in Roles :
       Admin(admin) /\ There(u) /\ AcctBegin(r, "save", u, [acct[u] EXCEPT !.role = role])
  /\ UNCHANGED <<acct, acctIds, acctFresh, acctGhosts>>

DeleteAnyone(r) ==
  /\ \E admin, u \in Users : Admin(admin) /\ There(u) /\ AcctBegin(r, "delete", u, acct[u])
  /\ UNCHANGED <<acct, acctIds, acctFresh, acctGhosts>>

\* Nobody deletes himself.
DeleteUser(r) ==
  /\ \E admin, u \in Users : Admin(admin) /\ u # admin /\ There(u) /\ AcctBegin(r, "delete", u, acct[u])
  /\ UNCHANGED <<acct, acctIds, acctFresh, acctGhosts>>

RemoveUser(r) ==
  /\ AcctAt(r, "delete") /\ AcctDone(r)
  /\ LET u == acctReq[r].user IN
     acct' = IF acct[u].id = acctReq[r].row.id THEN [acct EXCEPT ![u] = NoAccount] ELSE acct
  /\ UNCHANGED <<acctIds, acctFresh, acctGhosts>>

-----------------------------------------------------------------------------
(* The second factor.                                                      *)

\* Also while it is enabled: the secret in use is replaced by one nobody has verified.
GenerateSecret(r) ==
  /\ acctFresh < MaxSecrets /\ acctFresh' = acctFresh + 1
  /\ \E u \in Users :
       /\ There(u) /\ AcctBegin(r, "save", u, [acct[u] EXCEPT !.secret = acctFresh + 1])
       /\ acctRenewed' = IF acct[u].enabled THEN acctRenewed \cup {u} ELSE acctRenewed
  /\ UNCHANGED <<acct, acctIds, acctVerified, acctLogins, acctFaults>>

\* A code for the secret in the row: 2FA is enabled, with a new batch of recovery codes.
VerifyAndEnable(r) ==
  /\ acctFresh < MaxSecrets /\ acctFresh' = acctFresh + 1
  /\ \E u \in Users :
       /\ There(u) /\ acct[u].secret # 0
       /\ AcctBegin(r, "save", u, [acct[u] EXCEPT !.enabled = TRUE, !.batch = acctFresh + 1, !.unused = Codes])
       /\ acctVerified' = acctVerified \cup {acct[u].secret} /\ acctRenewed' = acctRenewed \ {u}
  /\ UNCHANGED <<acct, acctIds, acctLogins, acctFaults>>

Disable(r) ==
  /\ \E u \in Users : There(u) /\ acct[u].enabled /\ AcctBegin(r, "disable", u, acct[u])
  /\ UNCHANGED <<acct, acctIds, acctFresh, acctGhosts>>

DisableKeepsFlag(r) ==
  /\ AcctAt(r, "disable") /\ AcctDone(r)
  /\ LET u == acctReq[r].user IN
     acct' = IF acct[u].id # acctReq[r].row.id THEN acct
             ELSE [acct EXCEPT ![u].secret = 0, ![u].batch = 0, ![u].unused = {}]
  /\ UNCHANGED <<acctIds, acctFresh, acctGhosts>>

\* Three columns of the row, if there still is one.
DisableColumns(r) ==
  /\ AcctAt(r, "disable") /\ AcctDone(r)
  /\ LET u == acctReq[r].user IN
     /\ acct' = IF acct[u].id # acctReq[r].row.id THEN acct
                ELSE [acct EXCEPT ![u].secret = 0, ![u].enabled = FALSE, ![u].batch = 0, ![u].unused = {}]
     /\ acctRenewed' = acctRenewed \ {u}
  /\ UNCHANGED <<acctIds, acctFresh, acctVerified, acctLogins, acctFaults>>

ValidateKeepsCode(r) ==
  /\ \E u \in Users : \E c \in acct[u].unused :
       /\ acct[u].enabled /\ AcctAt(r, "done") /\ acctMet' = (acctMet \/ AcctBusy)
       /\ acctReq' = [acctReq EXCEPT ![r] =
            [NoRequest EXCEPT !.step = "save", !.user = u, !.code = c, !.row = acct[u]]]
  /\ UNCHANGED <<acct, acctIds, acctFresh, acctGhosts>>

\* A recovery code that is not marked as used lets its owner in once the mark is saved.
\* A code of the authenticator changes nothing, and is left out.
ValidateLogin(r) ==
  /\ \E u \in Users : \E c \in acct[u].unused :
       /\ acct[u].enabled /\ AcctAt(r, "done") /\ acctMet' = (acctMet \/ AcctBusy)
       /\ acctReq' = [acctReq EXCEPT ![r] =
            [NoRequest EXCEPT !.step = "save", !.user = u, !.code = c,
                              !.row = [acct[u] EXCEPT !.unused = @ \ {c}]]]
  /\ UNCHANGED <<acct, acctIds, acctFresh, acctGhosts>>

\* Save fails if another account has taken the name.
SaveAccount(r) ==
  /\ AcctAt(r, "save") /\ AcctDone(r)
  /\ LET u == acctReq[r].user  row == acctReq[r].row  use == <<row.batch, acctReq[r].code>> IN
     IF acct[u].id \notin {0, row.id} THEN UNCHANGED <<acct, acctLogins, acctFaults>>
     ELSE /\ acct' = [acct EXCEPT ![u] = row]
          /\ IF acctReq[r].code = NoCode THEN UNCHANGED <<acctLogins, acctFaults>>
             ELSE /\ acctLogins' = acctLogins \cup {use}
                  /\ acctFaults' = acctFaults \cup {f \in {"reused"} : use \in acctLogins}
  /\ UNCHANGED <<acctIds, acctFresh, acctVerified, acctRenewed>>

-----------------------------------------------------------------------------
AcctPanelDies ==
  /\ AcctBusy /\ acctMet' = TRUE
  /\ acctReq' = [r \in AcctReqs |-> NoRequest]
  /\ UNCHANGED <<acct, acctIds, acctFresh, acctGhosts>>

AcctRequest(r) ==
  \/ Setup(r) \/ CreateUser(r) \/ InsertUser(r) \/ UpdateUser(r) \/ DeleteUser(r) \/ RemoveUser(r)
  \/ GenerateSecret(r) \/ VerifyAndEnable(r) \/ Disable(r) \/ DisableColumns(r)
  \/ ValidateLogin(r) \/ SaveAccount(r)

AcctNext == AcctPanelDies \/ \E r \in AcctReqs : AcctRequest(r)

AcctSpec == AcctInit /\ [][AcctNext]_acctVars

-----------------------------------------------------------------------------
\* Whatever meets, an account with 2FA has a secret and recovery codes. Unless two requests
\* met or the panel died in one: the secret is one that was verified, except after a request
\* for a new one while 2FA was enabled; a recovery code lets in once; Setup makes no second
\* account; and once there is an account there always is one.
AccountsSound ==
  /\ \A u \in Users : acct[u].enabled => acct[u].secret # 0 /\ acct[u].batch # 0
  /\ ~acctMet =>
       /\ \A u \in Users : acct[u].enabled /\ u \notin acctRenewed => acct[u].secret \in acctVerified
       /\ acctFaults = {}
       /\ acctIds # 0 => \E u \in Users : There(u)
=============================================================================
