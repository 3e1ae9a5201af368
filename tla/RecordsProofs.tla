---------------------------- MODULE RecordsProofs ---------------------------
(***************************************************************************)
(* Proofs about rows that say something of each other: the accounts        *)
(* (AcctInv), the upstreams and routes of hosts (PartInv, which needs what *)
(* a list becomes when some are dropped) and what hosts refer to (CatInv). *)
(* All that the code keeps of them is lost once two requests have met, so  *)
(* each invariant also says what a request alone still has to do, and what *)
(* is true of its rows while it does it.                                   *)
(***************************************************************************)
EXTENDS Accounts, HostParts, Catalog, TLAPS, WellFoundedInduction, SequenceTheorems, FiniteSetTheorems
-----------------------------------------------------------------------------
(* Sequences without some of their elements.                               *)

\* A set of numbers that holds 0, and with each number the next, holds them all.
LEMMA Induction ==
  ASSUME NEW P, 0 \in P, \A n \in Nat : n \in P => n + 1 \in P
  PROVE  Nat \subseteq P
<1>. DEFINE Less == {ss \in Nat \X Nat : ss[1] < ss[2]}
            T == Nat \ P
<1>. SUFFICES ASSUME T # {} PROVE FALSE
  OBVIOUS
<1>1. IsWellFoundedOn(Less, Nat)
  BY NatLessThanWellFounded DEF OpToRel
<1>. HIDE DEF Less
<1>2. PICK n \in T : \A y \in T : ~ (<<y, n>> \in Less)
  BY <1>1, WFMin
<1>3. n \in Nat /\ n # 0 /\ n - 1 \in Nat
  OBVIOUS
<1>4. <<n - 1, n>> \in Less
  BY <1>3 DEF Less
<1>5. n - 1 \in P
  BY <1>2, <1>3, <1>4
<1>6. QED
  BY <1>3, <1>5

\* What the recursion of DropFrom asks of its solution.
Dropping(s, S, f) ==
  f = [i \in 0 .. Len(s) |-> IF i = 0 THEN <<>> ELSE IF s[i] \in S THEN f[i - 1] ELSE Append(f[i - 1], s[i])]

\* There is one.
LEMMA DroppingSolved ==
  ASSUME NEW T, NEW s \in Seq(T), NEW S
  PROVE  \E f : Dropping(s, S, f)
<1>. DEFINE Next(f, i) == IF s[i] \in S THEN f[i - 1] ELSE Append(f[i - 1], s[i])
            SolvedUpto(n, f) == f[0] = <<>> /\ \A i \in 1 .. n : f[i] = Next(f, i)
            Solved(n) == \E f \in [0 .. n -> Seq(T)] : SolvedUpto(n, f)
            P == {n \in Nat : n <= Len(s) => Solved(n)}
<1>0. Len(s) \in Nat /\ \A i \in 1 .. Len(s) : s[i] \in T
  BY LenProperties
<1>1. 0 \in P
  <2>1. [i \in 0 .. 0 |-> <<>>] \in [0 .. 0 -> Seq(T)] /\ SolvedUpto(0, [i \in 0 .. 0 |-> <<>>])
    OBVIOUS
  <2>2. QED
    BY <2>1
<1>2. ASSUME NEW n \in Nat, n \in P
      PROVE  n + 1 \in P
  <2>. HIDE DEF Solved
  <2>. SUFFICES ASSUME n + 1 <= Len(s) PROVE Solved(n + 1)
    OBVIOUS
  <2>0. Solved(n)
    BY <1>0, <1>2
  <2>1. PICK g \in [0 .. n -> Seq(T)] : SolvedUpto(n, g)
    BY <2>0 DEF Solved
  <2>. DEFINE last == IF s[n + 1] \in S THEN g[n] ELSE Append(g[n], s[n + 1])
              f == [i \in 0 .. n + 1 |-> IF i = n + 1 THEN last ELSE g[i]]
  <2>2. last \in Seq(T)
    BY <1>0, AppendProperties
  <2>. HIDE DEF last
  <2>3. f \in [0 .. n + 1 -> Seq(T)]
    BY <2>2
  <2>4. f[0] = <<>> /\ \A i \in 1 .. n : f[i] = g[i] /\ f[i - 1] = g[i - 1]
    BY <2>1
  <2>5. f[n + 1] = last /\ f[n + 1 - 1] = g[n]
    OBVIOUS
  <2>6. ASSUME NEW i \in 1 .. n + 1
        PROVE  f[i] = Next(f, i)
    <3>1. CASE i = n + 1
      BY <2>5, <3>1 DEF last
    <3>2. CASE i # n + 1
      <4>1. i \in 1 .. n
        BY <3>2
      <4>2. QED
        BY <2>1, <2>4, <4>1, SMTT(30)
    <3>3. QED
      BY <3>1, <3>2
  <2>7. QED
    BY <2>3, <2>4, <2>6 DEF Solved
<1>. HIDE DEF P
<1>3. Len(s) \in P
  BY <1>0, <1>1, <1>2, Induction
<1>4. PICK f \in [0 .. Len(s) -> Seq(T)] : SolvedUpto(Len(s), f)
  BY <1>0, <1>3 DEF P
<1>5. Dropping(s, S, f)
  <2>1. f = [i \in 0 .. Len(s) |-> f[i]]
    OBVIOUS
  <2>2. ASSUME NEW i \in 0 .. Len(s)
        PROVE  f[i] = IF i = 0 THEN <<>> ELSE Next(f, i)
    <3>1. i = 0 \/ i \in 1 .. Len(s)
      BY <1>0
    <3>2. QED
      BY <1>4, <3>1
  <2>3. QED
    BY <2>1, <2>2 DEF Dropping
<1>6. QED
  BY <1>5

\* What remains of s: the elements outside S, those of two places from two places.
From(s, t, n) ==
  /\ \A a \in DOMAIN t : \E c \in 1 .. n : t[a] = s[c]
  /\ \A a, b \in DOMAIN t : a # b => \E c, d \in 1 .. n : c # d /\ t[a] = s[c] /\ t[b] = s[d]

\* DropFrom keeps exactly what is outside S, from different places of s, in s's own type.
LEMMA DropFromProperties ==
  ASSUME NEW T, NEW s \in Seq(T), NEW S
  PROVE  /\ DropFrom(s, S) \in Seq(T)
         /\ \A i \in DOMAIN s : s[i] \notin S => \E a \in DOMAIN DropFrom(s, S) : DropFrom(s, S)[a] = s[i]
         /\ \A a \in DOMAIN DropFrom(s, S) : DropFrom(s, S)[a] \notin S
         /\ From(s, DropFrom(s, S), Len(s))
<1>. DEFINE k == CHOOSE f : Dropping(s, S, f)
            Whole(n, t) == \A i \in 1 .. n : s[i] \notin S => \E a \in DOMAIN t : t[a] = s[i]
            Apart(t) == \A a \in DOMAIN t : t[a] \notin S
            P == {n \in Nat : n <= Len(s) => k[n] \in Seq(T) /\ Whole(n, k[n]) /\ Apart(k[n]) /\ From(s, k[n], n)}
<1>0. Len(s) \in Nat /\ DOMAIN s = 1 .. Len(s) /\ \A i \in 1 .. Len(s) : s[i] \in T
  BY LenProperties
<1>1. DropFrom(s, S) = k[Len(s)]
  BY DEF DropFrom, Dropping
<1>2. Dropping(s, S, k)
  <2>1. \E f : Dropping(s, S, f)
    BY DroppingSolved
  <2>2. QED
    BY <2>1, Zenon
<1>. HIDE DEF k
<1>3. k[0] = <<>> /\ \A i \in 1 .. Len(s) : k[i] = IF s[i] \in S THEN k[i - 1] ELSE Append(k[i - 1], s[i])
  <2>1. \A i \in 0 .. Len(s) : k[i] = IF i = 0 THEN <<>> ELSE IF s[i] \in S THEN k[i - 1] ELSE Append(k[i - 1], s[i])
    BY <1>2 DEF Dropping
  <2>2. 0 \in 0 .. Len(s) /\ \A i \in 1 .. Len(s) : i \in 0 .. Len(s) /\ i # 0
    BY <1>0
  <2>3. k[0] = <<>>
    BY <2>1, <2>2
  <2>4. ASSUME NEW i \in 1 .. Len(s)
        PROVE  k[i] = IF s[i] \in S THEN k[i - 1] ELSE Append(k[i - 1], s[i])
    BY <2>1, <2>2
  <2>5. QED
    BY <2>3, <2>4
<1>4. 0 \in P
  <2>1. <<>> \in Seq(T) /\ DOMAIN <<>> = {}
    OBVIOUS
  <2>2. From(s, <<>>, 0)
    BY <2>1 DEF From
  <2>3. Whole(0, <<>>) /\ Apart(<<>>)
    BY <2>1
  <2>4. QED
    BY <1>3, <2>1, <2>2, <2>3
<1>5. ASSUME NEW n \in Nat, n \in P
      PROVE  n + 1 \in P
  <2>. DEFINE t == k[n]
              u == k[n + 1]
              x == s[n + 1]
  <2>. SUFFICES ASSUME n + 1 <= Len(s) PROVE u \in Seq(T) /\ Whole(n + 1, u) /\ Apart(u) /\ From(s, u, n + 1)
    OBVIOUS
  <2>1. t \in Seq(T) /\ Whole(n, t) /\ Apart(t) /\ From(s, t, n) /\ x \in T
    BY <1>0, <1>5
  <2>2. u = IF x \in S THEN t ELSE Append(t, x)
    BY <1>0, <1>3
  <2>. HIDE DEF t, u, x
  <2>3. CASE x \in S
    <3>1. u = t
      BY <2>2, <2>3
    <3>2. Whole(n + 1, t)
      BY <2>1, <2>3 DEF x
    <3>3. From(s, t, n + 1)
      BY <2>1, SMTT(30) DEF From
    <3>4. QED
      BY <2>1, <3>1, <3>2, <3>3
  <2>4. CASE x \notin S
    <3>1. u = Append(t, x)
      BY <2>2, <2>4
    <3>2. /\ u \in Seq(T) /\ Len(u) = Len(t) + 1 /\ Len(t) \in Nat /\ u[Len(t) + 1] = x
          /\ \A a \in 1 .. Len(t) : u[a] = t[a]
      BY <2>1, <3>1, AppendProperties, LenProperties
    <3>3. DOMAIN u = 1 .. Len(t) + 1 /\ DOMAIN t = 1 .. Len(t)
      BY <2>1, <3>2, LenProperties
    <3>4. Whole(n + 1, u)
      <4>. SUFFICES ASSUME NEW i \in 1 .. n + 1, s[i] \notin S PROVE \E a \in DOMAIN u : u[a] = s[i]
        OBVIOUS
      <4>1. CASE i = n + 1
        BY <3>2, <3>3, <4>1 DEF x
      <4>2. CASE i # n + 1
        <5>1. PICK a \in DOMAIN t : t[a] = s[i]
          BY <2>1, <4>2
        <5>2. QED
          BY <3>2, <3>3, <5>1
      <4>3. QED
        BY <4>1, <4>2
    <3>5. Apart(u)
      BY <2>1, <2>4, <3>2, <3>3
    <3>6. ASSUME NEW a \in DOMAIN u
          PROVE  \E c \in 1 .. n + 1 : u[a] = s[c]
      <4>1. CASE a = Len(t) + 1
        BY <3>2, <4>1 DEF x
      <4>2. CASE a # Len(t) + 1
        BY <2>1, <3>2, <3>3, <4>2 DEF From
      <4>3. QED
        BY <4>1, <4>2
    <3>7. ASSUME NEW a \in DOMAIN u, NEW b \in DOMAIN u, a # b
          PROVE  \E c, d \in 1 .. n + 1 : c # d /\ u[a] = s[c] /\ u[b] = s[d]
      <4>1. CASE a = Len(t) + 1
        <5>1. b \in DOMAIN t /\ u[b] = t[b]
          BY <3>2, <3>3, <3>7, <4>1
        <5>2. PICK d \in 1 .. n : t[b] = s[d]
          BY <2>1, <5>1 DEF From
        <5>3. d \in 1 .. n + 1 /\ n + 1 \in 1 .. n + 1 /\ n + 1 # d /\ u[a] = s[n + 1]
          BY <3>2, <4>1 DEF x
        <5>4. QED
          BY <5>1, <5>2, <5>3
      <4>2. CASE b = Len(t) + 1
        <5>1. a \in DOMAIN t /\ u[a] = t[a]
          BY <3>2, <3>3, <3>7, <4>2
        <5>2. PICK c \in 1 .. n : t[a] = s[c]
          BY <2>1, <5>1 DEF From
        <5>3. c \in 1 .. n + 1 /\ n + 1 \in 1 .. n + 1 /\ n + 1 # c /\ u[b] = s[n + 1]
          BY <3>2, <4>2 DEF x
        <5>4. QED
          BY <5>1, <5>2, <5>3
      <4>3. CASE a # Len(t) + 1 /\ b # Len(t) + 1
        <5>1. a \in DOMAIN t /\ u[a] = t[a] /\ b \in DOMAIN t /\ u[b] = t[b]
          BY <3>2, <3>3, <4>3
        <5>2. PICK c \in 1 .. n, d \in 1 .. n : c # d /\ t[a] = s[c] /\ t[b] = s[d]
          BY <2>1, <3>7, <5>1 DEF From
        <5>3. c \in 1 .. n + 1 /\ d \in 1 .. n + 1
          OBVIOUS
        <5>4. QED
          BY <5>1, <5>2, <5>3
      <4>4. QED
        BY <4>1, <4>2, <4>3
    <3>8. From(s, u, n + 1)
      BY <3>6, <3>7 DEF From
    <3>9. QED
      BY <3>2, <3>4, <3>5, <3>8
  <2>5. QED
    BY <2>3, <2>4
<1>. HIDE DEF P
<1>6. Len(s) \in P
  BY <1>0, <1>4, <1>5, Induction
<1>7. k[Len(s)] \in Seq(T) /\ Whole(Len(s), k[Len(s)]) /\ Apart(k[Len(s)]) /\ From(s, k[Len(s)], Len(s))
  BY <1>0, <1>6 DEF P
<1>8. QED
  BY <1>0, <1>1, <1>7

-----------------------------------------------------------------------------
(* The accounts.                                                           *)

AcctCalls ==
  [step : AcctSteps, user : Users \cup {NoCode}, row : Account, code : Codes \cup {NoCode}, first : BOOLEAN]

\* A row with 2FA has an id, a secret and recovery codes, from a batch that has been generated.
HasFactor(row) == (row.enabled => row.id # 0 /\ row.secret # 0 /\ row.batch # 0) /\ row.batch <= acctFresh

AcctCallSound(k) ==
  k.step # "done" =>
    /\ k.user \in Users /\ HasFactor(k.row)
    /\ k.step = "insert" => ~k.row.enabled /\ k.row.batch = 0
    /\ k.code # NoCode => k.row.batch # 0

\* The secret of u's row was verified, no other account has its batch, and what is unused let nobody in.
AcctRowSound(u, row) ==
  /\ row.enabled /\ u \notin acctRenewed => row.secret \in acctVerified
  /\ row.batch # 0 => \A v \in Users \ {u} : acct[v].batch # row.batch
  /\ \A c \in row.unused : <<row.batch, c>> \notin acctLogins

\* What a request alone has still to do: make the first account; delete one of several; save a sound row
\* in its own place, with a code that has not been used.
AcctPending(k) ==
  /\ k.step = "insert" /\ k.first => \A u \in Users : ~There(u)
  /\ k.step \in {"save", "delete", "disable"} => There(k.user) /\ acct[k.user].id = k.row.id
  /\ k.step = "delete" => \E v \in Users \ {k.user} : There(v)
  /\ k.step = "save" => /\ AcctRowSound(k.user, k.row)
                        /\ k.code # NoCode => <<k.row.batch, k.code>> \notin acctLogins /\ k.code \notin k.row.unused

AcctAlone == \A r, q \in AcctReqs : r # q => AcctAt(r, "done") \/ AcctAt(q, "done")

AcctCalm ==
  /\ AcctAlone /\ acctFaults = {}
  /\ acctIds # 0 => \E u \in Users : There(u)
  /\ \A u \in Users : AcctRowSound(u, acct[u])
  /\ \A r \in AcctReqs : AcctPending(acctReq[r])

AcctInv ==
  /\ AcctTypeOK
  /\ \A u \in Users : HasFactor(acct[u])
  /\ \A l \in acctLogins : l[1] <= acctFresh
  /\ \A r \in AcctReqs : AcctCallSound(acctReq[r])
  /\ ~acctMet => AcctCalm

\* Who asks for nothing.
LEMMA AcctRests == NoRequest \in AcctCalls /\ NoRequest.step = "done" /\ NoAccount \in Account
<1>1. NoAccount \in Account
  BY AccountsAssumption DEF NoAccount, Account, Roles
<1>2. QED
  BY <1>1 DEF NoRequest, AcctCalls, AcctSteps

\* The steps of a request.
LEMMA AcctSteppings ==
  "insert" \in AcctSteps /\ "save" \in AcctSteps /\ "delete" \in AcctSteps /\ "disable" \in AcctSteps
  BY DEF AcctSteps

\* What a request asks for.
AcctAsk(step, u, row) == [NoRequest EXCEPT !.step = step, !.user = u, !.row = row]
AcctAskFirst(u, row) == [NoRequest EXCEPT !.step = "insert", !.user = u, !.first = TRUE, !.row = row]
AcctAskCode(u, c, row) == [NoRequest EXCEPT !.step = "save", !.user = u, !.code = c, !.row = row]

\* A request that begins, as it is then.
LEMMA AcctAsked ==
  ASSUME NEW step \in AcctSteps, NEW u \in Users, NEW row \in Account
  PROVE  /\ AcctAsk(step, u, row) \in AcctCalls
         /\ AcctAsk(step, u, row).step = step /\ AcctAsk(step, u, row).user = u
         /\ AcctAsk(step, u, row).row = row /\ AcctAsk(step, u, row).code = NoCode /\ ~AcctAsk(step, u, row).first
<1>1. AcctAsk(step, u, row) \in AcctCalls
  BY AcctRests DEF AcctCalls, AcctAsk
<1>2. QED
  BY <1>1 DEF NoRequest, AcctAsk

\* What the setup asks for.
LEMMA AcctAskedFirst ==
  ASSUME NEW u \in Users, NEW row \in Account
  PROVE  /\ AcctAskFirst(u, row) \in AcctCalls
         /\ AcctAskFirst(u, row).step = "insert" /\ AcctAskFirst(u, row).user = u
         /\ AcctAskFirst(u, row).row = row /\ AcctAskFirst(u, row).code = NoCode
<1>1. AcctAskFirst(u, row) \in AcctCalls
  BY AcctRests DEF AcctCalls, AcctSteps, AcctAskFirst
<1>2. QED
  BY <1>1 DEF NoRequest, AcctAskFirst

\* What a login with a recovery code asks for.
LEMMA AcctAskedCode ==
  ASSUME NEW u \in Users, NEW row \in Account, NEW c \in Codes
  PROVE  /\ AcctAskCode(u, c, row) \in AcctCalls
         /\ AcctAskCode(u, c, row).step = "save" /\ AcctAskCode(u, c, row).user = u
         /\ AcctAskCode(u, c, row).row = row /\ AcctAskCode(u, c, row).code = c
<1>1. AcctAskCode(u, c, row) \in AcctCalls
  BY AcctRests DEF AcctCalls, AcctSteps, AcctAskCode
<1>2. QED
  BY <1>1 DEF NoRequest, AcctAskCode

\* At the start there is no account.
LEMMA AcctInvInit == AcctInit => AcctInv
<1>. SUFFICES ASSUME AcctInit PROVE AcctInv
  OBVIOUS
<1>1. AcctTypeOK
  <2>1. acct \in [Users -> Account] /\ acctReq \in [AcctReqs -> AcctCalls]
    BY AcctRests DEF AcctInit
  <2>2. acctIds \in 0 .. MaxAccounts /\ acctFresh \in 0 .. MaxSecrets
    BY AccountsAssumption DEF AcctInit
  <2>3. QED
    BY <2>1, <2>2 DEF AcctInit, AcctTypeOK, AcctCalls
<1>2. \A u \in Users : HasFactor(acct[u]) /\ AcctRowSound(u, acct[u])
  BY DEF AcctInit, HasFactor, AcctRowSound, NoAccount
<1>3. \A r \in AcctReqs : acctReq[r] = NoRequest
  BY DEF AcctInit
<1>4. AcctCalm /\ \A r \in AcctReqs : AcctCallSound(acctReq[r])
  BY <1>2, <1>3, AcctRests DEF AcctCalm, AcctAlone, AcctAt, AcctPending, AcctCallSound, AcctInit
<1>5. QED
  BY <1>1, <1>2, <1>4 DEF AcctInv, AcctInit

\* A step of something else keeps the invariant.
LEMMA AcctInvSame == AcctInv /\ UNCHANGED acctVars => AcctInv'
  BY DEF AcctInv, acctVars, AcctTypeOK, HasFactor, AcctCallSound, AcctCalm, AcctAlone, AcctAt, AcctPending, AcctRowSound, There

\* A request begins: the rows stay, a secret or batch may have been generated, and one verified.
LEMMA AcctBegins ==
  ASSUME AcctInv, NEW r \in AcctReqs, NEW k \in AcctCalls, k.step # "done",
         AcctAt(r, "done"), acctReq' = [acctReq EXCEPT ![r] = k], acctMet' = (acctMet \/ AcctBusy),
         UNCHANGED <<acct, acctIds, acctLogins, acctFaults>>,
         acctFresh' \in 0 .. MaxSecrets, acctFresh <= acctFresh',
         acctVerified' \subseteq 1 .. MaxSecrets, acctVerified \subseteq acctVerified', acctRenewed' \subseteq Users,
         \A u \in acctRenewed \ acctRenewed' : acct[u].secret \in acctVerified',
         AcctCallSound(k)', ~acctMet /\ ~AcctBusy => AcctPending(k)'
  PROVE  AcctInv'
<1>1. \A q \in AcctReqs : acctReq'[q] = IF q = r THEN k ELSE acctReq[q]
  BY DEF AcctInv, AcctTypeOK
<1>2. acctReq' \in [AcctReqs -> AcctCalls] /\ acctMet' \in BOOLEAN
  <2>1. acctReq \in [AcctReqs -> AcctCalls] /\ acctMet \in BOOLEAN /\ AcctBusy \in BOOLEAN
    BY DEF AcctInv, AcctTypeOK, AcctCalls, AcctBusy
  <2>2. QED
    BY <2>1
<1>3. AcctTypeOK'
  BY <1>2 DEF AcctInv, AcctTypeOK, AcctCalls
<1>4. acctFresh \in Nat /\ acctFresh' \in Nat
  BY AccountsAssumption DEF AcctInv, AcctTypeOK
<1>5. \A row \in Account : HasFactor(row) => HasFactor(row)'
  BY <1>4, AccountsAssumption DEF HasFactor, Account
<1>6. (\A u \in Users : HasFactor(acct[u])) /\ \A u \in Users : HasFactor(acct[u])'
  BY <1>5 DEF AcctInv, AcctTypeOK
<1>7. \A l \in acctLogins' : l[1] <= acctFresh'
  <2>1. \A l \in acctLogins : l[1] \in 1 .. MaxSecrets
    BY DEF AcctInv, AcctTypeOK
  <2>2. QED
    BY <1>4, <2>1, AccountsAssumption DEF AcctInv
<1>8. ASSUME NEW q \in AcctReqs
      PROVE  AcctCallSound(acctReq[q])'
  <2>1. CASE q = r
    BY <1>1, <2>1
  <2>2. CASE q # r
    <3>1. acctReq'[q] = acctReq[q] /\ acctReq[q].row \in Account /\ AcctCallSound(acctReq[q])
      BY <1>1, <2>2 DEF AcctInv, AcctTypeOK
    <3>2. QED
      BY <1>5, <3>1 DEF AcctCallSound
  <2>3. QED
    BY <2>1, <2>2
<1>9. ASSUME ~acctMet'
      PROVE  AcctCalm'
  <2>1. ~acctMet /\ ~AcctBusy
    BY <1>9 DEF AcctInv, AcctTypeOK
  <2>2. AcctCalm /\ AcctPending(k)' /\ \A q \in AcctReqs : AcctAt(q, "done")
    BY <2>1 DEF AcctInv, AcctBusy, AcctAt
  <2>3. AcctAlone'
    BY <1>1, <2>2 DEF AcctAlone, AcctAt
  <2>4. \A u \in Users : AcctRowSound(u, acct[u])'
    BY <2>2 DEF AcctCalm, AcctRowSound
  <2>5. \A q \in AcctReqs : AcctPending(acctReq[q])'
    <3>1. ASSUME NEW q \in AcctReqs, q # r
          PROVE  acctReq'[q].step = "done"
      BY <1>1, <2>2, <3>1 DEF AcctAt
    <3>2. QED
      BY <1>1, <2>2, <3>1 DEF AcctPending
  <2>6. QED
    BY <2>2, <2>3, <2>4, <2>5 DEF AcctCalm, There
<1>10. QED
  BY <1>3, <1>6, <1>7, <1>8, <1>9 DEF AcctInv

\* A request ends; alone, it leaves sound rows.
LEMMA AcctEnds ==
  ASSUME AcctInv, NEW r \in AcctReqs, ~AcctAt(r, "done"), AcctDone(r), AcctTypeOK', UNCHANGED acctFresh,
         \A u \in Users : HasFactor(acct[u])', \A l \in acctLogins' : l[1] <= acctFresh,
         ~acctMet => /\ acctFaults' = {} /\ (acctIds' # 0 => \E u \in Users : There(u)')
                     /\ \A u \in Users : AcctRowSound(u, acct[u])'
  PROVE  AcctInv'
<1>1. \A q \in AcctReqs : acctReq'[q] = IF q = r THEN NoRequest ELSE acctReq[q]
  BY DEF AcctInv, AcctTypeOK, AcctDone
<1>2. ASSUME NEW q \in AcctReqs
      PROVE  AcctCallSound(acctReq[q])'
  BY <1>1, AcctRests DEF AcctInv, AcctCallSound, HasFactor
<1>3. ASSUME ~acctMet'
      PROVE  AcctCalm'
  <2>1. ~acctMet
    BY <1>3 DEF AcctDone
  <2>2. \A q \in AcctReqs : acctReq'[q].step = "done"
    BY <1>1, <2>1, AcctRests DEF AcctInv, AcctCalm, AcctAlone, AcctAt
  <2>3. AcctAlone' /\ \A q \in AcctReqs : AcctPending(acctReq[q])'
    BY <2>2 DEF AcctAlone, AcctAt, AcctPending
  <2>4. QED
    BY <2>1, <2>3 DEF AcctCalm
<1>4. QED
  BY <1>2, <1>3 DEF AcctInv

\* Accounts are made, changed and deleted.
LEMMA AcctUserSteps ==
  ASSUME AcctInv, NEW r \in AcctReqs, Setup(r) \/ CreateUser(r) \/ UpdateUser(r) \/ DeleteUser(r) \/ Disable(r)
  PROVE  AcctInv'
<1>1. /\ acctFresh \in 0 .. MaxSecrets /\ acctFresh <= acctFresh /\ acctVerified \subseteq 1 .. MaxSecrets
      /\ acctRenewed \subseteq Users
  BY AccountsAssumption DEF AcctInv, AcctTypeOK
<1>2. ASSUME NEW role \in Roles
      PROVE  /\ [NoAccount EXCEPT !.role = role] \in Account
             /\ ~[NoAccount EXCEPT !.role = role].enabled /\ [NoAccount EXCEPT !.role = role].batch = 0
             /\ HasFactor([NoAccount EXCEPT !.role = role])
  <2>1. [NoAccount EXCEPT !.role = role] \in Account
    BY AcctRests DEF Account
  <2>2. ~[NoAccount EXCEPT !.role = role].enabled /\ [NoAccount EXCEPT !.role = role].batch = 0
    BY DEF NoAccount
  <2>3. 0 <= acctFresh
    BY <1>1
  <2>4. QED
    BY <2>1, <2>2, <2>3 DEF HasFactor
<1>3. CASE Setup(r)
  <2>1. PICK u \in Users :
          /\ AcctAt(r, "done")
          /\ acctReq' = [acctReq EXCEPT ![r] = [NoRequest EXCEPT !.step = "insert", !.user = u, !.first = TRUE,
                                                                 !.row = [NoAccount EXCEPT !.role = "admin"]]]
    BY <1>3 DEF Setup
  <2>2. PICK row \in Account : row = [NoAccount EXCEPT !.role = "admin"] /\ HasFactor(row) /\ ~row.enabled /\ row.batch = 0
    BY <1>2 DEF Roles
  <2>3. PICK k \in AcctCalls :
          /\ k = AcctAskFirst(u, row)
          /\ k.step = "insert" /\ k.user = u /\ k.row = row /\ k.code = NoCode
    BY AcctAskedFirst
  <2>4. AcctCallSound(k)'
    BY <1>3, <2>2, <2>3 DEF Setup, AcctCallSound, HasFactor
  <2>5. AcctPending(k)'
    BY <1>3, <2>3 DEF Setup, AcctPending, There
  <2>6. QED
    BY <1>1, <1>3, <2>1, <2>2, <2>3, <2>4, <2>5, AcctBegins DEF Setup, acctGhosts, AcctAskFirst
<1>4. CASE CreateUser(r)
  <2>1. PICK u \in Users, role \in Roles : AcctBegin(r, "insert", u, [NoAccount EXCEPT !.role = role])
    BY <1>4 DEF CreateUser
  <2>2. PICK row \in Account : row = [NoAccount EXCEPT !.role = role] /\ HasFactor(row) /\ ~row.enabled /\ row.batch = 0
    BY <1>2
  <2>3. PICK k \in AcctCalls :
          /\ k = AcctAsk("insert", u, row)
          /\ k.step = "insert" /\ k.user = u /\ k.row = row /\ k.code = NoCode /\ ~k.first
    BY AcctSteppings, AcctAsked
  <2>4. AcctCallSound(k)'
    BY <1>4, <2>2, <2>3 DEF CreateUser, AcctCallSound, HasFactor
  <2>5. AcctPending(k)'
    BY <2>3 DEF AcctPending
  <2>6. QED
    BY <1>1, <1>4, <2>1, <2>2, <2>3, <2>4, <2>5, AcctBegins DEF CreateUser, AcctBegin, acctGhosts, AcctAsk
<1>5. CASE UpdateUser(r)
  <2>1. PICK u \in Users, role \in Roles : There(u) /\ AcctBegin(r, "save", u, [acct[u] EXCEPT !.role = role])
    BY <1>5 DEF UpdateUser
  <2>2. PICK row \in Account : /\ row = [acct[u] EXCEPT !.role = role]
                               /\ row.id = acct[u].id /\ (row.enabled <=> acct[u].enabled) /\ row.secret = acct[u].secret
                               /\ row.batch = acct[u].batch /\ row.unused = acct[u].unused
    <3>. DEFINE n == [acct[u] EXCEPT !.role = role]
    <3>1. acct[u] \in Account
      BY DEF AcctInv, AcctTypeOK
    <3>2. n \in Account
      BY <3>1 DEF Account
    <3>3. /\ n.id = acct[u].id /\ (n.enabled <=> acct[u].enabled) /\ n.secret = acct[u].secret
          /\ n.batch = acct[u].batch /\ n.unused = acct[u].unused
      BY <3>1 DEF Account
    <3>. HIDE DEF n
    <3>4. \E row \in Account : /\ row = n
                               /\ row.id = acct[u].id /\ (row.enabled <=> acct[u].enabled) /\ row.secret = acct[u].secret
                               /\ row.batch = acct[u].batch /\ row.unused = acct[u].unused
      BY <3>2, <3>3
    <3>5. QED
      BY <3>4 DEF n
  <2>3. PICK k \in AcctCalls :
          /\ k = AcctAsk("save", u, row)
          /\ k.step = "save" /\ k.user = u /\ k.row = row /\ k.code = NoCode /\ ~k.first
    BY AcctSteppings, AcctAsked
  <2>7. UNCHANGED <<acct, acctFresh, acctVerified, acctRenewed, acctLogins>>
    BY <1>5 DEF UpdateUser, acctGhosts
  <2>4. AcctCallSound(k)'
    <3>1. HasFactor(acct[u])
      BY DEF AcctInv
    <3>2. HasFactor(row)'
      BY <2>2, <2>7, <3>1 DEF HasFactor
    <3>3. QED
      BY <2>3, <3>2 DEF AcctCallSound
  <2>5. ~acctMet => AcctPending(k)'
    <3>1. ~acctMet => AcctRowSound(u, acct[u])
      BY DEF AcctInv, AcctCalm
    <3>2. ~acctMet => AcctRowSound(u, row)'
      BY <2>2, <2>7, <3>1 DEF AcctRowSound
    <3>3. There(u)' /\ acct'[u].id = row.id
      BY <2>1, <2>2, <2>7 DEF There
    <3>4. QED
      BY <2>3, <3>2, <3>3 DEF AcctPending
  <2>6. QED
    BY <1>1, <1>5, <2>1, <2>2, <2>3, <2>4, <2>5, AcctBegins DEF UpdateUser, AcctBegin, acctGhosts, AcctAsk
<1>6. CASE DeleteUser(r) \/ Disable(r)
  <2>1. PICK u \in Users, step \in {"delete", "disable"} :
          /\ There(u) /\ AcctBegin(r, step, u, acct[u]) /\ acct[u] \in Account
          /\ step = "delete" => \E v \in Users \ {u} : There(v)
    BY <1>6 DEF DeleteUser, Disable, Admin, AcctInv, AcctTypeOK
  <2>2. PICK k \in AcctCalls :
          /\ k = AcctAsk(step, u, acct[u])
          /\ k.step = step /\ k.user = u /\ k.row = acct[u] /\ k.code = NoCode /\ ~k.first
    BY <2>1, AcctSteppings, AcctAsked
  <2>3. UNCHANGED <<acct, acctIds, acctFresh, acctGhosts>>
    BY <1>6 DEF DeleteUser, Disable
  <2>4. AcctCallSound(k)'
    BY <2>1, <2>2, <2>3 DEF AcctInv, AcctCallSound, HasFactor
  <2>5. AcctPending(k)'
    BY <2>1, <2>2, <2>3 DEF AcctPending, There
  <2>6. QED
    BY <1>1, <2>1, <2>2, <2>3, <2>4, <2>5, AcctBegins DEF AcctAsk, AcctBegin, acctGhosts
<1>7. QED
  BY <1>3, <1>4, <1>5, <1>6

\* A second factor is set up, or stands in for the authenticator.
LEMMA AcctFactorSteps ==
  ASSUME AcctInv, NEW r \in AcctReqs, GenerateSecret(r) \/ VerifyAndEnable(r) \/ ValidateLogin(r)
  PROVE  AcctInv'
<1>1. /\ acctFresh \in 0 .. MaxSecrets /\ acctFresh <= acctFresh /\ acctVerified \subseteq 1 .. MaxSecrets
      /\ acctRenewed \subseteq Users
      /\ acctFresh < MaxSecrets => acctFresh + 1 \in 1 .. MaxSecrets /\ acctFresh <= acctFresh + 1
  BY AccountsAssumption DEF AcctInv, AcctTypeOK
<1>2. ASSUME NEW u \in Users
      PROVE  acct[u] \in Account /\ HasFactor(acct[u])
  BY DEF AcctInv, AcctTypeOK
<1>3. CASE GenerateSecret(r)
  <2>1. PICK u \in Users :
          /\ There(u) /\ AcctBegin(r, "save", u, [acct[u] EXCEPT !.secret = acctFresh + 1])
          /\ acctRenewed' = IF acct[u].enabled THEN acctRenewed \cup {u} ELSE acctRenewed
    BY <1>3 DEF GenerateSecret
  <2>2. acctFresh' = acctFresh + 1 /\ acctFresh < MaxSecrets /\ UNCHANGED <<acct, acctIds, acctVerified, acctLogins, acctFaults>>
    BY <1>3 DEF GenerateSecret
  <2>3. PICK row \in Account : /\ row = [acct[u] EXCEPT !.secret = acctFresh + 1]
                               /\ row.id = acct[u].id /\ (row.enabled <=> acct[u].enabled) /\ row.secret = acctFresh + 1
                               /\ row.batch = acct[u].batch /\ row.unused = acct[u].unused
    <3>. DEFINE n == [acct[u] EXCEPT !.secret = acctFresh + 1]
    <3>1. n \in Account
      BY <1>1, <1>2, <2>2 DEF Account
    <3>2. n.id = acct[u].id /\ (n.enabled <=> acct[u].enabled) /\ n.secret = acctFresh + 1
          /\ n.batch = acct[u].batch /\ n.unused = acct[u].unused
      BY <1>2 DEF Account
    <3>. HIDE DEF n
    <3>3. \E row \in Account : /\ row = n
                               /\ row.id = acct[u].id /\ (row.enabled <=> acct[u].enabled) /\ row.secret = acctFresh + 1
                               /\ row.batch = acct[u].batch /\ row.unused = acct[u].unused
      BY <3>1, <3>2
    <3>4. QED
      BY <3>3 DEF n
  <2>4. PICK k \in AcctCalls :
          /\ k = AcctAsk("save", u, row)
          /\ k.step = "save" /\ k.user = u /\ k.row = row /\ k.code = NoCode /\ ~k.first
    BY AcctSteppings, AcctAsked
  <2>5. AcctCallSound(k)'
    <3>1. row.secret # 0 /\ (row.enabled => row.id # 0 /\ row.batch # 0) /\ row.batch <= acctFresh + 1
      BY <1>1, <1>2, <2>3, AccountsAssumption DEF HasFactor, Account
    <3>2. QED
      BY <2>2, <2>4, <3>1 DEF AcctCallSound, HasFactor
  <2>6. ~acctMet => AcctPending(k)'
    <3>1. ~acctMet => AcctRowSound(u, acct[u])
      BY DEF AcctInv, AcctCalm
    <3>2. row.enabled => u \in acctRenewed'
      BY <2>1, <2>3
    <3>3. ~acctMet => AcctRowSound(u, row)'
      BY <2>2, <2>3, <3>1, <3>2 DEF AcctRowSound
    <3>4. There(u)' /\ acct'[u].id = row.id
      BY <2>1, <2>2, <2>3 DEF There
    <3>5. QED
      BY <2>4, <3>3, <3>4 DEF AcctPending
  <2>7. acctRenewed \subseteq acctRenewed' /\ acctRenewed' \subseteq Users
    BY <1>1, <2>1
  <2>8. acctFresh' \in 0 .. MaxSecrets /\ acctFresh <= acctFresh'
    BY <1>1, <2>2
  <2>9. QED
    BY <1>1, <2>1, <2>2, <2>3, <2>4, <2>5, <2>6, <2>7, <2>8, AcctBegins DEF AcctAsk, AcctBegin
<1>4. CASE VerifyAndEnable(r)
  <2>1. PICK u \in Users :
          /\ There(u) /\ acct[u].secret # 0
          /\ AcctBegin(r, "save", u, [acct[u] EXCEPT !.enabled = TRUE, !.batch = acctFresh + 1, !.unused = Codes])
          /\ acctVerified' = acctVerified \cup {acct[u].secret} /\ acctRenewed' = acctRenewed \ {u}
    BY <1>4 DEF VerifyAndEnable
  <2>2. acctFresh' = acctFresh + 1 /\ acctFresh < MaxSecrets /\ UNCHANGED <<acct, acctIds, acctLogins, acctFaults>>
    BY <1>4 DEF VerifyAndEnable
  <2>3. PICK row \in Account : /\ row = [acct[u] EXCEPT !.enabled = TRUE, !.batch = acctFresh + 1, !.unused = Codes]
                               /\ row.id = acct[u].id /\ row.enabled /\ row.secret = acct[u].secret
                               /\ row.batch = acctFresh + 1 /\ row.unused = Codes
    <3>. DEFINE n == [acct[u] EXCEPT !.enabled = TRUE, !.batch = acctFresh + 1, !.unused = Codes]
    <3>1. n \in Account
      <4>1. acctFresh + 1 \in 0 .. MaxSecrets /\ acct[u] \in Account
        BY <1>1, <1>2, <2>2, AccountsAssumption
      <4>2. QED
        BY <4>1 DEF Account
    <3>2. n.id = acct[u].id /\ n.enabled /\ n.secret = acct[u].secret /\ n.batch = acctFresh + 1 /\ n.unused = Codes
      BY <1>2 DEF Account
    <3>. HIDE DEF n
    <3>3. \E row \in Account : /\ row = n /\ row.id = acct[u].id /\ row.enabled /\ row.secret = acct[u].secret
                               /\ row.batch = acctFresh + 1 /\ row.unused = Codes
      BY <3>1, <3>2
    <3>4. QED
      BY <3>3 DEF n
  <2>4. PICK k \in AcctCalls :
          /\ k = AcctAsk("save", u, row)
          /\ k.step = "save" /\ k.user = u /\ k.row = row /\ k.code = NoCode /\ ~k.first
    BY AcctSteppings, AcctAsked
  <2>5. AcctCallSound(k)'
    <3>1. row.id # 0 /\ row.secret # 0 /\ row.batch # 0 /\ row.batch <= acctFresh + 1
      BY <1>1, <2>1, <2>3 DEF There
    <3>2. QED
      BY <2>2, <2>4, <3>1 DEF AcctCallSound, HasFactor
  <2>6. ~acctMet => AcctPending(k)'
    <3>1. \A v \in Users : acct[v].batch # acctFresh + 1
      BY <1>1, <1>2, AccountsAssumption DEF HasFactor, Account
    <3>2. \A c \in Codes : <<acctFresh + 1, c>> \notin acctLogins
      <4>1. acctFresh + 1 > acctFresh
        BY <1>1
      <4>2. \A c \in Codes : <<acctFresh + 1, c>>[1] = acctFresh + 1
        OBVIOUS
      <4>3. \A l \in acctLogins : l[1] <= acctFresh /\ l[1] \in 1 .. MaxSecrets
        BY DEF AcctInv, AcctTypeOK
      <4>4. \A l \in acctLogins : l[1] # acctFresh + 1
        BY <1>1, <4>3
      <4>5. QED
        BY <4>2, <4>4
    <3>3. AcctRowSound(u, row)'
      BY <2>1, <2>2, <2>3, <3>1, <3>2 DEF AcctRowSound
    <3>4. QED
      BY <2>1, <2>2, <2>3, <2>4, <3>3 DEF AcctPending, There
  <2>7. acct[u].secret \in 1 .. MaxSecrets
    BY <1>2, <2>1, AccountsAssumption DEF Account
  <2>8. acctFresh' \in 0 .. MaxSecrets /\ acctFresh <= acctFresh'
    BY <1>1, <2>2
  <2>9. /\ acctVerified' \subseteq 1 .. MaxSecrets /\ acctVerified \subseteq acctVerified' /\ acctRenewed' \subseteq Users
        /\ \A v \in acctRenewed \ acctRenewed' : acct[v].secret \in acctVerified'
    BY <1>1, <2>1, <2>7
  <2>10. QED
    BY <2>1, <2>2, <2>3, <2>4, <2>5, <2>6, <2>8, <2>9, AcctBegins DEF AcctAsk, AcctBegin
<1>5. CASE ValidateLogin(r)
  <2>1. PICK u \in Users : \E c \in acct[u].unused :
          /\ acct[u].enabled /\ AcctAt(r, "done") /\ acctMet' = (acctMet \/ AcctBusy)
          /\ acctReq' = [acctReq EXCEPT ![r] = [NoRequest EXCEPT !.step = "save", !.user = u, !.code = c,
                                                                 !.row = [acct[u] EXCEPT !.unused = @ \ {c}]]]
    BY <1>5 DEF ValidateLogin
  <2>2. PICK c \in acct[u].unused :
          /\ acct[u].enabled /\ AcctAt(r, "done") /\ acctMet' = (acctMet \/ AcctBusy)
          /\ acctReq' = [acctReq EXCEPT ![r] = [NoRequest EXCEPT !.step = "save", !.user = u, !.code = c,
                                                                 !.row = [acct[u] EXCEPT !.unused = @ \ {c}]]]
    BY <2>1
  <2>3. UNCHANGED <<acct, acctIds, acctFresh, acctVerified, acctRenewed, acctLogins, acctFaults>>
    BY <1>5 DEF ValidateLogin, acctGhosts
  <2>4. PICK row \in Account : /\ row = [acct[u] EXCEPT !.unused = @ \ {c}]
                               /\ row.id = acct[u].id /\ (row.enabled <=> acct[u].enabled) /\ row.secret = acct[u].secret
                               /\ row.batch = acct[u].batch /\ row.unused = acct[u].unused \ {c}
    <3>. DEFINE n == [acct[u] EXCEPT !.unused = @ \ {c}]
    <3>1. n \in Account
      BY <1>2 DEF Account
    <3>2. /\ n.id = acct[u].id /\ (n.enabled <=> acct[u].enabled) /\ n.secret = acct[u].secret
          /\ n.batch = acct[u].batch /\ n.unused = acct[u].unused \ {c}
      BY <1>2 DEF Account
    <3>. HIDE DEF n
    <3>3. \E row \in Account : /\ row = n
                               /\ row.id = acct[u].id /\ (row.enabled <=> acct[u].enabled) /\ row.secret = acct[u].secret
                               /\ row.batch = acct[u].batch /\ row.unused = acct[u].unused \ {c}
      BY <3>1, <3>2
    <3>4. QED
      BY <3>3 DEF n
  <2>5. c \in Codes
    BY <1>2 DEF Account
  <2>6. PICK k \in AcctCalls :
          /\ k = AcctAskCode(u, c, row)
          /\ k.step = "save" /\ k.user = u /\ k.row = row /\ k.code = c
    BY <2>5, AcctAskedCode
  <2>7. AcctCallSound(k)'
    <3>1. HasFactor(row)'
      BY <1>2, <2>3, <2>4 DEF HasFactor
    <3>2. row.batch # 0
      BY <1>2, <2>2, <2>4 DEF HasFactor
    <3>3. QED
      BY <2>6, <3>1, <3>2 DEF AcctCallSound
  <2>8. ~acctMet => AcctPending(k)'
    <3>1. There(u)' /\ acct'[u].id = row.id
      BY <1>2, <2>2, <2>3, <2>4 DEF HasFactor, There
    <3>2. ~acctMet => AcctRowSound(u, acct[u])
      BY DEF AcctInv, AcctCalm
    <3>3. ~acctMet => AcctRowSound(u, row)'
      BY <2>3, <2>4, <3>2 DEF AcctRowSound
    <3>4. ~acctMet => <<row.batch, c>> \notin acctLogins' /\ c \notin row.unused
      BY <2>2, <2>3, <2>4, <3>2 DEF AcctRowSound
    <3>5. QED
      BY <2>6, <3>1, <3>3, <3>4 DEF AcctPending
  <2>9. QED
    BY <1>1, <2>2, <2>3, <2>4, <2>6, <2>7, <2>8, AcctBegins DEF AcctAskCode
<1>6. QED
  BY <1>3, <1>4, <1>5

\* A new account's row is inserted, unless the name is taken.
LEMMA AcctInserts == ASSUME AcctInv, NEW r \in AcctReqs, InsertUser(r) PROVE AcctInv'
<1>0. PICK k \in AcctCalls : k = acctReq[r]
  BY DEF AcctInv, AcctTypeOK, AcctCalls
<1>1. /\ ~AcctAt(r, "done") /\ AcctDone(r) /\ UNCHANGED <<acctFresh, acctVerified, acctRenewed, acctLogins>>
      /\ k.step = "insert" /\ k.user \in Users /\ k.row \in Account /\ ~k.row.enabled /\ k.row.batch = 0
  BY <1>0 DEF InsertUser, AcctAt, AcctInv, AcctCalls, AcctCallSound
<1>2. acctReq' \in [AcctReqs -> AcctCalls] /\ acctMet' \in BOOLEAN
  BY <1>1, AcctRests DEF AcctDone, AcctInv, AcctTypeOK, AcctCalls
<1>3. CASE There(k.user)
  <2>1. UNCHANGED <<acct, acctIds, acctFaults>>
    BY <1>0, <1>3 DEF InsertUser
  <2>2. AcctTypeOK' /\ (\A u \in Users : HasFactor(acct[u])') /\ \A l \in acctLogins' : l[1] <= acctFresh
    BY <1>1, <1>2, <2>1 DEF AcctInv, AcctTypeOK, AcctCalls, HasFactor
  <2>3. ~acctMet => /\ acctFaults' = {} /\ (acctIds' # 0 => \E u \in Users : There(u)')
                    /\ \A u \in Users : AcctRowSound(u, acct[u])'
    BY <1>1, <2>1 DEF AcctInv, AcctCalm, There, AcctRowSound
  <2>4. QED
    BY <1>1, <2>2, <2>3, AcctEnds
<1>4. CASE ~There(k.user)
  <2>1. /\ acctIds < MaxAccounts /\ acctIds' = acctIds + 1
        /\ acct' = [acct EXCEPT ![k.user] = [k.row EXCEPT !.id = acctIds + 1]]
        /\ acctFaults' = acctFaults \cup {f \in {"second"} : k.first /\ \E u \in Users : There(u)}
    BY <1>0, <1>4 DEF InsertUser
  <2>2. acctIds + 1 \in 0 .. MaxAccounts /\ acctIds + 1 # 0
    BY <2>1, AccountsAssumption DEF AcctInv, AcctTypeOK
  <2>3. PICK row \in Account : row = [k.row EXCEPT !.id = acctIds + 1] /\ row.id # 0 /\ ~row.enabled /\ row.batch = 0
    <3>. DEFINE n == [k.row EXCEPT !.id = acctIds + 1]
    <3>1. n \in Account
      BY <1>1, <2>2 DEF Account
    <3>2. n.id # 0 /\ ~n.enabled /\ n.batch = 0
      BY <1>1, <2>2 DEF Account
    <3>. HIDE DEF n
    <3>3. \E row \in Account : row = n /\ row.id # 0 /\ ~row.enabled /\ row.batch = 0
      BY <3>1, <3>2
    <3>4. QED
      BY <3>3 DEF n
  <2>4. \A u \in Users : acct'[u] = IF u = k.user THEN row ELSE acct[u]
    BY <2>1, <2>3 DEF AcctInv, AcctTypeOK
  <2>5. AcctTypeOK'
    BY <1>1, <1>2, <2>1, <2>2, <2>3 DEF AcctInv, AcctTypeOK, AcctCalls
  <2>6. \A u \in Users : HasFactor(acct[u])'
    <3>1. HasFactor(row)
      BY <2>3, AccountsAssumption DEF HasFactor, AcctInv, AcctTypeOK
    <3>2. QED
      BY <1>1, <2>4, <3>1 DEF AcctInv, HasFactor
  <2>7. \A l \in acctLogins' : l[1] <= acctFresh
    BY <1>1 DEF AcctInv
  <2>8. ASSUME ~acctMet
        PROVE  /\ acctFaults' = {} /\ (acctIds' # 0 => \E u \in Users : There(u)')
               /\ \A u \in Users : AcctRowSound(u, acct[u])'
    <3>1. AcctCalm /\ AcctPending(k)
      BY <1>0, <2>8 DEF AcctInv, AcctCalm
    <3>2. acctFaults' = {}
      <4>1. ~(k.first /\ \E u \in Users : There(u))
        BY <1>1, <3>1 DEF AcctPending
      <4>2. {f \in {"second"} : k.first /\ \E u \in Users : There(u)} = {}
        BY <4>1
      <4>3. QED
        BY <2>1, <3>1, <4>2 DEF AcctCalm
    <3>3. There(k.user)'
      BY <1>1, <2>3, <2>4 DEF There
    <3>4. \A l \in acctLogins : l[1] # 0
      BY DEF AcctInv, AcctTypeOK
    <3>5. AcctRowSound(k.user, row)'
      BY <1>1, <2>3, <3>4 DEF AcctRowSound
    <3>6. ASSUME NEW u \in Users, u # k.user
          PROVE  AcctRowSound(u, acct[u])'
      <4>1. AcctRowSound(u, acct[u]) /\ acct'[u] = acct[u]
        BY <2>4, <3>1, <3>6 DEF AcctCalm
      <4>2. \A v \in Users : acct'[v].batch = acct[v].batch \/ acct'[v].batch = 0
        BY <2>3, <2>4
      <4>3. QED
        BY <1>1, <4>1, <4>2 DEF AcctRowSound
    <3>7. QED
      BY <1>1, <2>4, <3>2, <3>3, <3>5, <3>6
  <2>9. QED
    BY <1>1, <2>5, <2>6, <2>7, <2>8, AcctEnds
<1>5. QED
  BY <1>3, <1>4

\* An account's row goes, or its columns are cleared.
LEMMA AcctClears == ASSUME AcctInv, NEW r \in AcctReqs, RemoveUser(r) \/ DisableColumns(r) PROVE AcctInv'
<1>0. PICK k \in AcctCalls, u \in Users : k = acctReq[r] /\ u = k.user
  BY DEF RemoveUser, DisableColumns, AcctAt, AcctInv, AcctTypeOK, AcctCalls, AcctCallSound
<1>1. /\ ~AcctAt(r, "done") /\ AcctDone(r) /\ UNCHANGED <<acctIds, acctFresh, acctVerified, acctLogins, acctFaults>>
      /\ k.step \in {"delete", "disable"} /\ acct[u] \in Account
  BY <1>0 DEF RemoveUser, DisableColumns, AcctAt, AcctInv, AcctTypeOK, AcctCallSound, acctGhosts
<1>2. acctReq' \in [AcctReqs -> AcctCalls] /\ acctMet' \in BOOLEAN
  BY <1>1, AcctRests DEF AcctDone, AcctInv, AcctTypeOK, AcctCalls
<1>. DEFINE cleared == [acct[u] EXCEPT !.secret = 0, !.enabled = FALSE, !.batch = 0, !.unused = {}]
<1>3. PICK row \in Account : /\ ~row.enabled /\ row.batch = 0 /\ row.unused = {}
                             /\ k.step = "disable" => row.id = acct[u].id
                             /\ row = IF k.step = "delete" THEN NoAccount ELSE cleared
  <2>1. NoAccount \in Account /\ ~NoAccount.enabled /\ NoAccount.batch = 0 /\ NoAccount.unused = {}
    BY AcctRests DEF NoAccount
  <2>2. cleared \in Account /\ ~cleared.enabled /\ cleared.batch = 0 /\ cleared.unused = {} /\ cleared.id = acct[u].id
    <3>1. 0 \in 0 .. MaxSecrets /\ {} \in SUBSET Codes /\ FALSE \in BOOLEAN
      BY AccountsAssumption
    <3>2. cleared \in Account
      BY <1>1, <3>1 DEF Account
    <3>3. QED
      BY <1>1, <3>2 DEF Account
  <2>. HIDE DEF cleared
  <2>3. QED
    BY <2>1, <2>2
<1>4. /\ acct' = (IF acct[u].id = k.row.id THEN [acct EXCEPT ![u] = row] ELSE acct)
      /\ acctRenewed' = acctRenewed \/ (k.step = "disable" /\ acctRenewed' = acctRenewed \ {u})
  <2>1. CASE RemoveUser(r)
    BY <1>0, <1>3, <2>1 DEF RemoveUser, acctGhosts, AcctAt
  <2>2. CASE DisableColumns(r)
    <3>1. [acct EXCEPT ![u].secret = 0, ![u].enabled = FALSE, ![u].batch = 0, ![u].unused = {}] = [acct EXCEPT ![u] = cleared]
      BY <1>1 DEF AcctInv, AcctTypeOK
    <3>2. row = cleared
      BY <1>0, <1>3, <2>2 DEF DisableColumns, AcctAt
    <3>. HIDE DEF cleared
    <3>3. QED
      BY <1>0, <2>2, <3>1, <3>2 DEF DisableColumns, AcctAt
  <2>3. QED
    BY <2>1, <2>2
<1>. HIDE DEF cleared
<1>5. AcctTypeOK'
  BY <1>1, <1>2, <1>3, <1>4 DEF AcctInv, AcctTypeOK, AcctCalls
<1>6. \A v \in Users : acct'[v] = IF v = u /\ acct[u].id = k.row.id THEN row ELSE acct[v]
  BY <1>4 DEF AcctInv, AcctTypeOK
<1>7. \A v \in Users : HasFactor(acct[v])'
  <2>1. HasFactor(row)
    BY <1>3, AccountsAssumption DEF HasFactor, AcctInv, AcctTypeOK
  <2>2. QED
    BY <1>1, <1>6, <2>1 DEF AcctInv, HasFactor
<1>8. ASSUME ~acctMet
      PROVE  /\ acctFaults' = {} /\ (acctIds' # 0 => \E v \in Users : There(v)')
             /\ \A v \in Users : AcctRowSound(v, acct[v])'
  <2>1. AcctCalm /\ AcctPending(k)
    BY <1>0, <1>8 DEF AcctInv, AcctCalm
  <2>2. acct[u].id = k.row.id /\ acct[u].id # 0
    BY <1>0, <1>1, <2>1 DEF AcctPending, There
  <2>3. \E v \in Users : There(v)'
    <3>1. CASE k.step = "delete"
      BY <1>0, <1>6, <2>1, <3>1 DEF AcctPending, There
    <3>2. CASE k.step = "disable"
      BY <1>1, <1>3, <1>6, <2>2, <3>2 DEF There
    <3>3. QED
      BY <1>1, <3>1, <3>2
  <2>4. ASSUME NEW v \in Users
        PROVE  AcctRowSound(v, acct[v])'
    <3>1. CASE v = u
      BY <1>3, <1>6, <2>2, <3>1 DEF AcctRowSound
    <3>2. CASE v # u
      <4>1. AcctRowSound(v, acct[v]) /\ acct'[v] = acct[v] /\ (v \in acctRenewed' <=> v \in acctRenewed)
        BY <1>4, <1>6, <2>1, <3>2 DEF AcctCalm
      <4>2. \A w \in Users : acct'[w].batch = acct[w].batch \/ acct'[w].batch = 0
        BY <1>3, <1>6
      <4>3. QED
        BY <1>1, <4>1, <4>2 DEF AcctRowSound
    <3>3. QED
      BY <3>1, <3>2
  <2>5. QED
    BY <1>1, <2>1, <2>3, <2>4 DEF AcctCalm
<1>9. QED
  BY <1>1, <1>5, <1>7, <1>8, AcctEnds DEF AcctInv

\* A row is saved, and the recovery code that it no longer has lets its owner in.
LEMMA AcctSaves == ASSUME AcctInv, NEW r \in AcctReqs, SaveAccount(r) PROVE AcctInv'
<1>0. PICK k \in AcctCalls, u \in Users : k = acctReq[r] /\ u = k.user
  BY DEF SaveAccount, AcctAt, AcctInv, AcctTypeOK, AcctCalls, AcctCallSound
<1>. DEFINE use == <<k.row.batch, k.code>>
<1>1. /\ ~AcctAt(r, "done") /\ AcctDone(r) /\ UNCHANGED <<acctIds, acctFresh, acctVerified, acctRenewed>>
      /\ k.step = "save" /\ k.row \in Account /\ HasFactor(k.row)
      /\ k.code \in Codes \cup {NoCode} /\ (k.code # NoCode => k.row.batch # 0)
  BY <1>0 DEF SaveAccount, AcctAt, AcctInv, AcctCalls, AcctCallSound
<1>2. acctReq' \in [AcctReqs -> AcctCalls] /\ acctMet' \in BOOLEAN
  BY <1>1, AcctRests DEF AcctDone, AcctInv, AcctTypeOK, AcctCalls
<1>3. CASE acct[u].id \notin {0, k.row.id}
  <2>1. UNCHANGED <<acct, acctLogins, acctFaults>>
    BY <1>0, <1>3 DEF SaveAccount
  <2>2. AcctTypeOK' /\ (\A v \in Users : HasFactor(acct[v])') /\ \A l \in acctLogins' : l[1] <= acctFresh
    BY <1>1, <1>2, <2>1 DEF AcctInv, AcctTypeOK, AcctCalls, HasFactor
  <2>3. ~acctMet => /\ acctFaults' = {} /\ (acctIds' # 0 => \E v \in Users : There(v)')
                    /\ \A v \in Users : AcctRowSound(v, acct[v])'
    BY <1>1, <2>1 DEF AcctInv, AcctCalm, There, AcctRowSound
  <2>4. QED
    BY <1>1, <2>2, <2>3, AcctEnds
<1>4. CASE acct[u].id \in {0, k.row.id}
  <2>1. /\ acct' = [acct EXCEPT ![u] = k.row]
        /\ \/ k.code = NoCode /\ UNCHANGED <<acctLogins, acctFaults>>
           \/ /\ k.code # NoCode /\ acctLogins' = acctLogins \cup {use}
              /\ acctFaults' = acctFaults \cup {f \in {"reused"} : use \in acctLogins}
    BY <1>0, <1>4 DEF SaveAccount
  <2>2. k.code # NoCode => use \in (1 .. MaxSecrets) \X Codes /\ use[1] <= acctFresh /\ use[1] = k.row.batch
    BY <1>1, AccountsAssumption DEF Account, HasFactor
  <2>3. acctLogins' \subseteq (1 .. MaxSecrets) \X Codes /\ \A l \in acctLogins' : l[1] <= acctFresh
    BY <2>1, <2>2 DEF AcctInv, AcctTypeOK
  <2>4. acctFaults' \subseteq {"reused", "second"}
    BY <2>1 DEF AcctInv, AcctTypeOK
  <2>5. AcctTypeOK'
    BY <1>1, <1>2, <2>1, <2>3, <2>4 DEF AcctInv, AcctTypeOK, AcctCalls
  <2>6. \A v \in Users : acct'[v] = IF v = u THEN k.row ELSE acct[v]
    BY <2>1 DEF AcctInv, AcctTypeOK
  <2>7. \A v \in Users : HasFactor(acct[v])'
    BY <1>1, <2>6 DEF AcctInv, HasFactor
  <2>8. ASSUME ~acctMet
        PROVE  /\ acctFaults' = {} /\ (acctIds' # 0 => \E v \in Users : There(v)')
               /\ \A v \in Users : AcctRowSound(v, acct[v])'
    <3>1. AcctCalm /\ AcctPending(k)
      BY <1>0, <2>8 DEF AcctInv, AcctCalm
    <3>2. /\ There(u) /\ acct[u].id = k.row.id /\ AcctRowSound(u, k.row)
          /\ k.code # NoCode => use \notin acctLogins /\ k.code \notin k.row.unused
      BY <1>0, <1>1, <3>1 DEF AcctPending
    <3>3. acctFaults' = {}
      BY <2>1, <3>1, <3>2 DEF AcctCalm
    <3>4. There(u)'
      BY <1>1, <2>6, <3>2 DEF There
    <3>5. AcctRowSound(u, k.row)'
      BY <1>1, <2>1, <2>6, <3>2 DEF AcctRowSound
    <3>6. ASSUME NEW v \in Users, v # u
          PROVE  AcctRowSound(v, acct[v])'
      <4>1. AcctRowSound(v, acct[v]) /\ acct'[v] = acct[v] /\ acct'[u] = k.row
        BY <1>1, <2>6, <3>1, <3>6 DEF AcctCalm
      <4>2. k.row.batch # 0 => acct[v].batch # k.row.batch
        BY <3>2, <3>6 DEF AcctRowSound
      <4>3. \A c : k.code # NoCode => <<acct[v].batch, c>> # use
        BY <1>1, <4>2
      <4>4. QED
        BY <1>1, <2>1, <2>6, <3>6, <4>1, <4>2, <4>3 DEF AcctRowSound
    <3>7. QED
      BY <1>1, <2>6, <3>3, <3>4, <3>5, <3>6
  <2>9. QED
    BY <1>1, <2>3, <2>5, <2>7, <2>8, AcctEnds
<1>5. QED
  BY <1>3, <1>4

\* Every step of the accounts keeps the invariant.
LEMMA AcctInvStep == ASSUME AcctInv, AcctNext PROVE AcctInv'
<1>1. CASE AcctPanelDies
  <2>1. acctReq' \in [AcctReqs -> AcctCalls] /\ \A r \in AcctReqs : AcctCallSound(acctReq[r])'
    BY <1>1, AcctRests DEF AcctPanelDies, AcctCallSound
  <2>2. QED
    BY <1>1, <2>1 DEF AcctPanelDies, AcctInv, AcctTypeOK, AcctCalls, HasFactor, acctGhosts
<1>2. QED
  BY <1>1, AcctUserSteps, AcctFactorSteps, AcctInserts, AcctClears, AcctSaves DEF AcctNext, AcctRequest

\* The invariant is enough for what the run checks.
LEMMA AcctInvSound == AcctInv => AcctTypeOK /\ AccountsSound
  BY DEF AcctInv, AcctCalm, AccountsSound, HasFactor, AcctRowSound

-----------------------------------------------------------------------------
(* The upstreams and routes of hosts.                                      *)

PartRows == [there : BOOLEAN, ups : Seq(PartIdSet), routes : [RoutePaths -> [up : {0} \cup PartIdSet, pos : Nat]]]
PartSteps == {"done", "clone", "save", "remap", "toggle"}
PartCalls == [step : PartSteps, h : PartHosts \cup {"none"}, old : Seq(PartIdSet), n : Nat, row : PartRows, live : BOOLEAN]

\* An id is in a row's list, or one of its routes leads to it.
Holds(row, i) == i \in Range(row.ups) \/ \E p \in RoutePaths : row.routes[p].up = i

\* It is in a host's row, or a request will write it there.
Keeps(k, h, i) == k.h = h /\ k.step \in {"save", "remap", "toggle"} /\ (i \in Range(k.old) \/ Holds(k.row, i))
Owns(h, i) == Holds(partHost[h], i) \/ \E r \in PartReqs : Keeps(partReq[r], h, i)

\* No id is in two hosts, and those that are somewhere have been given.
OneOwner ==
  \A i \in PartIdSet : /\ \A h \in PartHosts : Owns(h, i) => i <= partIds
                       /\ \A h, k \in PartHosts : Owns(h, i) /\ Owns(k, i) => h = k

UpsDiffer(ups) == \A i, j \in DOMAIN ups : ups[i] = ups[j] => i = j
InPlace(ups, routes) ==
  \A p \in RoutePaths : routes[p].pos # 0 => routes[p].pos \in DOMAIN ups /\ routes[p].up = ups[routes[p].pos]

\* What a request alone still has to do: its host is there; the list it deleted was the one the routes
\* lead into, and the one it has saved is the host's.
PartPending(k) ==
  /\ k.step \in {"save", "remap", "toggle"} => partHost[k.h].there /\ k.live
  /\ k.step \in {"save", "remap"} => UpsDiffer(k.old) /\ (k.h \notin partCut => InPlace(k.old, partHost[k.h].routes))
  /\ k.step = "save" => partHost[k.h].ups = <<>>
  /\ k.step = "remap" => k.row.ups = partHost[k.h].ups
  /\ k.step = "toggle" => k.row = partHost[k.h]

PartReplaces(h) == \E r \in PartReqs : partReq[r].h = h /\ partReq[r].step \in {"save", "remap"}

PartCalm ==
  /\ \A r, q \in PartReqs : r # q => PartAt(r, "done") \/ PartAt(q, "done")
  /\ \A h \in PartHosts : UpsDiffer(partHost[h].ups)
  /\ \A h \in PartHosts \ partCut : ~PartReplaces(h) => InPlace(partHost[h].ups, partHost[h].routes)
  /\ \A r \in PartReqs : PartPending(partReq[r])

PartRowsOK ==
  /\ partHost \in [PartHosts -> PartRows] /\ partReq \in [PartReqs -> PartCalls]
  /\ \A r \in PartReqs : partReq[r].step # "done" => partReq[r].h \in PartHosts
  /\ partIds \in 0 .. MaxParts /\ partMet \in BOOLEAN /\ partCut \subseteq PartHosts

PartInv == PartRowsOK /\ OneOwner /\ (~partMet => PartCalm)

Route == [up : {0} \cup PartIdSet, pos : Nat]

\* Who asks for nothing, and a host that is not there.
LEMMA PartRests ==
  /\ NoParts \in PartRows /\ NoParts.ups = <<>> /\ \A p \in RoutePaths : NoParts.routes[p].up = 0 /\ NoParts.routes[p].pos = 0
  /\ PartDone \in PartCalls /\ PartDone.step = "done"
<1>1. NoRoute \in Route /\ NoRoute.up = 0 /\ NoRoute.pos = 0
  BY DEF NoRoute, Route
<1>2. NoParts \in PartRows
  BY <1>1 DEF NoParts, PartRows, Route
<1>3. PartDone \in PartCalls /\ PartDone.step = "done"
  BY <1>2 DEF PartDone, PartCalls, PartSteps
<1>4. QED
  BY <1>1, <1>2, <1>3 DEF NoParts

\* The numbers.
LEMMA PartNumbers == PartRowsOK => partIds \in Nat /\ MaxParts \in Nat /\ \A i \in PartIdSet : i \in Nat /\ i # 0
  BY PartsAssumption DEF PartRowsOK, PartIdSet

\* New ids differ from each other and from those given before.
LEMMA FreshProperties ==
  ASSUME PartRowsOK, NEW n \in Nat, Give(n)
  PROVE  /\ Fresh(n) \in Seq(PartIdSet) /\ DOMAIN Fresh(n) = 1 .. n /\ UpsDiffer(Fresh(n))
         /\ \A i \in Range(Fresh(n)) : partIds < i /\ i <= partIds'
         /\ partIds' \in 0 .. MaxParts /\ partIds <= partIds'
<1>1. partIds \in Nat /\ MaxParts \in Nat /\ partIds + n <= MaxParts /\ partIds' = partIds + n
  BY PartNumbers DEF Give
<1>2. ASSUME NEW i \in 1 .. n
      PROVE  partIds + i \in PartIdSet /\ partIds < partIds + i /\ partIds + i <= partIds'
  BY <1>1 DEF PartIdSet
<1>3. Fresh(n) \in Seq(PartIdSet) /\ DOMAIN Fresh(n) = 1 .. n
  BY <1>2 DEF Fresh
<1>4. UpsDiffer(Fresh(n))
  BY <1>1 DEF Fresh, UpsDiffer
<1>5. \A i \in Range(Fresh(n)) : partIds < i /\ i <= partIds'
  BY <1>2 DEF Fresh, Range
<1>6. QED
  BY <1>1, <1>3, <1>4, <1>5

\* A route into a list leads to the place it was given, or nowhere.
LEMMA ReferProperties ==
  ASSUME NEW ups \in Seq(PartIdSet), NEW pos
  PROVE  /\ Refer(ups, pos) \in Route
         /\ Refer(ups, pos).pos # 0 => Refer(ups, pos).pos \in DOMAIN ups /\ Refer(ups, pos).up = ups[Refer(ups, pos).pos]
         /\ Refer(ups, pos).up # 0 => Refer(ups, pos).up \in Range(ups)
<1>1. CASE pos \in DOMAIN ups
  <2>1. ups[pos] \in PartIdSet /\ pos \in Nat /\ ups[pos] \in Range(ups)
    BY <1>1 DEF Range
  <2>2. Refer(ups, pos) = [up |-> ups[pos], pos |-> pos]
    BY <1>1 DEF Refer
  <2>3. QED
    BY <1>1, <2>1, <2>2 DEF Route
<1>2. CASE pos \notin DOMAIN ups
  BY <1>2 DEF Refer, NoRoute, Route
<1>3. QED
  BY <1>1, <1>2

\* In a list without repetitions an id has one place.
LEMMA PlaceIsOne ==
  ASSUME NEW ups \in Seq(PartIdSet), UpsDiffer(ups), NEW i \in DOMAIN ups
  PROVE  PlaceOf(ups, ups[i]) = i
<1>1. Contains(ups, ups[i])
  <2>1. i \in 1 .. Len(ups)
    OBVIOUS
  <2>2. QED
    BY <2>1 DEF Contains
<1>2. PlaceOf(ups, ups[i]) = CHOOSE j \in DOMAIN ups : ups[j] = ups[i]
  BY <1>1 DEF PlaceOf
<1>3. \A j \in DOMAIN ups : ups[j] = ups[i] => j = i
  BY DEF UpsDiffer
<1>4. QED
  BY <1>2, <1>3

\* The rows after a step: the list of one host, or its routes.
LEMMA PartRowMade ==
  ASSUME NEW there \in BOOLEAN, NEW ups \in Seq(PartIdSet), NEW routes \in [RoutePaths -> Route]
  PROVE  /\ [there |-> there, ups |-> ups, routes |-> routes] \in PartRows
         /\ \A row \in PartRows : [row EXCEPT !.ups = ups] \in PartRows /\ [row EXCEPT !.routes = routes] \in PartRows
  BY DEF PartRows, Route

\* What hosts and a request have after a step was their own, or is new and h0's.
Granted(k, h0) ==
  \A h \in PartHosts, i \in PartIdSet :
    Holds(partHost'[h], i) \/ Keeps(k, h, i) => Owns(h, i) \/ (h = h0 /\ partIds < i /\ i <= partIds')

\* A request alone that becomes k leaves every route in its place.
StaysCalm(r, k) ==
  ~partMet' => /\ \A q \in PartReqs \ {r} : PartAt(q, "done")
               /\ \A h \in PartHosts : UpsDiffer(partHost'[h].ups)
               /\ PartPending(k)'
               /\ \A h \in PartHosts \ partCut' :
                    k.h # h \/ k.step \notin {"save", "remap"} => InPlace(partHost'[h].ups, partHost'[h].routes)

\* A request begins, goes on or ends: it owns nothing of another host's, and alone it leaves every route
\* in its place.
LEMMA PartMoves ==
  ASSUME PartInv, NEW r \in PartReqs, NEW k \in PartCalls, k.step # "done" => k.h \in PartHosts,
         partReq' = [partReq EXCEPT ![r] = k], partMet' \in BOOLEAN, partMet => partMet',
         partHost' \in [PartHosts -> PartRows], partIds' \in 0 .. MaxParts, partIds <= partIds', partCut' \subseteq PartHosts,
         NEW h0, Granted(k, h0), StaysCalm(r, k)
  PROVE  PartInv'
<1>1. \A q \in PartReqs : partReq'[q] = IF q = r THEN k ELSE partReq[q]
  BY DEF PartInv, PartRowsOK
<1>2. PartRowsOK'
  <2>1. partReq' \in [PartReqs -> PartCalls]
    BY DEF PartInv, PartRowsOK
  <2>2. \A q \in PartReqs : partReq'[q].step # "done" => partReq'[q].h \in PartHosts
    BY <1>1 DEF PartInv, PartRowsOK
  <2>3. QED
    BY <2>1, <2>2 DEF PartRowsOK
<1>3. ASSUME NEW h \in PartHosts, NEW i \in PartIdSet, Owns(h, i)'
      PROVE  Owns(h, i) \/ (h = h0 /\ partIds < i /\ i <= partIds')
  <2>1. CASE Holds(partHost'[h], i)
    BY <2>1 DEF Granted
  <2>2. CASE \E q \in PartReqs : Keeps(partReq'[q], h, i)
    <3>1. PICK q \in PartReqs : Keeps(partReq'[q], h, i)
      BY <2>2
    <3>2. CASE q = r
      BY <1>1, <3>1, <3>2 DEF Granted
    <3>3. CASE q # r
      BY <1>1, <3>1, <3>3 DEF Owns
    <3>4. QED
      BY <3>2, <3>3
  <2>3. QED
    BY <1>3, <2>1, <2>2 DEF Owns
<1>4. OneOwner'
  <2>1. partIds \in Nat /\ partIds' \in Nat /\ \A i \in PartIdSet : i \in Nat
    BY PartNumbers DEF PartInv
  <2>2. ASSUME NEW h \in PartHosts, NEW i \in PartIdSet, Owns(h, i)'
        PROVE  i <= partIds'
    <3>1. Owns(h, i) => i <= partIds
      BY DEF PartInv, OneOwner
    <3>2. QED
      BY <1>3, <2>1, <2>2, <3>1
  <2>3. ASSUME NEW h \in PartHosts, NEW g \in PartHosts, NEW i \in PartIdSet, Owns(h, i)', Owns(g, i)'
        PROVE  h = g
    <3>1. (Owns(h, i) => i <= partIds) /\ (Owns(g, i) => i <= partIds) /\ (Owns(h, i) /\ Owns(g, i) => h = g)
      BY DEF PartInv, OneOwner
    <3>2. /\ Owns(h, i) \/ (h = h0 /\ partIds < i /\ i <= partIds')
          /\ Owns(g, i) \/ (g = h0 /\ partIds < i /\ i <= partIds')
      BY <1>3, <2>3
    <3>3. QED
      BY <2>1, <3>1, <3>2
  <2>4. QED
    BY <2>2, <2>3 DEF OneOwner
<1>5. ASSUME ~partMet'
      PROVE  PartCalm'
  <2>1. \A q \in PartReqs : q # r => partReq'[q].step = "done"
    BY <1>1, <1>5 DEF PartAt, StaysCalm
  <2>2. \A q \in PartReqs : PartPending(partReq[q])'
    BY <1>1, <1>5, <2>1 DEF PartPending, StaysCalm
  <2>3. ASSUME NEW h \in PartHosts \ partCut', ~PartReplaces(h)'
        PROVE  InPlace(partHost'[h].ups, partHost'[h].routes)
    <3>1. k.h # h \/ k.step \notin {"save", "remap"}
      BY <1>1, <2>3 DEF PartReplaces
    <3>2. QED
      BY <1>5, <3>1 DEF StaysCalm
  <2>4. \A q, s \in PartReqs : q # s => PartAt(q, "done")' \/ PartAt(s, "done")'
    BY <2>1 DEF PartAt
  <2>5. QED
    BY <1>5, <2>2, <2>3, <2>4 DEF PartCalm, StaysCalm
<1>6. QED
  BY <1>2, <1>4, <1>5 DEF PartInv

\* Who begins alone, and who goes on alone.
LEMMA PartBegun ==
  ASSUME PartInv, NEW r \in PartReqs, NEW k, PartBegin(r, k)
  PROVE  /\ partReq' = [partReq EXCEPT ![r] = k] /\ partMet' \in BOOLEAN /\ (partMet => partMet')
         /\ ~partMet' => /\ PartCalm /\ (\A q \in PartReqs : PartAt(q, "done")) /\ \A h \in PartHosts : ~PartReplaces(h)
<1>1. partMet \in BOOLEAN /\ PartBusy \in BOOLEAN
  BY DEF PartInv, PartRowsOK, PartBusy
<1>2. ~partMet' => ~partMet /\ ~PartBusy
  BY <1>1 DEF PartBegin
<1>3. ~PartBusy => (\A q \in PartReqs : PartAt(q, "done")) /\ \A h \in PartHosts : ~PartReplaces(h)
  BY DEF PartBusy, PartAt, PartReplaces
<1>4. QED
  BY <1>1, <1>2, <1>3 DEF PartBegin, PartInv

\* What a request finds that goes on or ends.
LEMMA PartGoesOn ==
  ASSUME PartInv, NEW r \in PartReqs, ~PartAt(r, "done"), UNCHANGED partMet
  PROVE  /\ partMet' \in BOOLEAN /\ (partMet => partMet')
         /\ ~partMet' => /\ PartCalm /\ PartPending(partReq[r]) /\ \A q \in PartReqs \ {r} : PartAt(q, "done")
                         /\ \A h \in PartHosts : PartReplaces(h) <=> partReq[r].h = h /\ partReq[r].step \in {"save", "remap"}
<1>1. partMet \in BOOLEAN /\ (~partMet => PartCalm)
  BY DEF PartInv, PartRowsOK
<1>2. PartCalm => /\ \A q \in PartReqs \ {r} : PartAt(q, "done")
                  /\ PartPending(partReq[r])
  BY DEF PartCalm
<1>3. PartCalm => \A h \in PartHosts : PartReplaces(h) <=> partReq[r].h = h /\ partReq[r].step \in {"save", "remap"}
  BY <1>2 DEF PartReplaces, PartAt
<1>4. QED
  BY <1>1, <1>2, <1>3

\* Hosts are made, with a list of new upstreams, or go.
LEMMA PartCreates == ASSUME PartInv, NEW r \in PartReqs, NEW h \in PartHosts, NEW n \in Nat, CreateParts(r, h, n) PROVE PartInv'
<1>. DEFINE row == [NoParts EXCEPT !.there = TRUE, !.ups = Fresh(n)]
<1>0. PartRowsOK /\ PartBegin(r, PartDone) /\ Give(n) /\ partHost' = [partHost EXCEPT ![h] = row] /\ partCut' = partCut \ {h}
  BY DEF CreateParts, PartInv
<1>1. /\ Fresh(n) \in Seq(PartIdSet) /\ DOMAIN Fresh(n) = 1 .. n /\ UpsDiffer(Fresh(n))
      /\ \A i \in Range(Fresh(n)) : partIds < i /\ i <= partIds'
      /\ partIds' \in 0 .. MaxParts /\ partIds <= partIds'
  BY <1>0, FreshProperties
<1>2. row \in PartRows
  BY <1>1, PartRests DEF PartRows
<1>3. row.ups = Fresh(n) /\ \A p \in RoutePaths : row.routes[p].up = 0 /\ row.routes[p].pos = 0
  BY PartRests DEF NoParts
<1>. HIDE DEF row
<1>4. \A g \in PartHosts : partHost'[g] = IF g = h THEN row ELSE partHost[g]
  BY <1>0 DEF PartRowsOK
<1>5. partHost' \in [PartHosts -> PartRows] /\ partCut' \subseteq PartHosts
  BY <1>0, <1>2 DEF PartRowsOK
<1>6. ASSUME NEW g \in PartHosts, NEW i \in PartIdSet, Holds(partHost'[g], i) \/ Keeps(PartDone, g, i)
      PROVE  Owns(g, i) \/ (g = h /\ partIds < i /\ i <= partIds')
  <2>1. Holds(partHost'[g], i) /\ i # 0
    BY <1>0, <1>6, PartRests, PartNumbers DEF Keeps
  <2>2. CASE g = h
    BY <1>1, <1>3, <1>4, <2>1, <2>2 DEF Holds
  <2>3. CASE g # h
    BY <1>4, <2>1, <2>3 DEF Owns
  <2>4. QED
    BY <2>2, <2>3
<1>7. /\ partReq' = [partReq EXCEPT ![r] = PartDone] /\ partMet' \in BOOLEAN /\ (partMet => partMet')
      /\ ~partMet' => /\ PartCalm /\ (\A q \in PartReqs : PartAt(q, "done")) /\ \A g \in PartHosts : ~PartReplaces(g)
  BY <1>0, PartBegun
<1>8. ASSUME ~partMet'
      PROVE  /\ \A q \in PartReqs \ {r} : PartAt(q, "done")
             /\ \A g \in PartHosts : UpsDiffer(partHost'[g].ups)
             /\ PartPending(PartDone)'
             /\ \A g \in PartHosts \ partCut' : InPlace(partHost'[g].ups, partHost'[g].routes)
  <2>1. \A g \in PartHosts : UpsDiffer(partHost'[g].ups)
    BY <1>1, <1>3, <1>4, <1>7, <1>8 DEF PartCalm
  <2>2. PartPending(PartDone)'
    BY PartRests DEF PartPending
  <2>3. ASSUME NEW g \in PartHosts \ partCut'
        PROVE  InPlace(partHost'[g].ups, partHost'[g].routes)
    <3>1. CASE g = h
      BY <1>3, <1>4, <3>1 DEF InPlace
    <3>2. CASE g # h
      BY <1>0, <1>4, <1>7, <1>8, <3>2 DEF PartCalm
    <3>3. QED
      BY <3>1, <3>2
  <2>4. QED
    BY <1>7, <1>8, <2>1, <2>2, <2>3
<1>9. PartDone \in PartCalls /\ PartDone.step = "done"
  BY PartRests
<1>10. Granted(PartDone, h)
  BY <1>6 DEF Granted
<1>11. StaysCalm(r, PartDone)
  BY <1>8 DEF StaysCalm
<1>12. QED
  BY <1>1, <1>5, <1>7, <1>9, <1>10, <1>11, PartMoves

\* A host is deleted, with its rows.
LEMMA PartDeletes == ASSUME PartInv, NEW r \in PartReqs, NEW h \in PartHosts, DeleteParts(r, h) PROVE PartInv'
<1>0. PartRowsOK /\ PartBegin(r, PartDone) /\ UNCHANGED <<partIds, partCut>> /\ partHost[h] \in PartRows
  BY DEF DeleteParts, PartInv, PartRowsOK
<1>. DEFINE gone == [partHost[h] EXCEPT !.there = FALSE]
<1>1. gone \in PartRows /\ gone.ups = partHost[h].ups /\ gone.routes = partHost[h].routes
  BY <1>0 DEF PartRows
<1>2. PICK row \in PartRows : partHost' = [partHost EXCEPT ![h] = row] /\ row \in {NoParts, gone}
  BY <1>0, <1>1, PartRests DEF DeleteParts, PartRowsOK
<1>. HIDE DEF gone
<1>3. \A g \in PartHosts : partHost'[g] = IF g = h THEN row ELSE partHost[g]
  BY <1>0, <1>2 DEF PartRowsOK
<1>4. \A i \in PartIdSet : Holds(row, i) => Holds(partHost[h], i)
  <2>1. \A i \in PartIdSet : ~Holds(NoParts, i)
    <3>1. Range(<<>>) = {}
      BY DEF Range
    <3>2. QED
      BY <1>0, <3>1, PartRests, PartNumbers DEF Holds
  <2>2. \A i \in PartIdSet : Holds(gone, i) => Holds(partHost[h], i)
    BY <1>1 DEF Holds
  <2>3. QED
    BY <1>2, <2>1, <2>2
<1>5. partHost' \in [PartHosts -> PartRows] /\ partCut' \subseteq PartHosts /\ partIds' \in 0 .. MaxParts /\ partIds <= partIds'
  BY <1>0, <1>2, PartNumbers DEF PartRowsOK
<1>6. ASSUME NEW g \in PartHosts, NEW i \in PartIdSet, Holds(partHost'[g], i) \/ Keeps(PartDone, g, i)
      PROVE  Owns(g, i) \/ (g = h /\ partIds < i /\ i <= partIds')
  BY <1>3, <1>4, <1>6, PartRests DEF Keeps, Owns
<1>7. /\ partReq' = [partReq EXCEPT ![r] = PartDone] /\ partMet' \in BOOLEAN /\ (partMet => partMet')
      /\ ~partMet' => /\ PartCalm /\ (\A q \in PartReqs : PartAt(q, "done")) /\ \A g \in PartHosts : ~PartReplaces(g)
  BY <1>0, PartBegun
<1>8. ASSUME ~partMet'
      PROVE  /\ \A q \in PartReqs \ {r} : PartAt(q, "done")
             /\ \A g \in PartHosts : UpsDiffer(partHost'[g].ups)
             /\ PartPending(PartDone)'
             /\ \A g \in PartHosts \ partCut' : InPlace(partHost'[g].ups, partHost'[g].routes)
  <2>1. UpsDiffer(NoParts.ups) /\ InPlace(NoParts.ups, NoParts.routes)
    BY PartRests DEF UpsDiffer, InPlace
  <2>2. PartPending(PartDone)'
    BY PartRests DEF PartPending
  <2>3. ASSUME NEW g \in PartHosts
        PROVE  UpsDiffer(partHost'[g].ups) /\ (g \notin partCut' => InPlace(partHost'[g].ups, partHost'[g].routes))
    <3>1. UpsDiffer(partHost[g].ups) /\ (g \notin partCut => InPlace(partHost[g].ups, partHost[g].routes))
      BY <1>7, <1>8 DEF PartCalm
    <3>2. QED
      BY <1>0, <1>1, <1>2, <1>3, <2>1, <3>1
  <2>4. QED
    BY <1>7, <1>8, <2>2, <2>3
<1>9. PartDone \in PartCalls /\ PartDone.step = "done"
  BY PartRests
<1>10. Granted(PartDone, h)
  BY <1>6 DEF Granted
<1>11. StaysCalm(r, PartDone)
  BY <1>8 DEF StaysCalm
<1>12. QED
  BY <1>5, <1>7, <1>9, <1>10, <1>11, PartMoves

\* A host is read, to be copied or to be saved again.
LEMMA PartReads ==
  ASSUME PartInv, NEW r \in PartReqs, NEW h \in PartHosts, NEW g \in PartHosts, ReadSource(r, h, g) \/ OpenParts(r, h)
  PROVE  PartInv'
<1>0. PartRowsOK /\ UNCHANGED <<partHost, partIds, partCut>> /\ partHost[h] \in PartRows /\ partHost[h].there
  BY DEF ReadSource, OpenParts, PartInv, PartRowsOK
<1>. DEFINE a == [PartDone EXCEPT !.step = "clone", !.h = g, !.row = partHost[h]]
            b == [PartDone EXCEPT !.step = "toggle", !.h = h, !.row = partHost[h]]
<1>1. a \in PartCalls /\ a.step = "clone" /\ a.h = g
  BY <1>0, PartRests DEF PartCalls, PartSteps, PartDone
<1>2. b \in PartCalls /\ b.step = "toggle" /\ b.h = h /\ b.row = partHost[h] /\ b.old = <<>> /\ b.live
  BY <1>0, PartRests DEF PartCalls, PartSteps, PartDone
<1>3. PICK k \in PartCalls : /\ PartBegin(r, k)
                             /\ \/ k.step = "clone" /\ k.h = g
                                \/ k.step = "toggle" /\ k.h = h /\ k.row = partHost[h] /\ k.old = <<>> /\ k.live
  <2>1. CASE ReadSource(r, h, g)
    <3>1. PartBegin(r, a)
      BY <2>1 DEF ReadSource
    <3>. HIDE DEF a, b
    <3>2. QED
      BY <1>1, <3>1
  <2>2. CASE OpenParts(r, h)
    <3>1. PartBegin(r, b)
      BY <2>2 DEF OpenParts
    <3>. HIDE DEF a, b
    <3>2. QED
      BY <1>2, <3>1
  <2>3. QED
    BY <2>1, <2>2
<1>. HIDE DEF a, b
<1>4. partHost' \in [PartHosts -> PartRows] /\ partCut' \subseteq PartHosts /\ partIds' \in 0 .. MaxParts /\ partIds <= partIds'
  BY <1>0, PartNumbers DEF PartRowsOK
<1>5. ASSUME NEW f \in PartHosts, NEW i \in PartIdSet, Holds(partHost'[f], i) \/ Keeps(k, f, i)
      PROVE  Owns(f, i)
  <2>1. Range(<<>>) = {}
    BY DEF Range
  <2>2. QED
    BY <1>0, <1>3, <1>5, <2>1 DEF Keeps, Owns
<1>6. /\ partReq' = [partReq EXCEPT ![r] = k] /\ partMet' \in BOOLEAN /\ (partMet => partMet')
      /\ ~partMet' => /\ PartCalm /\ (\A q \in PartReqs : PartAt(q, "done")) /\ \A f \in PartHosts : ~PartReplaces(f)
  BY <1>3, PartBegun
<1>7. ASSUME ~partMet'
      PROVE  /\ \A q \in PartReqs \ {r} : PartAt(q, "done")
             /\ \A f \in PartHosts : UpsDiffer(partHost'[f].ups)
             /\ PartPending(k)'
             /\ \A f \in PartHosts \ partCut' : InPlace(partHost'[f].ups, partHost'[f].routes)
  <2>1. PartPending(k)'
    BY <1>0, <1>3 DEF PartPending
  <2>2. QED
    BY <1>0, <1>6, <1>7, <2>1 DEF PartCalm
<1>8. k.h \in PartHosts
  BY <1>3
<1>9. Granted(k, h)
  BY <1>5 DEF Granted
<1>10. StaysCalm(r, k)
  BY <1>7 DEF StaysCalm
<1>11. QED
  BY <1>4, <1>6, <1>8, <1>9, <1>10, PartMoves

\* A host's list is deleted, and remembered.
LEMMA PartStrips ==
  ASSUME PartInv, NEW r \in PartReqs, NEW h \in PartHosts, NEW n \in Nat, StripParts(r, h, n)
  PROVE  PartInv'
<1>0. PartRowsOK /\ UNCHANGED <<partIds, partCut>> /\ partHost[h] \in PartRows /\ partHost[h].there /\ partHost[h].ups \in Seq(PartIdSet)
  BY DEF StripParts, PartInv, PartRowsOK, PartRows
<1>. DEFINE n0 == [step |-> "save", h |-> h, old |-> partHost[h].ups, n |-> n, row |-> partHost[h], live |-> TRUE]
            row == [partHost[h] EXCEPT !.ups = <<>>]
<1>1. PICK a \in PartCalls : a = n0 /\ a.step = "save" /\ a.h = h /\ a.old = partHost[h].ups /\ a.row = partHost[h] /\ a.live
  <2>1. n0 \in PartCalls
    BY <1>0 DEF PartCalls, PartSteps
  <2>2. n0.step = "save" /\ n0.h = h /\ n0.old = partHost[h].ups /\ n0.row = partHost[h] /\ n0.live
    OBVIOUS
  <2>. HIDE DEF n0
  <2>3. QED
    BY <2>1, <2>2
<1>2. row \in PartRows /\ row.ups = <<>> /\ row.routes = partHost[h].routes /\ (row.there <=> partHost[h].there)
  <2>1. <<>> \in Seq(PartIdSet)
    OBVIOUS
  <2>2. row \in PartRows
    BY <1>0, <2>1 DEF PartRows
  <2>3. QED
    BY <1>0, <2>2 DEF PartRows
<1>3. PartBegin(r, a) /\ partHost' = [partHost EXCEPT ![h] = row]
  BY <1>0, <1>1 DEF StripParts, PartRowsOK
<1>. HIDE DEF n0, row
<1>4. \A g \in PartHosts : partHost'[g] = IF g = h THEN row ELSE partHost[g]
  BY <1>0, <1>3 DEF PartRowsOK
<1>5. partHost' \in [PartHosts -> PartRows] /\ partCut' \subseteq PartHosts /\ partIds' \in 0 .. MaxParts /\ partIds <= partIds'
  BY <1>0, <1>2, <1>3, PartNumbers DEF PartRowsOK
<1>6. ASSUME NEW f \in PartHosts, NEW i \in PartIdSet, Holds(partHost'[f], i) \/ Keeps(a, f, i)
      PROVE  Owns(f, i) \/ (f = h /\ partIds < i /\ i <= partIds')
  <2>1. Range(<<>>) = {}
    BY DEF Range
  <2>2. Holds(row, i) => Holds(partHost[h], i)
    BY <1>2, <2>1 DEF Holds
  <2>3. Keeps(a, f, i) => f = h /\ Holds(partHost[h], i)
    BY <1>1 DEF Keeps, Holds
  <2>4. QED
    BY <1>4, <1>6, <2>2, <2>3 DEF Owns
<1>7. /\ partReq' = [partReq EXCEPT ![r] = a] /\ partMet' \in BOOLEAN /\ (partMet => partMet')
      /\ ~partMet' => /\ PartCalm /\ (\A q \in PartReqs : PartAt(q, "done")) /\ \A f \in PartHosts : ~PartReplaces(f)
  BY <1>3, PartBegun
<1>8. ASSUME ~partMet'
      PROVE  /\ \A q \in PartReqs \ {r} : PartAt(q, "done")
             /\ \A f \in PartHosts : UpsDiffer(partHost'[f].ups)
             /\ PartPending(a)'
             /\ \A f \in PartHosts \ partCut' :
                  a.h # f \/ a.step \notin {"save", "remap"} => InPlace(partHost'[f].ups, partHost'[f].routes)
  <2>1. UpsDiffer(partHost[h].ups) /\ (h \notin partCut => InPlace(partHost[h].ups, partHost[h].routes))
    BY <1>7, <1>8 DEF PartCalm
  <2>2. PartPending(a)'
    BY <1>0, <1>1, <1>2, <1>4, <2>1 DEF PartPending
  <2>3. \A f \in PartHosts : UpsDiffer(partHost'[f].ups)
    BY <1>2, <1>4, <1>7, <1>8 DEF PartCalm, UpsDiffer
  <2>4. QED
    BY <1>0, <1>1, <1>4, <1>7, <1>8, <2>2, <2>3 DEF PartCalm
<1>9. Granted(a, h)
  BY <1>6 DEF Granted
<1>10. StaysCalm(r, a)
  BY <1>8 DEF StaysCalm
<1>11. QED
  BY <1>1, <1>5, <1>7, <1>9, <1>10, PartMoves

\* All rows are replaced by those of a file. What requests hold is not written any more, or where it was.
LEMMA PartImports ==
  ASSUME PartInv, NEW r \in PartReqs, NEW h \in PartHosts, NEW n \in Nat, NEW pos \in [RoutePaths -> Nat], ImportParts(r, h, n, pos)
  PROVE  PartInv'
<1>. DEFINE routes == [p \in RoutePaths |-> Refer(Fresh(n), pos[p])]
            row == [there |-> TRUE, ups |-> Fresh(n), routes |-> routes]
<1>0. /\ PartRowsOK /\ PartAt(r, "done") /\ Give(n) /\ partMet' = (partMet \/ PartBusy) /\ partCut' = {}
      /\ partReq' = [q \in PartReqs |-> [partReq[q] EXCEPT !.live = FALSE]]
      /\ partHost' = [g \in PartHosts |-> IF g = h THEN row ELSE NoParts]
  BY DEF ImportParts, PartInv
<1>1. /\ Fresh(n) \in Seq(PartIdSet) /\ DOMAIN Fresh(n) = 1 .. n /\ UpsDiffer(Fresh(n))
      /\ \A i \in Range(Fresh(n)) : partIds < i /\ i <= partIds'
      /\ partIds' \in 0 .. MaxParts /\ partIds <= partIds'
  BY <1>0, FreshProperties
<1>2. /\ routes \in [RoutePaths -> Route] /\ InPlace(Fresh(n), routes)
      /\ \A p \in RoutePaths : routes[p].up # 0 => routes[p].up \in Range(Fresh(n))
  BY <1>1, ReferProperties DEF InPlace
<1>. HIDE DEF routes
<1>3. row \in PartRows /\ row.ups = Fresh(n) /\ row.routes = routes
  BY <1>1, <1>2 DEF PartRows, Route
<1>. HIDE DEF row
<1>4. \A q \in PartReqs : /\ partReq'[q] \in PartCalls /\ partReq'[q].step = partReq[q].step /\ partReq'[q].h = partReq[q].h
                          /\ partReq'[q].old = partReq[q].old /\ partReq'[q].row = partReq[q].row
  BY <1>0 DEF PartRowsOK, PartCalls
<1>5. PartRowsOK'
  <2>1. partReq' \in [PartReqs -> PartCalls]
    BY <1>0, <1>4
  <2>2. partHost' \in [PartHosts -> PartRows]
    BY <1>0, <1>3, PartRests
  <2>3. partMet' \in BOOLEAN
    BY <1>0 DEF PartRowsOK, PartBusy
  <2>4. QED
    BY <1>0, <1>1, <1>4, <2>1, <2>2, <2>3 DEF PartRowsOK
<1>6. OneOwner'
  <2>1. partIds \in Nat /\ partIds' \in Nat /\ \A i \in PartIdSet : i \in Nat /\ i # 0
    BY <1>0, <1>1, PartNumbers
  <2>2. ASSUME NEW g \in PartHosts, NEW i \in PartIdSet, Owns(g, i)'
        PROVE  Owns(g, i) \/ (g = h /\ partIds < i /\ i <= partIds')
    <3>1. CASE \E q \in PartReqs : Keeps(partReq'[q], g, i)
      BY <1>4, <3>1 DEF Keeps, Owns
    <3>2. CASE Holds(partHost'[g], i)
      <4>1. ~Holds(NoParts, i)
        <5>1. Range(<<>>) = {}
          BY DEF Range
        <5>2. QED
          BY <2>1, <5>1, PartRests DEF Holds
      <4>2. partHost'[g] = IF g = h THEN row ELSE NoParts
        BY <1>0
      <4>3. g = h /\ Holds(row, i)
        BY <3>2, <4>1, <4>2
      <4>4. QED
        BY <1>1, <1>2, <1>3, <2>1, <4>3 DEF Holds
    <3>3. QED
      BY <2>2, <3>1, <3>2 DEF Owns
  <2>3. \A g, f \in PartHosts, i \in PartIdSet :
          (Owns(g, i) => i <= partIds) /\ (Owns(f, i) => i <= partIds) /\ (Owns(g, i) /\ Owns(f, i) => g = f)
    BY DEF PartInv, OneOwner
  <2>4. ASSUME NEW g \in PartHosts, NEW i \in PartIdSet, Owns(g, i)'
        PROVE  i <= partIds'
    BY <1>1, <2>1, <2>2, <2>3, <2>4
  <2>5. ASSUME NEW g \in PartHosts, NEW f \in PartHosts, NEW i \in PartIdSet, Owns(g, i)', Owns(f, i)'
        PROVE  g = f
    BY <2>1, <2>2, <2>3, <2>5
  <2>6. QED
    BY <2>4, <2>5 DEF OneOwner
<1>7. ASSUME ~partMet'
      PROVE  PartCalm'
  <2>1. \A q \in PartReqs : partReq'[q].step = "done"
    BY <1>0, <1>4, <1>7 DEF PartBusy, PartAt
  <2>2. \A g \in PartHosts : UpsDiffer(partHost'[g].ups) /\ InPlace(partHost'[g].ups, partHost'[g].routes)
    <3>1. UpsDiffer(NoParts.ups) /\ InPlace(NoParts.ups, NoParts.routes)
      BY PartRests DEF UpsDiffer, InPlace
    <3>2. QED
      BY <1>0, <1>1, <1>2, <1>3, <3>1
  <2>3. \A q \in PartReqs : PartPending(partReq[q])'
    BY <2>1 DEF PartPending
  <2>4. QED
    BY <2>1, <2>2, <2>3 DEF PartCalm, PartAt
<1>8. QED
  BY <1>5, <1>6, <1>7 DEF PartInv

\* A copy gets new ids, and its routes the places of the source's.
LEMMA PartCopies == ASSUME PartInv, NEW r \in PartReqs, InsertCopy(r) PROVE PartInv'
<1>0. PICK k \in PartCalls, h \in PartHosts : k = partReq[r] /\ h = k.h
  BY DEF InsertCopy, PartAt, PartInv, PartRowsOK
<1>1. /\ PartRowsOK /\ ~PartAt(r, "done") /\ partReq' = [partReq EXCEPT ![r] = PartDone] /\ UNCHANGED partMet
      /\ k.step = "clone" /\ k.row \in PartRows /\ k.row.ups \in Seq(PartIdSet) /\ Len(k.row.ups) \in Nat
  BY <1>0 DEF InsertCopy, PartAt, PartEnd, PartInv, PartCalls, PartRows
<1>. DEFINE n == Len(k.row.ups)
            routes == CloneRoutes(k.row, Fresh(n))
            row == [there |-> TRUE, ups |-> Fresh(n), routes |-> routes]
<1>2. /\ partMet' \in BOOLEAN /\ (partMet => partMet')
      /\ ~partMet' => /\ PartCalm /\ PartPending(partReq[r]) /\ \A q \in PartReqs \ {r} : PartAt(q, "done")
                      /\ \A g \in PartHosts : PartReplaces(g) <=> partReq[r].h = g /\ partReq[r].step \in {"save", "remap"}
  BY <1>1, PartGoesOn
<1>3. PartDone \in PartCalls /\ PartDone.step = "done" /\ PartPending(PartDone)'
  BY PartRests DEF PartPending
<1>4. ASSUME ~partMet', NEW g \in PartHosts
      PROVE  UpsDiffer(partHost[g].ups) /\ (g \notin partCut => InPlace(partHost[g].ups, partHost[g].routes))
  BY <1>0, <1>1, <1>2, <1>4 DEF PartCalm
<1>5. CASE UNCHANGED <<partHost, partIds, partCut>>
  <2>1. partHost' \in [PartHosts -> PartRows] /\ partCut' \subseteq PartHosts /\ partIds' \in 0 .. MaxParts /\ partIds <= partIds'
    BY <1>1, <1>5, PartNumbers DEF PartRowsOK
  <2>2. \A g \in PartHosts, i \in PartIdSet : Holds(partHost'[g], i) \/ Keeps(PartDone, g, i) => Owns(g, i) \/ (g = h /\ partIds < i /\ i <= partIds')
    BY <1>3, <1>5 DEF Keeps, Owns
  <2>3. ~partMet' => \A g \in PartHosts : UpsDiffer(partHost'[g].ups) /\ (g \notin partCut' => InPlace(partHost'[g].ups, partHost'[g].routes))
    BY <1>4, <1>5
  <2>4. Granted(PartDone, h) /\ StaysCalm(r, PartDone)
    BY <1>2, <1>3, <2>2, <2>3 DEF Granted, StaysCalm
  <2>5. QED
    BY <1>1, <1>2, <1>3, <2>1, <2>4, PartMoves
<1>6. CASE ~UNCHANGED <<partHost, partIds, partCut>>
  <2>1. Give(n) /\ partHost' = [partHost EXCEPT ![h] = row] /\ partCut' = partCut \ {h}
    BY <1>0, <1>6 DEF InsertCopy
  <2>2. /\ Fresh(n) \in Seq(PartIdSet) /\ DOMAIN Fresh(n) = 1 .. n /\ UpsDiffer(Fresh(n))
        /\ \A i \in Range(Fresh(n)) : partIds < i /\ i <= partIds'
        /\ partIds' \in 0 .. MaxParts /\ partIds <= partIds'
    BY <1>1, <2>1, FreshProperties
  <2>3. /\ routes \in [RoutePaths -> Route] /\ InPlace(Fresh(n), routes)
        /\ \A p \in RoutePaths : routes[p].up # 0 => routes[p].up \in Range(Fresh(n))
    BY <2>2, ReferProperties DEF InPlace, CloneRoutes
  <2>. HIDE DEF routes
  <2>4. row \in PartRows /\ row.ups = Fresh(n) /\ row.routes = routes
    BY <2>2, <2>3 DEF PartRows, Route
  <2>. HIDE DEF row, n
  <2>5. \A g \in PartHosts : partHost'[g] = IF g = h THEN row ELSE partHost[g]
    BY <1>1, <2>1 DEF PartRowsOK
  <2>6. partHost' \in [PartHosts -> PartRows] /\ partCut' \subseteq PartHosts
    BY <1>1, <2>1, <2>4 DEF PartRowsOK
  <2>7. ASSUME NEW g \in PartHosts, NEW i \in PartIdSet, Holds(partHost'[g], i) \/ Keeps(PartDone, g, i)
        PROVE  Owns(g, i) \/ (g = h /\ partIds < i /\ i <= partIds')
    <3>1. Holds(partHost'[g], i) /\ i # 0
      BY <1>1, <1>3, <2>7, PartNumbers DEF Keeps
    <3>2. CASE g = h
      BY <2>2, <2>3, <2>4, <2>5, <3>1, <3>2 DEF Holds
    <3>3. CASE g # h
      BY <2>5, <3>1, <3>3 DEF Owns
    <3>4. QED
      BY <3>2, <3>3
  <2>8. ~partMet' => \A g \in PartHosts : UpsDiffer(partHost'[g].ups) /\ (g \notin partCut' => InPlace(partHost'[g].ups, partHost'[g].routes))
    BY <1>4, <2>1, <2>2, <2>3, <2>4, <2>5
  <2>9. Granted(PartDone, h) /\ StaysCalm(r, PartDone)
    BY <1>2, <1>3, <2>7, <2>8 DEF Granted, StaysCalm
  <2>10. QED
    BY <1>1, <1>2, <1>3, <2>2, <2>6, <2>9, PartMoves
<1>7. QED
  BY <1>5, <1>6

\* An update that is refused leaves the host without its list.
LEMMA PartRefuses == ASSUME PartInv, NEW r \in PartReqs, RefuseParts(r) PROVE PartInv'
<1>0. PICK k \in PartCalls, h \in PartHosts : k = partReq[r] /\ h = k.h
  BY DEF RefuseParts, PartAt, PartInv, PartRowsOK
<1>1. /\ PartRowsOK /\ ~PartAt(r, "done") /\ partReq' = [partReq EXCEPT ![r] = PartDone] /\ UNCHANGED <<partMet, partHost, partIds>>
      /\ k.step = "save" /\ partCut' = partCut \cup {h}
  BY <1>0 DEF RefuseParts, PartAt, PartEnd, PartInv
<1>2. /\ partMet' \in BOOLEAN /\ (partMet => partMet')
      /\ ~partMet' => /\ PartCalm /\ PartPending(partReq[r]) /\ \A q \in PartReqs \ {r} : PartAt(q, "done")
                      /\ \A g \in PartHosts : PartReplaces(g) <=> partReq[r].h = g /\ partReq[r].step \in {"save", "remap"}
  BY <1>1, PartGoesOn
<1>3. PartDone \in PartCalls /\ PartDone.step = "done" /\ PartPending(PartDone)'
  BY PartRests DEF PartPending
<1>4. partHost' \in [PartHosts -> PartRows] /\ partCut' \subseteq PartHosts /\ partIds' \in 0 .. MaxParts /\ partIds <= partIds'
  BY <1>1, PartNumbers DEF PartRowsOK
<1>5. \A g \in PartHosts, i \in PartIdSet : Holds(partHost'[g], i) \/ Keeps(PartDone, g, i) => Owns(g, i) \/ (g = h /\ partIds < i /\ i <= partIds')
  BY <1>1, <1>3 DEF Keeps, Owns
<1>6. ~partMet' => \A g \in PartHosts : UpsDiffer(partHost'[g].ups) /\ (g \notin partCut' => InPlace(partHost'[g].ups, partHost'[g].routes))
  BY <1>0, <1>1, <1>2 DEF PartCalm
<1>7. Granted(PartDone, h) /\ StaysCalm(r, PartDone)
  BY <1>2, <1>3, <1>5, <1>6 DEF Granted, StaysCalm
<1>8. QED
  BY <1>1, <1>2, <1>3, <1>4, <1>7, PartMoves

\* What a list holds that was put behind another.
LEMMA ConcatHolds ==
  ASSUME NEW s \in Seq(PartIdSet), NEW t \in Seq(PartIdSet)
  PROVE  /\ s \o t \in Seq(PartIdSet)
         /\ \A i \in Range(s \o t) : i \in Range(s) \/ i \in Range(t)
         /\ <<>> \o t = t /\ s \o <<>> = s
<1>1. /\ Len(s) \in Nat /\ Len(t) \in Nat /\ s \o t \in Seq(PartIdSet) /\ Len(s \o t) = Len(s) + Len(t)
      /\ \A j \in 1 .. Len(s) + Len(t) : (s \o t)[j] = IF j <= Len(s) THEN s[j] ELSE t[j - Len(s)]
  BY ConcatProperties, LenProperties
<1>2. DOMAIN s = 1 .. Len(s) /\ DOMAIN t = 1 .. Len(t) /\ DOMAIN (s \o t) = 1 .. Len(s) + Len(t)
  BY <1>1, LenProperties
<1>3. ASSUME NEW i \in Range(s \o t)
      PROVE  i \in Range(s) \/ i \in Range(t)
  <2>1. PICK j \in 1 .. Len(s) + Len(t) : (s \o t)[j] = i
    BY <1>2 DEF Range
  <2>2. CASE j <= Len(s)
    BY <1>1, <1>2, <2>1, <2>2 DEF Range
  <2>3. CASE ~(j <= Len(s))
    <3>1. j - Len(s) \in 1 .. Len(t) /\ t[j - Len(s)] = i
      BY <1>1, <2>1, <2>3
    <3>2. QED
      BY <1>2, <3>1 DEF Range
  <2>4. QED
    BY <2>2, <2>3
<1>4. <<>> \o t = t /\ s \o <<>> = s
  BY ConcatEmptySeq
<1>5. QED
  BY <1>1, <1>3, <1>4

\* The row that h has once r has saved ups.
SavesRow(r, h, k, ups, row) ==
  /\ Saved(r, ups) = [partHost EXCEPT ![h] = row]
  /\ \A i \in PartIdSet : Holds(row, i) => \/ i \in Range(ups) \/ Holds(partHost[h], i)
                                           \/ \E p \in RoutePaths : k.row.routes[p].up = i
  /\ partHost[h].there => /\ row.there /\ row.routes = partHost[h].routes
                          /\ partHost[h].ups = <<>> => row.ups = ups
                          /\ ups = <<>> => row.ups = partHost[h].ups

\* A row that is saved keeps the routes of the host, or brings back those that were read.
LEMMA SavedRow ==
  ASSUME PartRowsOK, NEW r \in PartReqs, NEW h \in PartHosts, NEW k \in PartCalls, k = partReq[r], k.h = h,
         NEW ups \in Seq(PartIdSet)
  PROVE  \E row \in PartRows : SavesRow(r, h, k, ups, row)
<1>1. partHost[h] \in PartRows /\ k.row \in PartRows /\ partHost[h].ups \in Seq(PartIdSet)
  BY DEF PartRowsOK, PartCalls, PartRows
<1>2. CASE partHost[h].there
  <2>. DEFINE row == [partHost[h] EXCEPT !.ups = @ \o ups]
  <2>1. partHost[h].ups \o ups \in Seq(PartIdSet)
    BY <1>1, ConcatHolds
  <2>2. row \in PartRows
    BY <1>1, <2>1 DEF PartRows
  <2>3. row.ups = partHost[h].ups \o ups /\ row.routes = partHost[h].routes /\ row.there
    BY <1>1, <1>2 DEF PartRows
  <2>4. Saved(r, ups) = [partHost EXCEPT ![h] = row]
    <3>1. partReq[r].h = h
      OBVIOUS
    <3>2. Saved(r, ups) = [partHost EXCEPT ![h] = IF @.there THEN [@ EXCEPT !.ups = partHost[h].ups \o ups] ELSE [k.row EXCEPT !.ups = ups]]
      BY <3>1 DEF Saved
    <3>. DEFINE kept == IF partHost[h].there THEN row ELSE [k.row EXCEPT !.ups = ups]
    <3>3. Saved(r, ups) = [partHost EXCEPT ![h] = kept]
      BY <3>2
    <3>4. kept = row
      BY <1>2
    <3>. HIDE DEF kept, row
    <3>5. QED
      BY <3>3, <3>4
  <2>. HIDE DEF row
  <2>5. \A i \in PartIdSet : Holds(row, i) => i \in Range(ups) \/ Holds(partHost[h], i)
    BY <1>1, <2>3, ConcatHolds DEF Holds
  <2>6. (partHost[h].ups = <<>> => row.ups = ups) /\ (ups = <<>> => row.ups = partHost[h].ups)
    BY <1>1, <2>3, ConcatHolds
  <2>7. QED
    BY <2>2, <2>3, <2>4, <2>5, <2>6 DEF SavesRow
<1>3. CASE ~partHost[h].there
  <2>. DEFINE row == [k.row EXCEPT !.ups = ups]
  <2>1. row \in PartRows
    BY <1>1 DEF PartRows
  <2>2. row.ups = ups /\ row.routes = k.row.routes
    BY <1>1 DEF PartRows
  <2>3. Saved(r, ups) = [partHost EXCEPT ![h] = row]
    BY <1>3 DEF Saved, PartRowsOK
  <2>. HIDE DEF row
  <2>4. \A i \in PartIdSet : Holds(row, i) => i \in Range(ups) \/ \E p \in RoutePaths : k.row.routes[p].up = i
    BY <2>2 DEF Holds
  <2>5. QED
    BY <1>3, <2>1, <2>3, <2>4 DEF SavesRow
<1>4. QED
  BY <1>2, <1>3

\* The row is saved with the new list.
LEMMA PartSaves == ASSUME PartInv, NEW r \in PartReqs, SaveParts(r) PROVE PartInv'
<1>0. PICK k \in PartCalls, h \in PartHosts : k = partReq[r] /\ h = k.h
  BY DEF SaveParts, PartAt, PartInv, PartRowsOK
<1>1. /\ PartRowsOK /\ ~PartAt(r, "done") /\ UNCHANGED <<partMet, partCut>> /\ k.step = "save"
      /\ k.n \in Nat /\ k.row \in PartRows
  BY <1>0 DEF SaveParts, PartAt, PartEnd, PartInv, PartCalls
<1>2. /\ partMet' \in BOOLEAN /\ (partMet => partMet')
      /\ ~partMet' => /\ PartCalm /\ PartPending(k) /\ \A q \in PartReqs \ {r} : PartAt(q, "done")
                      /\ \A g \in PartHosts : PartReplaces(g) <=> k.h = g /\ k.step \in {"save", "remap"}
  BY <1>0, <1>1, PartGoesOn
<1>3. CASE Overtaken(r)
  <2>1. partReq' = [partReq EXCEPT ![r] = PartDone] /\ UNCHANGED <<partHost, partIds>>
    BY <1>3 DEF SaveParts, PartEnd
  <2>2. PartDone \in PartCalls /\ PartDone.step = "done"
    BY PartRests
  <2>3. Granted(PartDone, h)
    BY <2>1, <2>2 DEF Granted, Keeps, Owns
  <2>4. partMet'
    BY <1>0, <1>1, <1>2, <1>3 DEF Overtaken, PartPending
  <2>5. partHost' \in [PartHosts -> PartRows] /\ partCut' \subseteq PartHosts /\ partIds' \in 0 .. MaxParts /\ partIds <= partIds'
    BY <1>1, <2>1, PartNumbers DEF PartRowsOK
  <2>6. StaysCalm(r, PartDone)
    BY <2>4 DEF StaysCalm
  <2>7. QED
    BY <1>2, <2>1, <2>2, <2>3, <2>5, <2>6, PartMoves
<1>4. CASE ~Overtaken(r)
  <2>. DEFINE new == Fresh(k.n)
              k1 == [k EXCEPT !.step = "remap", !.row.ups = new]
  <2>1. /\ Give(k.n) /\ partHost' = Saved(r, new)
        /\ partReq' = [partReq EXCEPT ![r].step = "remap", ![r].row.ups = new]
    BY <1>0, <1>4 DEF SaveParts
  <2>2. /\ new \in Seq(PartIdSet) /\ DOMAIN new = 1 .. k.n /\ UpsDiffer(new)
        /\ \A i \in Range(new) : partIds < i /\ i <= partIds'
        /\ partIds' \in 0 .. MaxParts /\ partIds <= partIds'
    BY <1>1, <2>1, FreshProperties
  <2>. HIDE DEF new
  <2>3. [k.row EXCEPT !.ups = new] \in PartRows
    BY <1>1, <2>2 DEF PartRows
  <2>4. k1 \in PartCalls
    BY <2>3 DEF PartCalls, PartSteps
  <2>5. /\ k1.step = "remap" /\ k1.h = h /\ k1.old = k.old /\ (k1.live <=> k.live) /\ k1.row.ups = new
        /\ k1.row.routes = k.row.routes
    BY <1>0, <1>1 DEF PartCalls, PartRows
  <2>6. partReq' = [partReq EXCEPT ![r] = k1]
    BY <1>0, <1>1, <2>1 DEF PartRowsOK
  <2>. HIDE DEF k1
  <2>7. PICK m \in PartCalls : /\ partReq' = [partReq EXCEPT ![r] = m]
                               /\ m.step = "remap" /\ m.h = h /\ m.old = k.old /\ (m.live <=> k.live) /\ m.row.ups = new
                               /\ m.row.routes = k.row.routes
    BY <2>4, <2>5, <2>6
  <2>7a. PICK row \in PartRows : SavesRow(r, h, k, new, row)
    BY <1>0, <1>1, <2>2, SavedRow
  <2>8. /\ Saved(r, new) = [partHost EXCEPT ![h] = row]
        /\ \A i \in PartIdSet : Holds(row, i) => \/ i \in Range(new) \/ Holds(partHost[h], i)
                                                 \/ \E p \in RoutePaths : k.row.routes[p].up = i
        /\ partHost[h].there => /\ row.there /\ row.routes = partHost[h].routes
                                /\ partHost[h].ups = <<>> => row.ups = new
                                /\ new = <<>> => row.ups = partHost[h].ups
    BY <2>7a DEF SavesRow
  <2>9. partHost' = [partHost EXCEPT ![h] = row] /\ partHost' \in [PartHosts -> PartRows]
    BY <1>1, <2>1, <2>8 DEF PartRowsOK
  <2>10. \A g \in PartHosts : partHost'[g] = IF g = h THEN row ELSE partHost[g]
    BY <1>1, <2>9 DEF PartRowsOK
  <2>11. Granted(m, h)
    <3>1. \A i \in PartIdSet : (\E p \in RoutePaths : k.row.routes[p].up = i) => Owns(h, i)
      BY <1>0, <1>1 DEF Owns, Keeps, Holds
    <3>2. \A i \in PartIdSet : i \in Range(k.old) => Owns(h, i)
      BY <1>0, <1>1 DEF Owns, Keeps
    <3>3. ASSUME NEW g \in PartHosts, NEW i \in PartIdSet, Holds(partHost'[g], i)
          PROVE  Owns(g, i) \/ (g = h /\ partIds < i /\ i <= partIds')
      <4>1. CASE g = h
        BY <2>2, <2>8, <2>10, <3>1, <3>3, <4>1 DEF Owns
      <4>2. CASE g # h
        BY <2>10, <3>3, <4>2 DEF Owns
      <4>3. QED
        BY <4>1, <4>2
    <3>4. ASSUME NEW g \in PartHosts, NEW i \in PartIdSet, Keeps(m, g, i)
          PROVE  Owns(g, i) \/ (g = h /\ partIds < i /\ i <= partIds')
      <4>1. g = h /\ (i \in Range(k.old) \/ i \in Range(new) \/ \E p \in RoutePaths : k.row.routes[p].up = i)
        BY <2>7, <3>4 DEF Keeps, Holds
      <4>2. QED
        BY <2>2, <3>1, <3>2, <4>1
    <3>5. QED
      BY <3>3, <3>4 DEF Granted
  <2>12. ASSUME ~partMet'
         PROVE  /\ \A g \in PartHosts : UpsDiffer(partHost'[g].ups)
                /\ PartPending(m)'
                /\ \A g \in PartHosts \ partCut' : g # h => InPlace(partHost'[g].ups, partHost'[g].routes)
    <3>1. /\ partHost[h].there /\ k.live /\ UpsDiffer(k.old) /\ partHost[h].ups = <<>>
          /\ h \notin partCut => InPlace(k.old, partHost[h].routes)
      BY <1>0, <1>1, <1>2, <2>12 DEF PartPending
    <3>2. row.there /\ row.routes = partHost[h].routes /\ row.ups = new
      BY <2>8, <3>1
    <3>3. PartPending(m)'
      BY <1>1, <2>7, <2>10, <3>1, <3>2 DEF PartPending
    <3>4. \A g \in PartHosts : UpsDiffer(partHost'[g].ups)
      BY <1>2, <2>2, <2>10, <2>12, <3>2 DEF PartCalm
    <3>5. \A g \in PartHosts \ partCut' : g # h => InPlace(partHost'[g].ups, partHost'[g].routes)
      BY <1>0, <1>1, <1>2, <2>10, <2>12 DEF PartCalm
    <3>6. QED
      BY <3>3, <3>4, <3>5
  <2>13. StaysCalm(r, m)
    BY <1>2, <2>7, <2>12 DEF StaysCalm
  <2>14. partCut' \subseteq PartHosts
    BY <1>1 DEF PartRowsOK
  <2>15. QED
    BY <1>2, <2>2, <2>7, <2>9, <2>11, <2>13, <2>14, PartMoves
<1>5. QED
  BY <1>3, <1>4

\* The routes are led to the places of the new list.
LEMMA PartRemaps == ASSUME PartInv, NEW r \in PartReqs, RemapRoutes(r) PROVE PartInv'
<1>0. PICK k \in PartCalls, h \in PartHosts : k = partReq[r] /\ h = k.h
  BY DEF RemapRoutes, PartAt, PartInv, PartRowsOK
<1>. DEFINE new == k.row.ups
            routes == [p \in RoutePaths |-> Remap(partHost[h].routes[p], k.old, new)]
            moved == [partHost[h] EXCEPT !.routes = routes]
<1>1. /\ PartRowsOK /\ ~PartAt(r, "done") /\ partReq' = [partReq EXCEPT ![r] = PartDone] /\ UNCHANGED <<partMet, partIds>>
      /\ k.step = "remap" /\ new \in Seq(PartIdSet) /\ k.old \in Seq(PartIdSet)
      /\ partHost[h] \in PartRows /\ partHost[h].routes \in [RoutePaths -> Route]
  BY <1>0 DEF RemapRoutes, PartAt, PartEnd, PartInv, PartRowsOK, PartCalls, PartRows, Route
<1>2. /\ partMet' \in BOOLEAN /\ (partMet => partMet')
      /\ ~partMet' => /\ PartCalm /\ PartPending(k) /\ \A q \in PartReqs \ {r} : PartAt(q, "done")
                      /\ \A g \in PartHosts : PartReplaces(g) <=> k.h = g /\ k.step \in {"save", "remap"}
  BY <1>0, <1>1, PartGoesOn
<1>3. ASSUME NEW p \in RoutePaths
      PROVE  /\ routes[p] \in Route /\ routes[p].pos = partHost[h].routes[p].pos
             /\ routes[p].up = partHost[h].routes[p].up \/ routes[p].up \in Range(new)
             /\ PlaceOf(k.old, partHost[h].routes[p].up) \in DOMAIN new =>
                  routes[p].up = new[PlaceOf(k.old, partHost[h].routes[p].up)]
  <2>. DEFINE route == partHost[h].routes[p]
              i == PlaceOf(k.old, route.up)
  <2>1. route \in Route /\ routes[p] = IF i \in DOMAIN new THEN [route EXCEPT !.up = new[i]] ELSE route
    BY <1>1 DEF Remap
  <2>. HIDE DEF route, i, routes
  <2>2. i \in DOMAIN new => new[i] \in PartIdSet /\ new[i] \in Range(new)
    BY <1>1 DEF Range
  <2>3. /\ routes[p] \in Route /\ routes[p].pos = route.pos
        /\ routes[p].up = route.up \/ routes[p].up \in Range(new)
        /\ i \in DOMAIN new => routes[p].up = new[i]
    BY <2>1, <2>2 DEF Route
  <2>4. QED
    BY <2>3 DEF i, route
<1>4. moved \in PartRows /\ moved.ups = partHost[h].ups /\ moved.routes = routes
  <2>1. routes \in [RoutePaths -> Route]
    BY <1>3
  <2>. HIDE DEF routes
  <2>2. QED
    BY <1>1, <2>1 DEF PartRows, Route
<1>5. PICK row \in PartRows : /\ partHost' = [partHost EXCEPT ![h] = row]
                              /\ IF k.live THEN row = moved ELSE row = partHost[h]
  <2>1. CASE k.live
    <3>1. partHost' = [partHost EXCEPT ![h].routes = [p \in RoutePaths |-> Remap(@[p], k.old, new)]]
      BY <1>0, <2>1 DEF RemapRoutes
    <3>2. partHost' = [partHost EXCEPT ![h] = moved]
      BY <1>1, <3>1 DEF PartRowsOK
    <3>. HIDE DEF moved
    <3>3. QED
      BY <1>4, <2>1, <3>2
  <2>2. CASE ~k.live
    <3>1. partHost' = [partHost EXCEPT ![h] = partHost[h]]
      BY <1>0, <1>1, <2>2 DEF RemapRoutes, PartRowsOK
    <3>2. QED
      BY <1>1, <2>2, <3>1
  <2>3. QED
    BY <2>1, <2>2
<1>6. partCut' = IF \E p \in RoutePaths : partHost[h].routes[p].pos > Len(new) THEN partCut \cup {h} ELSE partCut
  BY <1>0 DEF RemapRoutes
<1>. HIDE DEF moved, routes
<1>7. \A g \in PartHosts : partHost'[g] = IF g = h THEN row ELSE partHost[g]
  BY <1>1, <1>5 DEF PartRowsOK
<1>8. /\ partHost' \in [PartHosts -> PartRows] /\ partCut' \subseteq PartHosts /\ partIds' \in 0 .. MaxParts /\ partIds <= partIds'
      /\ PartDone \in PartCalls /\ PartDone.step = "done" /\ PartPending(PartDone)'
  BY <1>1, <1>5, <1>6, PartNumbers, PartRests DEF PartRowsOK, PartPending
<1>9. Granted(PartDone, h)
  <2>1. ASSUME NEW i \in PartIdSet, Holds(row, i)
        PROVE  Owns(h, i)
    <3>1. Holds(partHost[h], i) \/ i \in Range(new)
      BY <1>3, <1>4, <1>5, <2>1 DEF Holds
    <3>2. i \in Range(new) => Keeps(k, h, i)
      BY <1>0, <1>1 DEF Keeps, Holds
    <3>3. QED
      BY <1>0, <3>1, <3>2 DEF Owns
  <2>2. QED
    BY <1>7, <1>8, <2>1 DEF Granted, Keeps, Owns
<1>10. ASSUME ~partMet'
       PROVE  \A g \in PartHosts : UpsDiffer(partHost'[g].ups) /\ (g \notin partCut' => InPlace(partHost'[g].ups, partHost'[g].routes))
  <2>1. /\ k.live /\ UpsDiffer(k.old) /\ (h \notin partCut => InPlace(k.old, partHost[h].routes)) /\ new = partHost[h].ups
    BY <1>0, <1>1, <1>2, <1>10 DEF PartPending
  <2>2. row.ups = new /\ row.routes = routes
    BY <1>4, <1>5, <2>1
  <2>3. ASSUME h \notin partCut', NEW p \in RoutePaths, routes[p].pos # 0
        PROVE  routes[p].pos \in DOMAIN new /\ routes[p].up = new[routes[p].pos]
    <3>. DEFINE route == partHost[h].routes[p]
    <3>1. route \in Route /\ route.pos = routes[p].pos
      BY <1>1, <1>3
    <3>2. h \notin partCut /\ ~(route.pos > Len(new))
      BY <1>6, <2>3
    <3>3. route.pos \in DOMAIN k.old /\ route.up = k.old[route.pos]
      BY <2>1, <2>3, <3>1, <3>2 DEF InPlace
    <3>4. PlaceOf(k.old, route.up) = route.pos
      BY <1>1, <2>1, <3>3, PlaceIsOne
    <3>5. route.pos \in 1 .. Len(new) /\ DOMAIN new = 1 .. Len(new)
      <4>1. route.pos \in Nat /\ route.pos # 0 /\ Len(new) \in Nat
        BY <1>1, <2>3, <3>1, LenProperties DEF Route
      <4>2. QED
        BY <1>1, <3>2, <4>1, LenProperties
    <3>6. QED
      BY <1>3, <3>1, <3>4, <3>5
  <2>4. h \notin partCut' => InPlace(row.ups, row.routes)
    BY <2>2, <2>3 DEF InPlace
  <2>5. \A g \in PartHosts : g # h => UpsDiffer(partHost[g].ups) /\ (g \notin partCut' => InPlace(partHost[g].ups, partHost[g].routes))
    BY <1>0, <1>1, <1>2, <1>6, <1>10 DEF PartCalm
  <2>6. UpsDiffer(row.ups)
    BY <1>2, <1>10, <2>1, <2>2 DEF PartCalm
  <2>7. QED
    BY <1>7, <2>4, <2>5, <2>6
<1>11. StaysCalm(r, PartDone)
  BY <1>2, <1>8, <1>10 DEF StaysCalm
<1>12. QED
  BY <1>1, <1>2, <1>8, <1>9, <1>11, PartMoves

\* The host is saved as it was read; upstreams that are there are not inserted again.
LEMMA PartToggles == ASSUME PartInv, NEW r \in PartReqs, SaveToggled(r) PROVE PartInv'
<1>0. PICK k \in PartCalls, h \in PartHosts : k = partReq[r] /\ h = k.h
  BY DEF SaveToggled, PartAt, PartInv, PartRowsOK
<1>. DEFINE back == DropFrom(k.row.ups, Range(partHost[h].ups))
<1>1. /\ PartRowsOK /\ ~PartAt(r, "done") /\ partReq' = [partReq EXCEPT ![r] = PartDone] /\ UNCHANGED <<partMet, partIds, partCut>>
      /\ k.step = "toggle" /\ k.row.ups \in Seq(PartIdSet) /\ partHost[h] \in PartRows
  BY <1>0 DEF SaveToggled, PartAt, PartEnd, PartInv, PartRowsOK, PartCalls, PartRows
<1>2. /\ partMet' \in BOOLEAN /\ (partMet => partMet')
      /\ ~partMet' => /\ PartCalm /\ PartPending(k) /\ \A q \in PartReqs \ {r} : PartAt(q, "done")
                      /\ \A g \in PartHosts : PartReplaces(g) <=> k.h = g /\ k.step \in {"save", "remap"}
  BY <1>0, <1>1, PartGoesOn
<1>3. /\ back \in Seq(PartIdSet) /\ (\A i \in Range(back) : i \in Range(k.row.ups))
      /\ k.row.ups = partHost[h].ups => back = <<>>
  <2>1. /\ back \in Seq(PartIdSet) /\ (\A a \in DOMAIN back : back[a] \notin Range(partHost[h].ups))
        /\ From(k.row.ups, back, Len(k.row.ups))
    BY <1>1, DropFromProperties
  <2>. HIDE DEF back
  <2>2. \A a \in DOMAIN back : back[a] \in Range(k.row.ups)
    BY <1>1, <2>1, LenProperties DEF From, Range
  <2>3. k.row.ups = partHost[h].ups => DOMAIN back = {}
    BY <2>1, <2>2
  <2>4. DOMAIN back = {} => back = <<>>
    BY <2>1, LenProperties, EmptySeq
  <2>5. QED
    BY <2>1, <2>2, <2>3, <2>4 DEF Range
<1>. HIDE DEF back
<1>4. PICK row \in PartRows :
        /\ partHost' = [partHost EXCEPT ![h] = row]
        /\ \A i \in PartIdSet : Holds(row, i) => \/ i \in Range(back) \/ Holds(partHost[h], i)
                                                 \/ \E p \in RoutePaths : k.row.routes[p].up = i
        /\ partHost[h].there => row.routes = partHost[h].routes /\ (back = <<>> => row.ups = partHost[h].ups)
  <2>1. CASE Overtaken(r)
    <3>1. partHost' = [partHost EXCEPT ![h] = partHost[h]]
      BY <1>1, <2>1 DEF SaveToggled, PartRowsOK
    <3>2. QED
      BY <1>1, <3>1
  <2>2. CASE ~Overtaken(r)
    <3>1. partHost' = Saved(r, back)
      BY <1>0, <2>2 DEF SaveToggled, back
    <3>1a. PICK row \in PartRows : SavesRow(r, h, k, back, row)
      BY <1>0, <1>1, <1>3, SavedRow
    <3>2. /\ Saved(r, back) = [partHost EXCEPT ![h] = row]
          /\ \A i \in PartIdSet : Holds(row, i) => \/ i \in Range(back) \/ Holds(partHost[h], i)
                                                   \/ \E p \in RoutePaths : k.row.routes[p].up = i
          /\ partHost[h].there => /\ row.there /\ row.routes = partHost[h].routes
                                  /\ partHost[h].ups = <<>> => row.ups = back
                                  /\ back = <<>> => row.ups = partHost[h].ups
      BY <3>1a DEF SavesRow
    <3>3. QED
      BY <3>1, <3>2
  <2>3. QED
    BY <2>1, <2>2
<1>5. \A g \in PartHosts : partHost'[g] = IF g = h THEN row ELSE partHost[g]
  BY <1>1, <1>4 DEF PartRowsOK
<1>6. /\ partHost' \in [PartHosts -> PartRows] /\ partCut' \subseteq PartHosts /\ partIds' \in 0 .. MaxParts /\ partIds <= partIds'
      /\ PartDone \in PartCalls /\ PartDone.step = "done" /\ PartPending(PartDone)'
  BY <1>1, <1>4, PartNumbers, PartRests DEF PartRowsOK, PartPending
<1>7. Granted(PartDone, h)
  <2>1. ASSUME NEW i \in PartIdSet, Holds(row, i)
        PROVE  Owns(h, i)
    <3>1. Holds(partHost[h], i) \/ Holds(k.row, i)
      BY <1>3, <1>4, <2>1 DEF Holds
    <3>2. Holds(k.row, i) => Keeps(k, h, i)
      BY <1>0, <1>1 DEF Keeps
    <3>3. QED
      BY <1>0, <3>1, <3>2 DEF Owns
  <2>2. QED
    BY <1>5, <1>6, <2>1 DEF Granted, Keeps, Owns
<1>8. ASSUME ~partMet'
      PROVE  \A g \in PartHosts : UpsDiffer(partHost'[g].ups) /\ (g \notin partCut' => InPlace(partHost'[g].ups, partHost'[g].routes))
  <2>1. partHost[h].there /\ k.row = partHost[h]
    BY <1>0, <1>1, <1>2, <1>8 DEF PartPending
  <2>2. row.routes = partHost[h].routes /\ row.ups = partHost[h].ups
    BY <1>3, <1>4, <2>1
  <2>3. \A g \in PartHosts : UpsDiffer(partHost[g].ups) /\ (g \notin partCut => InPlace(partHost[g].ups, partHost[g].routes))
    BY <1>1, <1>2, <1>8 DEF PartCalm
  <2>4. QED
    BY <1>1, <1>5, <2>2, <2>3
<1>9. StaysCalm(r, PartDone)
  BY <1>2, <1>6, <1>8 DEF StaysCalm
<1>10. QED
  BY <1>1, <1>2, <1>6, <1>7, <1>9, PartMoves

\* The panel dies.
LEMMA PartDies == PartInv /\ PartPanelDies => PartInv'
<1>. SUFFICES ASSUME PartInv, PartPanelDies PROVE PartInv'
  OBVIOUS
<1>1. PartRowsOK'
  BY PartRests DEF PartPanelDies, PartInv, PartRowsOK
<1>2. \A h \in PartHosts, i \in PartIdSet : Owns(h, i)' => Owns(h, i)
  BY PartRests DEF PartPanelDies, Owns, Keeps
<1>3. OneOwner'
  BY <1>2 DEF PartPanelDies, PartInv, OneOwner
<1>4. QED
  BY <1>1, <1>3 DEF PartPanelDies, PartInv

\* At the start no id has been given.
LEMMA PartInvInit == PartInit => PartInv
<1>. SUFFICES ASSUME PartInit PROVE PartInv
  OBVIOUS
<1>1. PartRowsOK
  <2>1. partHost \in [PartHosts -> PartRows] /\ partReq \in [PartReqs -> PartCalls]
    BY PartRests DEF PartInit
  <2>2. 0 \in 0 .. MaxParts
    BY PartsAssumption
  <2>3. \A r \in PartReqs : partReq[r].step = "done"
    BY PartRests DEF PartInit
  <2>4. QED
    BY <2>1, <2>2, <2>3 DEF PartInit, PartRowsOK
<1>2. \A h \in PartHosts, i \in PartIdSet : ~Owns(h, i)
  <2>1. Range(<<>>) = {}
    BY DEF Range
  <2>2. QED
    BY <1>1, <2>1, PartRests, PartNumbers DEF PartInit, Owns, Holds, Keeps
<1>3. PartCalm
  BY PartRests DEF PartInit, PartCalm, PartAt, PartPending, UpsDiffer, InPlace
<1>4. QED
  BY <1>1, <1>2, <1>3 DEF PartInv, OneOwner

\* A step of something else keeps the invariant.
LEMMA PartInvSame == PartInv /\ UNCHANGED partVars => PartInv'
  BY DEF PartInv, partVars, PartRowsOK, OneOwner, Owns, PartCalm, PartAt, PartPending, PartReplaces

\* Every step of the hosts' parts keeps the invariant.
LEMMA PartInvStep == ASSUME PartInv, PartNext PROVE PartInv'
<1>1. CASE PartPanelDies
  BY <1>1, PartDies
<1>2. ASSUME NEW r \in PartReqs, PartRequest(r)
      PROVE  PartInv'
  <2>1. CASE \E h \in PartHosts, n \in 0 .. 2 : CreateParts(r, h, n) \/ StripParts(r, h, n)
    <3>1. \A n \in 0 .. 2 : n \in Nat
      OBVIOUS
    <3>2. QED
      BY <2>1, <3>1, PartCreates, PartStrips
  <2>2. CASE \E h \in PartHosts, n \in 0 .. 2, pos \in [RoutePaths -> 0 .. 2] : ImportParts(r, h, n, pos)
    <3>1. PICK h \in PartHosts, n \in 0 .. 2, pos \in [RoutePaths -> 0 .. 2] : ImportParts(r, h, n, pos)
      BY <2>2
    <3>2. n \in Nat /\ pos \in [RoutePaths -> Nat]
      OBVIOUS
    <3>3. QED
      BY <3>1, <3>2, PartImports
  <2>3. CASE \E h, k \in PartHosts : CoreCloneHost(r, h, k) \/ ReadSource(r, h, k)
    <3>1. PICK h, k \in PartHosts : CoreCloneHost(r, h, k) \/ ReadSource(r, h, k)
      BY <2>3
    <3>2. CASE CoreCloneHost(r, h, k)
      <4>1. PICK n \in Nat : CreateParts(r, k, n)
        BY <3>2 DEF CoreCloneHost
      <4>2. QED
        BY <4>1, PartCreates
    <3>3. CASE ReadSource(r, h, k)
      BY <3>3, PartReads
    <3>4. QED
      BY <3>1, <3>2, <3>3
  <2>4. CASE \E h \in PartHosts : DeleteParts(r, h) \/ OpenParts(r, h)
    <3>1. PICK h \in PartHosts : DeleteParts(r, h) \/ OpenParts(r, h)
      BY <2>4
    <3>2. CASE DeleteParts(r, h)
      BY <3>2, PartDeletes
    <3>3. CASE OpenParts(r, h)
      BY <3>3, PartReads
    <3>4. QED
      BY <3>1, <3>2, <3>3
  <2>5. CASE RefuseParts(r) \/ SaveParts(r) \/ RemapRoutes(r) \/ SaveToggled(r) \/ InsertCopy(r)
    BY <2>5, PartRefuses, PartSaves, PartRemaps, PartToggles, PartCopies
  <2>6. QED
    BY <1>2, <2>1, <2>2, <2>3, <2>4, <2>5 DEF PartRequest
<1>3. QED
  BY <1>1, <1>2 DEF PartNext

\* The invariant is enough for what the run checks.
LEMMA PartInvSound == PartInv => RoutesKept
<1>. SUFFICES ASSUME PartInv, NEW h \in PartHosts, NEW p \in RoutePaths
              PROVE  LET route == partHost[h].routes[p] IN
                     /\ \A k \in PartHosts \ {h} : ~Contains(partHost[k].ups, route.up)
                     /\ (~partMet /\ h \notin partCut /\ ~Working(h) /\ route.pos # 0) =>
                          route.pos \in DOMAIN partHost[h].ups /\ route.up = partHost[h].ups[route.pos]
  BY DEF RoutesKept
<1>1. ASSUME NEW k \in PartHosts \ {h}, Contains(partHost[k].ups, partHost[h].routes[p].up)
      PROVE  FALSE
  <2>. DEFINE i == partHost[h].routes[p].up
  <2>1. partHost[k].ups \in Seq(PartIdSet)
    BY DEF PartInv, PartRowsOK, PartRows
  <2>2. PICK j \in 1 .. Len(partHost[k].ups) : partHost[k].ups[j] = i
    BY <1>1 DEF Contains
  <2>3. i \in PartIdSet /\ i \in Range(partHost[k].ups)
    BY <2>1, <2>2, LenProperties DEF Range
  <2>4. Owns(h, i) /\ Owns(k, i)
    BY <2>3 DEF Owns, Holds
  <2>5. QED
    BY <2>3, <2>4 DEF PartInv, OneOwner
<1>2. ASSUME ~partMet, h \notin partCut, ~Working(h), partHost[h].routes[p].pos # 0
      PROVE  InPlace(partHost[h].ups, partHost[h].routes)
  BY <1>2 DEF PartInv, PartCalm, PartReplaces, Working, PartAt
<1>3. QED
  BY <1>1, <1>2 DEF InPlace

-----------------------------------------------------------------------------
(* What hosts refer to.                                                    *)

CatSteps == {"done", "group", "tag", "host", "tags", "clone", "provider", "unprovide", "key", "row", "uncert"}
CatNames == CatIds \cup CatHosts \cup CatCerts \cup {NoRef}
CatCalls == [step : CatSteps, x : CatNames, row : HostRow, tags : SUBSET CatTags, flag : BOOLEAN]
CatExports == [hosts : [CatHosts -> HostRow], tags : SUBSET (CatHosts \X CatTags)]
CertFiles == CatCerts \X {"cert", "key"}

CatRowsOK ==
  /\ catHost \in [CatHosts -> HostRow] /\ hostTags \subseteq CatHosts \X CatTags
  /\ catRows \subseteq CatIds /\ catUsed \subseteq CatIds \cup CatHosts \cup CatCerts
  /\ catDefault \subseteq Providers /\ catCert \in [CatCerts -> CertDirs \cup {NoRef}]
  /\ catFiles \in [CertDirs -> SUBSET CertFiles] /\ catExport \in CatExports
  /\ templates \subseteq Presets \cup Customs /\ seeding \subseteq Presets
  /\ catOld \in BOOLEAN /\ seedTorn \in BOOLEAN

\* What a request is about.
CatCallSound(k) ==
  /\ k.step = "group" => k.x \in CatGroups
  /\ k.step = "tag" => k.x \in CatTags
  /\ k.step \in {"host", "tags", "clone"} => k.x \in CatHosts
  /\ k.step = "tags" => k.x \in catUsed
  /\ k.step \in {"host", "clone"} => k.row.there
  /\ k.step \in {"provider", "unprovide"} => k.x \in Providers
  /\ k.step \in {"key", "row", "uncert"} => k.x \in CatCerts

\* Presets that are neither there nor still to come were lost in a first insertion that was torn.
SeedSound == ~seedTorn => Presets \ seeding \subseteq templates

\* A host that is not there has no references, here and in the export.
GoneSound ==
  /\ \A h \in CatHosts : ~catHost[h].there => catHost[h] = NoHostRow
  /\ \A h \in CatHosts : ~catExport.hosts[h].there => catExport.hosts[h] = NoHostRow

\* Tags belong to hosts whose ids have been given, here and in the export.
TagsSound == \A p \in hostTags \cup catExport.tags : p[1] \in catUsed

\* A certificate is written once, into one directory, which holds one.
CertsSound ==
  \A d \in CertDirs, c \in CatCerts : <<c, "cert">> \in catFiles[d] =>
    /\ c \in catUsed
    /\ \A e \in CertDirs : <<c, "cert">> \in catFiles[e] => e = d
    /\ \A b \in CatCerts : <<b, "cert">> \in catFiles[d] => b = c

\* What a row refers to is there.
Refers(row) ==
  /\ row.group \in catRows \cup {NoRef} /\ row.dns \in catRows \cup {NoRef}
  /\ row.cert # NoRef => catCert[row.cert] # NoRef

Stored(c, d) == <<c, "cert">> \in catFiles[d] /\ <<c, "key">> \in catFiles[d]

\* What a request alone still has to do.
CatPending(k) ==
  /\ k.step = "group" => \A h \in CatHosts : catHost[h].group # k.x
  /\ k.step = "tag" => \A p \in hostTags : p[2] # k.x
  /\ k.step \in {"host", "clone"} /\ ~catOld => Refers(k.row)
  /\ k.step \in {"host", "clone", "tags"} /\ ~catOld => k.tags \subseteq catRows
  /\ k.step = "host" => catHost[k.x].there \/ k.x \notin catUsed
  /\ k.step = "clone" => k.x \notin catUsed
  /\ k.step = "provider" /\ k.flag => catDefault = {}
  /\ k.step = "unprovide" => \A h \in CatHosts : catHost[h].dns # k.x
  /\ k.step = "uncert" => \A h \in CatHosts : catHost[h].cert # k.x
  /\ k.step \in {"key", "row"} =>
       \A d \in CertDirs : <<k.x, "cert">> \in catFiles[d] =>
         /\ \A b \in CatCerts : catCert[b] # d
         /\ k.step = "row" => <<k.x, "key">> \in catFiles[d]

\* What hosts refer to is there.
RefsSound ==
  \A h \in CatHosts : catHost[h].there =>
    Refers(catHost[h]) /\ \A t \in CatTags : <<h, t>> \in hostTags => t \in catRows

\* While k is all that is done.
CatSettled(k) ==
  /\ CatPending(k)
  /\ \A p, q \in catDefault : p = q
  /\ \A c \in CatCerts : catCert[c] # NoRef /\ ~(k.step = "uncert" /\ k.x = c) => Stored(c, catCert[c])
  /\ ~catOld => RefsSound

Removing(c) == \E r \in CatReqs : CatAt(r, "uncert") /\ catReq[r].x = c

CatCalm ==
  /\ \A r, q \in CatReqs : r # q => CatAt(r, "done") \/ CatAt(q, "done")
  /\ \A r \in CatReqs : CatPending(catReq[r])
  /\ \A p, q \in catDefault : p = q
  /\ \A c \in CatCerts : catCert[c] # NoRef /\ ~Removing(c) => Stored(c, catCert[c])
  /\ ~catOld => RefsSound

CatInv ==
  /\ CatRowsOK /\ SeedSound /\ GoneSound /\ TagsSound /\ CertsSound
  /\ catReq \in [CatReqs -> CatCalls] /\ catMet \in BOOLEAN
  /\ \A r \in CatReqs : CatCallSound(catReq[r])
  /\ ~catMet => CatCalm

\* Who asks for nothing.
LEMMA CatRests ==
  /\ NoHostRow \in HostRow /\ ~NoHostRow.there /\ NoHostRow.group = NoRef /\ NoHostRow.dns = NoRef /\ NoHostRow.cert = NoRef
  /\ CatIdle \in CatCalls /\ CatIdle.step = "done"
<1>1. NoHostRow \in HostRow
  BY DEF NoHostRow, HostRow
<1>2. CatIdle \in CatCalls
  BY <1>1 DEF CatIdle, CatCalls, CatSteps, CatNames
<1>3. QED
  BY <1>1, <1>2 DEF NoHostRow, CatIdle

\* A row without its group.
LEMMA CatUngrouped ==
  ASSUME NEW row \in HostRow
  PROVE  /\ [row EXCEPT !.group = NoRef] \in HostRow
         /\ [row EXCEPT !.group = NoRef].group = NoRef /\ [row EXCEPT !.group = NoRef].dns = row.dns
         /\ [row EXCEPT !.group = NoRef].cert = row.cert /\ ([row EXCEPT !.group = NoRef].there <=> row.there)
         /\ row = NoHostRow => [row EXCEPT !.group = NoRef] = NoHostRow
<1>0. NoRef \in CatGroups \cup {NoRef}
  OBVIOUS
<1>1. [row EXCEPT !.group = NoRef] \in HostRow
  BY <1>0 DEF HostRow
<1>2. row = NoHostRow => [row EXCEPT !.group = NoRef] = NoHostRow
  <2>1. \A q \in HostRow : q = [there |-> q.there, group |-> q.group, dns |-> q.dns, cert |-> q.cert]
    BY DEF HostRow
  <2>2. [row EXCEPT !.group = NoRef].group = NoRef /\ [row EXCEPT !.group = NoRef].dns = row.dns
        /\ [row EXCEPT !.group = NoRef].cert = row.cert /\ [row EXCEPT !.group = NoRef].there = row.there
    BY DEF HostRow
  <2>3. QED
    BY <1>1, <2>1, <2>2 DEF NoHostRow
<1>3. QED
  BY <1>1, <1>2 DEF HostRow

\* A request alone that becomes k leaves everything settled.
CatStaysCalm(r, k) == ~catMet' => (\A q \in CatReqs \ {r} : CatAt(q, "done")) /\ CatSettled(k)'

\* A request begins, goes on or ends.
LEMMA CatMoves ==
  ASSUME CatInv, NEW r \in CatReqs, NEW k \in CatCalls, CatCallSound(k)', catReq' = [catReq EXCEPT ![r] = k],
         catMet' \in BOOLEAN, catMet => catMet', CatRowsOK', SeedSound', GoneSound', TagsSound', CertsSound',
         catUsed \subseteq catUsed', CatStaysCalm(r, k)
  PROVE  CatInv'
<1>1. \A q \in CatReqs : catReq'[q] = IF q = r THEN k ELSE catReq[q]
  BY DEF CatInv
<1>2. catReq' \in [CatReqs -> CatCalls]
  BY DEF CatInv
<1>3. ASSUME NEW q \in CatReqs
      PROVE  CatCallSound(catReq[q])'
  <2>1. CASE q = r
    BY <1>1, <2>1
  <2>2. CASE q # r
    <3>1. CatCallSound(catReq[q]) /\ catReq'[q] = catReq[q]
      BY <1>1, <2>2 DEF CatInv
    <3>2. QED
      BY <3>1 DEF CatCallSound
  <2>3. QED
    BY <2>1, <2>2
<1>4. ASSUME ~catMet'
      PROVE  CatCalm'
  <2>1. (\A q \in CatReqs : q # r => catReq'[q].step = "done") /\ CatSettled(k)'
    BY <1>1, <1>4 DEF CatAt, CatStaysCalm
  <2>2. \A q, s \in CatReqs : q # s => CatAt(q, "done")' \/ CatAt(s, "done")'
    BY <2>1 DEF CatAt
  <2>3. \A q \in CatReqs : CatPending(catReq[q])'
    <3>1. CatPending(k)'
      BY <2>1 DEF CatSettled
    <3>2. QED
      BY <1>1, <2>1, <3>1 DEF CatPending
  <2>4. \A c \in CatCerts : Removing(c)' => (k.step = "uncert" /\ k.x = c)
    BY <1>1, <2>1 DEF Removing, CatAt
  <2>5. \A c \in CatCerts : (k.step = "uncert" /\ k.x = c) => Removing(c)'
    BY <1>1 DEF Removing, CatAt
  <2>6. QED
    BY <2>1, <2>2, <2>3, <2>4, <2>5 DEF CatCalm, CatSettled
<1>5. QED
  BY <1>2, <1>3, <1>4 DEF CatInv

\* What a request alone finds settled.
LEMMA CatAlone ==
  ASSUME CatInv, NEW r \in CatReqs, ~catMet, \A q \in CatReqs \ {r} : CatAt(q, "done")
  PROVE  CatSettled(catReq[r])
<1>1. \A c \in CatCerts : Removing(c) <=> catReq[r].step = "uncert" /\ catReq[r].x = c
  BY DEF Removing, CatAt
<1>2. QED
  BY <1>1 DEF CatInv, CatCalm, CatSettled

\* What a request finds that begins alone.
LEMMA CatQuiet ==
  ASSUME CatInv, NEW r \in CatReqs, CatAt(r, "done"), catMet' = (catMet \/ CatBusy)
  PROVE  /\ catMet' \in BOOLEAN /\ (catMet => catMet')
         /\ ~catMet' => (\A q \in CatReqs : CatAt(q, "done")) /\ CatSettled(CatIdle)
<1>1. catMet \in BOOLEAN /\ CatBusy \in BOOLEAN
  BY DEF CatInv, CatBusy
<1>2. ASSUME ~catMet'
      PROVE  (\A q \in CatReqs : CatAt(q, "done")) /\ CatSettled(CatIdle)
  <2>1. ~catMet /\ \A q \in CatReqs : CatAt(q, "done")
    BY <1>1, <1>2 DEF CatBusy
  <2>2. CatSettled(catReq[r])
    BY <2>1, CatAlone
  <2>3. QED
    BY <2>1, <2>2, CatRests DEF CatSettled, CatPending, CatAt
<1>3. QED
  BY <1>1, <1>2

CatAsk(step, x, row, tags) == [step |-> step, x |-> x, row |-> row, tags |-> tags, flag |-> FALSE]

\* A request that begins, as it is then.
LEMMA CatAsked ==
  ASSUME NEW step \in CatSteps, NEW x \in CatNames, NEW row \in HostRow, NEW tags \in SUBSET CatTags
  PROVE  /\ CatAsk(step, x, row, tags) \in CatCalls
         /\ CatAsk(step, x, row, tags).step = step /\ CatAsk(step, x, row, tags).x = x
         /\ CatAsk(step, x, row, tags).row = row /\ CatAsk(step, x, row, tags).tags = tags
  BY DEF CatAsk, CatCalls

\* What a request of one statement does, apart from what is written.
LEMMA CatAtOnce ==
  ASSUME CatInv, NEW r \in CatReqs, AtOnce(r)
  PROVE  /\ catMet' \in BOOLEAN /\ (catMet => catMet')
         /\ ~catMet' => (\A q \in CatReqs : CatAt(q, "done")) /\ CatSettled(CatIdle)
         /\ \E k \in CatCalls : catReq' = [catReq EXCEPT ![r] = k] /\ k.step = "done"
<1>1. CatAt(r, "done") /\ catMet' = (catMet \/ CatBusy) /\ catReq' = catReq
  BY DEF AtOnce
<1>2. catReq[r] \in CatCalls /\ catReq[r].step = "done" /\ catReq' = [catReq EXCEPT ![r] = catReq[r]]
  BY <1>1 DEF CatAt, CatInv
<1>3. QED
  BY <1>1, <1>2, CatQuiet

\* What a request finds that goes on or ends.
LEMMA CatEnds ==
  ASSUME CatInv, NEW r \in CatReqs, UNCHANGED catMet, ~CatAt(r, "done")
  PROVE  /\ catMet' \in BOOLEAN /\ (catMet => catMet')
         /\ ~catMet' => (\A q \in CatReqs \ {r} : CatAt(q, "done")) /\ CatSettled(catReq[r])
<1>1. catMet \in BOOLEAN
  BY DEF CatInv
<1>2. ~catMet => \A q \in CatReqs \ {r} : CatAt(q, "done")
  BY DEF CatInv, CatCalm
<1>3. QED
  BY <1>1, <1>2, CatAlone

\* What a step leaves as it is stays sound.
LEMMA CatKept ==
  ASSUME CatInv
  PROVE  /\ UNCHANGED tplVars => SeedSound'
         /\ UNCHANGED <<catHost, catExport>> => GoneSound'
         /\ UNCHANGED <<hostTags, catExport>> /\ catUsed \subseteq catUsed' => TagsSound'
         /\ UNCHANGED catFiles /\ catUsed \subseteq catUsed' => CertsSound'
<1>1. UNCHANGED tplVars => SeedSound'
  BY DEF CatInv, SeedSound, tplVars
<1>2. UNCHANGED <<catHost, catExport>> => GoneSound'
  BY DEF CatInv, GoneSound
<1>3. UNCHANGED <<hostTags, catExport>> /\ catUsed \subseteq catUsed' => TagsSound'
  BY DEF CatInv, TagsSound
<1>4. UNCHANGED catFiles /\ catUsed \subseteq catUsed' => CertsSound'
  BY DEF CatInv, CertsSound
<1>5. QED
  BY <1>1, <1>2, <1>3, <1>4

\* Groups and tags come and go; the references go first.
LEMMA CatCreatesRow ==
  ASSUME CatInv, NEW r \in CatReqs, NEW id \in CatGroups \cup CatTags, CreateRow(r, id)
  PROVE  CatInv'
<1>1. /\ AtOnce(r) /\ UNCHANGED <<catHost, hostTags, catDefault, catCert, catFiles, catExport, tplVars, catOld>>
      /\ catRows' = catRows \cup {id} /\ catUsed' = catUsed \cup {id} /\ id \in CatIds
  BY DEF CreateRow, catHostVars, catCertVars, CatIds
<1>2. PICK k \in CatCalls : catReq' = [catReq EXCEPT ![r] = k] /\ k.step = "done"
  BY <1>1, CatAtOnce
<1>3. /\ catMet' \in BOOLEAN /\ (catMet => catMet')
      /\ ~catMet' => (\A q \in CatReqs : CatAt(q, "done")) /\ CatSettled(CatIdle)
  BY <1>1, CatAtOnce
<1>4. CatRowsOK'
  BY <1>1 DEF CatInv, CatRowsOK, tplVars
<1>5. SeedSound' /\ GoneSound' /\ TagsSound' /\ CertsSound' /\ catUsed \subseteq catUsed'
  BY <1>1, CatKept
<1>6. CatSettled(CatIdle) => CatSettled(k)'
  BY <1>1, <1>2, CatRests DEF CatSettled, CatPending, RefsSound, Refers, Stored
<1>7. CatStaysCalm(r, k)
  BY <1>3, <1>6 DEF CatStaysCalm
<1>8. CatCallSound(k)'
  BY <1>2 DEF CatCallSound
<1>9. QED
  BY <1>2, <1>3, <1>4, <1>5, <1>7, <1>8, CatMoves

\* A group is taken from its hosts, before its row goes.
LEMMA CatDeletesGroup ==
  ASSUME CatInv, NEW r \in CatReqs, NEW g \in CatGroups, DeleteGroup(r, g)
  PROVE  CatInv'
<1>1. /\ Begin(r, "group", g, NoHostRow, {}, FALSE)
      /\ catHost' = [h \in CatHosts |-> IF catHost[h].group = g THEN [catHost[h] EXCEPT !.group = NoRef] ELSE catHost[h]]
      /\ UNCHANGED <<hostTags, catRows, catUsed, catDefault, catCert, catFiles, catExport, tplVars, catOld>>
  BY DEF DeleteGroup, catCertVars
<1>2. "group" \in CatSteps /\ g \in CatNames /\ g \in CatGroups /\ {} \in SUBSET CatTags
  BY DEF CatSteps, CatNames, CatIds
<1>3. /\ catMet' \in BOOLEAN /\ (catMet => catMet')
      /\ ~catMet' => (\A q \in CatReqs : CatAt(q, "done")) /\ CatSettled(CatIdle)
      /\ catReq' = [catReq EXCEPT ![r] = CatAsk("group", g, NoHostRow, {})]
  BY <1>1, CatQuiet DEF Begin, CatAsk
<1>4. PICK k \in CatCalls : k = CatAsk("group", g, NoHostRow, {}) /\ k.step = "group" /\ k.x = g
  BY <1>2, CatRests, CatAsked
<1>5. ASSUME NEW h \in CatHosts
      PROVE  /\ catHost'[h] \in HostRow /\ (catHost'[h].there <=> catHost[h].there)
             /\ catHost'[h].dns = catHost[h].dns /\ catHost'[h].cert = catHost[h].cert
             /\ catHost'[h].group = (IF catHost[h].group = g THEN NoRef ELSE catHost[h].group)
             /\ catHost[h] = NoHostRow => catHost'[h] = NoHostRow
  <2>1. catHost[h] \in HostRow /\ catHost'[h] = IF catHost[h].group = g THEN [catHost[h] EXCEPT !.group = NoRef] ELSE catHost[h]
    BY <1>1 DEF CatInv, CatRowsOK
  <2>2. CASE catHost[h].group = g
    BY <2>1, <2>2, CatUngrouped
  <2>3. CASE catHost[h].group # g
    BY <2>1, <2>3
  <2>4. QED
    BY <2>2, <2>3
<1>6. CatRowsOK'
  <2>1. catHost' \in [CatHosts -> HostRow]
    BY <1>1, <1>5
  <2>2. QED
    BY <1>1, <2>1 DEF CatInv, CatRowsOK, tplVars
<1>7. SeedSound' /\ GoneSound' /\ TagsSound' /\ CertsSound' /\ catUsed \subseteq catUsed'
  <2>1. GoneSound'
    BY <1>1, <1>5 DEF CatInv, GoneSound
  <2>2. QED
    BY <1>1, <2>1, CatKept
<1>8. CatSettled(CatIdle) => CatSettled(k)'
  <2>1. \A h \in CatHosts : catHost'[h].group # g
    BY <1>2, <1>5, CatalogAssumption DEF CatIds
  <2>2. ASSUME CatSettled(CatIdle)
        PROVE  CatSettled(k)'
    <3>1. ~catOld => RefsSound'
      BY <1>1, <1>5, <2>2 DEF CatSettled, RefsSound, Refers
    <3>2. CatPending(k)'
      BY <1>4, <2>1 DEF CatPending
    <3>3. QED
      BY <1>1, <1>4, <2>2, <3>1, <3>2, CatRests DEF CatSettled, Stored
  <2>3. QED
    BY <2>2
<1>9. CatStaysCalm(r, k)
  BY <1>3, <1>8 DEF CatStaysCalm
<1>10. CatCallSound(k)'
  BY <1>2, <1>4 DEF CatCallSound
<1>11. QED
  BY <1>3, <1>4, <1>6, <1>7, <1>9, <1>10, CatMoves

\* So is a tag.
LEMMA CatDeletesTag ==
  ASSUME CatInv, NEW r \in CatReqs, NEW t \in CatTags, DeleteTag(r, t)
  PROVE  CatInv'
<1>1. /\ Begin(r, "tag", t, NoHostRow, {}, FALSE)
      /\ hostTags' = {p \in hostTags : p[2] # t}
      /\ UNCHANGED <<catHost, catRows, catUsed, catDefault, catCert, catFiles, catExport, tplVars, catOld>>
  BY DEF DeleteTag, catCertVars
<1>2. "tag" \in CatSteps /\ t \in CatNames /\ t \in CatTags /\ {} \in SUBSET CatTags
  BY DEF CatSteps, CatNames, CatIds
<1>3. /\ catMet' \in BOOLEAN /\ (catMet => catMet')
      /\ ~catMet' => (\A q \in CatReqs : CatAt(q, "done")) /\ CatSettled(CatIdle)
      /\ catReq' = [catReq EXCEPT ![r] = CatAsk("tag", t, NoHostRow, {})]
  BY <1>1, CatQuiet DEF Begin, CatAsk
<1>4. PICK k \in CatCalls : k = CatAsk("tag", t, NoHostRow, {}) /\ k.step = "tag" /\ k.x = t
  BY <1>2, CatRests, CatAsked
<1>5. CatRowsOK'
  BY <1>1 DEF CatInv, CatRowsOK, tplVars
<1>6. SeedSound' /\ GoneSound' /\ TagsSound' /\ CertsSound' /\ catUsed \subseteq catUsed'
  <2>1. TagsSound'
    BY <1>1 DEF CatInv, TagsSound
  <2>2. QED
    BY <1>1, <2>1, CatKept
<1>7. ASSUME CatSettled(CatIdle)
      PROVE  CatSettled(k)'
  <2>1. ~catOld => RefsSound'
    BY <1>1, <1>7 DEF CatSettled, RefsSound, Refers
  <2>2. CatPending(k)'
    BY <1>1, <1>4 DEF CatPending
  <2>3. QED
    BY <1>1, <1>4, <1>7, <2>1, <2>2, CatRests DEF CatSettled, Stored
<1>8. CatStaysCalm(r, k)
  BY <1>3, <1>7 DEF CatStaysCalm
<1>9. CatCallSound(k)'
  BY <1>2, <1>4 DEF CatCallSound
<1>10. QED
  BY <1>3, <1>4, <1>5, <1>6, <1>8, <1>9, CatMoves

\* RemoveRow ends a deletion: with the row, or with a refusal.
LEMMA CatRemovesRow ==
  ASSUME CatInv, NEW r \in CatReqs, RemoveRow(r)
  PROVE  CatInv'
<1>1. /\ catReq[r].step \in {"group", "tag"} /\ ~CatAt(r, "done")
      /\ catReq' = [catReq EXCEPT ![r] = CatIdle] /\ UNCHANGED catMet
      /\ catRows' = catRows \ {catReq[r].x} \/ catRows' = catRows
      /\ UNCHANGED <<catHost, hostTags, catUsed, catDefault, catCert, catFiles, catExport, tplVars, catOld>>
  BY DEF RemoveRow, CatAt, Done, catHostVars, catCertVars
<1>2. /\ catMet' \in BOOLEAN /\ (catMet => catMet')
      /\ ~catMet' => (\A q \in CatReqs \ {r} : CatAt(q, "done")) /\ CatSettled(catReq[r])
  BY <1>1, CatEnds
<1>3. CatRowsOK'
  BY <1>1 DEF CatInv, CatRowsOK, tplVars
<1>4. SeedSound' /\ GoneSound' /\ TagsSound' /\ CertsSound' /\ catUsed \subseteq catUsed'
  BY <1>1, CatKept
<1>5. ASSUME CatSettled(catReq[r])
      PROVE  CatSettled(CatIdle)'
  <2>1. ASSUME ~catOld
        PROVE  RefsSound'
    <3>1. RefsSound /\ CatPending(catReq[r]) /\ CatCallSound(catReq[r]) /\ catHost \in [CatHosts -> HostRow] /\ hostTags \subseteq CatHosts \X CatTags
      BY <1>5, <2>1 DEF CatSettled, CatInv, CatRowsOK
    <3>2. ASSUME NEW h \in CatHosts, catHost[h].there
          PROVE  Refers(catHost[h])' /\ \A t \in CatTags : <<h, t>> \in hostTags => t \in catRows'
      <4>1. Refers(catHost[h]) /\ (\A t \in CatTags : <<h, t>> \in hostTags => t \in catRows)
            /\ catHost[h].dns \in Providers \cup {NoRef} /\ catHost[h].group \in CatGroups \cup {NoRef}
        BY <3>1, <3>2 DEF RefsSound, HostRow
      <4>2. CASE catReq[r].step = "group"
        <5>1. catReq[r].x \in CatGroups /\ catHost[h].group # catReq[r].x
          BY <3>1, <4>2 DEF CatCallSound, CatPending
        <5>2. catReq[r].x # catHost[h].dns /\ \A t \in CatTags : t # catReq[r].x
          BY <4>1, <5>1, CatalogAssumption DEF CatIds
        <5>3. QED
          BY <1>1, <4>1, <5>1, <5>2 DEF Refers
      <4>3. CASE catReq[r].step = "tag"
        <5>1. catReq[r].x \in CatTags /\ \A t \in CatTags : <<h, t>> \in hostTags => t # catReq[r].x
          BY <3>1, <4>3 DEF CatCallSound, CatPending
        <5>2. catReq[r].x # catHost[h].dns /\ catReq[r].x # catHost[h].group
          BY <4>1, <5>1, CatalogAssumption DEF CatIds
        <5>3. QED
          BY <1>1, <4>1, <5>1, <5>2 DEF Refers
      <4>4. QED
        BY <1>1, <4>2, <4>3
    <3>3. QED
      BY <1>1, <3>2 DEF RefsSound
  <2>2. CatPending(CatIdle)'
    BY CatRests DEF CatPending
  <2>3. QED
    BY <1>1, <1>5, <2>1, <2>2, CatRests DEF CatSettled, Stored
<1>6. CatStaysCalm(r, CatIdle)
  BY <1>2, <1>5 DEF CatStaysCalm
<1>7. CatCallSound(CatIdle)'
  BY CatRests DEF CatCallSound
<1>8. QED
  BY <1>1, <1>2, <1>3, <1>4, <1>6, <1>7, CatRests, CatMoves

\* A request that has read, and written nothing yet.
LEMMA CatReads ==
  ASSUME CatInv, NEW r \in CatReqs, NEW k \in CatCalls, CatCallSound(k), catReq' = [catReq EXCEPT ![r] = k],
         UNCHANGED <<catHost, hostTags, catRows, catUsed, catDefault, catCert, catFiles, catExport, tplVars, catOld>>,
         catMet' \in BOOLEAN, catMet => catMet',
         ~catMet' => (\A q \in CatReqs : CatAt(q, "done")) /\ CatSettled(CatIdle) /\ CatPending(k)
  PROVE  CatInv'
<1>1. CatRowsOK'
  BY DEF CatInv, CatRowsOK, tplVars
<1>2. SeedSound' /\ GoneSound' /\ TagsSound' /\ CertsSound' /\ catUsed \subseteq catUsed'
  BY CatKept
<1>3. ASSUME CatSettled(CatIdle), CatPending(k)
      PROVE  CatSettled(k)'
  <2>1. CatPending(k)'
    BY <1>3 DEF CatPending, Refers
  <2>2. ~catOld' => RefsSound'
    BY <1>3 DEF CatSettled, RefsSound, Refers
  <2>3. QED
    BY <1>3, <2>1, <2>2, CatRests DEF CatSettled, Stored
<1>4. CatStaysCalm(r, k)
  BY <1>3 DEF CatStaysCalm
<1>5. CatCallSound(k)'
  BY DEF CatCallSound
<1>6. QED
  BY <1>1, <1>2, <1>4, <1>5, CatMoves

\* The form of a host, with what can be chosen.
LEMMA CatOpensForm ==
  ASSUME CatInv, NEW r \in CatReqs, NEW h \in CatHosts, OpenForm(r, h)
  PROVE  CatInv'
<1>1. PICK g \in (catRows \cap CatGroups) \cup {NoRef}, d \in (catRows \cap Providers) \cup {NoRef}, tags \in SUBSET (catRows \cap CatTags) :
        Begin(r, "host", h, [there |-> TRUE, group |-> g, dns |-> d, cert |-> catHost[h].cert], tags, FALSE)
  BY DEF OpenForm
<1>2. UNCHANGED <<catHost, hostTags, catRows, catUsed, catDefault, catCert, catFiles, catExport, tplVars, catOld>>
  BY DEF OpenForm, catHostVars, catCertVars
<1>3. PICK row \in HostRow : /\ row = [there |-> TRUE, group |-> g, dns |-> d, cert |-> catHost[h].cert]
                             /\ row.there /\ row.group = g /\ row.dns = d /\ row.cert = catHost[h].cert
  <2>1. catHost[h].cert \in CatCerts \cup {NoRef} /\ g \in CatGroups \cup {NoRef} /\ d \in Providers \cup {NoRef}
    BY DEF CatInv, CatRowsOK, HostRow
  <2>2. [there |-> TRUE, group |-> g, dns |-> d, cert |-> catHost[h].cert] \in HostRow
    BY <2>1 DEF HostRow
  <2>3. QED
    BY <2>2
<1>4. "host" \in CatSteps /\ h \in CatNames /\ tags \in SUBSET CatTags
  BY DEF CatSteps, CatNames
<1>5. /\ catMet' \in BOOLEAN /\ (catMet => catMet')
      /\ ~catMet' => (\A q \in CatReqs : CatAt(q, "done")) /\ CatSettled(CatIdle)
      /\ catReq' = [catReq EXCEPT ![r] = CatAsk("host", h, row, tags)]
  BY <1>1, <1>3, CatQuiet DEF Begin, CatAsk
<1>6. PICK k \in CatCalls : k = CatAsk("host", h, row, tags) /\ k.step = "host" /\ k.x = h /\ k.row = row /\ k.tags = tags
  BY <1>3, <1>4, CatAsked
<1>7. CatCallSound(k)
  BY <1>3, <1>6 DEF CatCallSound
<1>8. ASSUME CatSettled(CatIdle)
      PROVE  CatPending(k)
  <2>1. catHost[h].there \/ h \notin catUsed
    BY DEF OpenForm, Ours
  <2>2. ASSUME ~catOld
        PROVE  Refers(row) /\ tags \subseteq catRows
    <3>1. catHost[h].cert # NoRef => catCert[catHost[h].cert] # NoRef
      <4>1. CASE catHost[h].there
        BY <1>8, <2>2, <4>1 DEF CatSettled, RefsSound, Refers
      <4>2. CASE ~catHost[h].there
        BY <4>2, CatRests DEF CatInv, GoneSound
      <4>3. QED
        BY <4>1, <4>2
    <3>2. QED
      BY <1>3, <3>1 DEF Refers
  <2>3. QED
    BY <1>6, <2>1, <2>2 DEF CatPending
<1>9. QED
  BY <1>2, <1>5, <1>6, <1>7, <1>8, CatReads

\* CloneHost has read its source.
LEMMA CatClones ==
  ASSUME CatInv, NEW r \in CatReqs, NEW h \in CatHosts, Clone(r, h)
  PROVE  CatInv'
<1>1. PICK n \in CatHosts : Ours(n, FALSE) /\ Begin(r, "clone", n, catHost[h], {t \in CatTags : <<h, t>> \in hostTags}, FALSE)
  BY DEF Clone
<1>2. UNCHANGED <<catHost, hostTags, catRows, catUsed, catDefault, catCert, catFiles, catExport, tplVars, catOld>>
  BY DEF Clone, catHostVars, catCertVars
<1>3. PICK row \in HostRow : row = catHost[h] /\ row.there
  BY DEF Clone, CatInv, CatRowsOK
<1>4. PICK tags \in SUBSET CatTags : tags = {t \in CatTags : <<h, t>> \in hostTags}
  OBVIOUS
<1>5. "clone" \in CatSteps /\ n \in CatNames
  BY DEF CatSteps, CatNames
<1>6. /\ catMet' \in BOOLEAN /\ (catMet => catMet')
      /\ ~catMet' => (\A q \in CatReqs : CatAt(q, "done")) /\ CatSettled(CatIdle)
      /\ catReq' = [catReq EXCEPT ![r] = CatAsk("clone", n, row, tags)]
  <2>1. Begin(r, "clone", n, row, tags, FALSE)
    BY <1>1, <1>3, <1>4
  <2>2. /\ CatAt(r, "done") /\ catMet' = (catMet \/ CatBusy)
        /\ catReq' = [catReq EXCEPT ![r] = CatAsk("clone", n, row, tags)]
    BY <2>1 DEF Begin, CatAsk
  <2>3. QED
    BY <2>2, CatQuiet
<1>7. PICK k \in CatCalls : k = CatAsk("clone", n, row, tags) /\ k.step = "clone" /\ k.x = n /\ k.row = row /\ k.tags = tags
  <2>1. /\ CatAsk("clone", n, row, tags) \in CatCalls
        /\ CatAsk("clone", n, row, tags).step = "clone" /\ CatAsk("clone", n, row, tags).x = n
        /\ CatAsk("clone", n, row, tags).row = row /\ CatAsk("clone", n, row, tags).tags = tags
    BY <1>5, CatAsked
  <2>2. QED
    BY <2>1
<1>8. CatCallSound(k)
  BY <1>3, <1>7 DEF CatCallSound
<1>9. ASSUME CatSettled(CatIdle)
      PROVE  CatPending(k)
  <2>1. n \notin catUsed
    BY <1>1 DEF Ours
  <2>2. ASSUME ~catOld
        PROVE  Refers(row) /\ tags \subseteq catRows
    BY <1>3, <1>4, <1>9, <2>2 DEF CatSettled, RefsSound
  <2>3. QED
    BY <1>7, <2>1, <2>2 DEF CatPending
<1>10. QED
  BY <1>2, <1>6, <1>7, <1>8, <1>9, CatReads

\* Delete of a provider has counted the hosts.
LEMMA CatCounts ==
  ASSUME CatInv, NEW r \in CatReqs, NEW p \in Providers, CountHosts(r, p)
  PROVE  CatInv'
<1>1. Begin(r, "unprovide", p, NoHostRow, {}, FALSE) /\ \A h \in CatHosts : catHost[h].dns # p
  BY DEF CountHosts
<1>2. UNCHANGED <<catHost, hostTags, catRows, catUsed, catDefault, catCert, catFiles, catExport, tplVars, catOld>>
  BY DEF CountHosts, catHostVars, catCertVars
<1>3. "unprovide" \in CatSteps /\ p \in CatNames /\ {} \in SUBSET CatTags
  BY DEF CatSteps, CatNames, CatIds
<1>4. /\ catMet' \in BOOLEAN /\ (catMet => catMet')
      /\ ~catMet' => (\A q \in CatReqs : CatAt(q, "done")) /\ CatSettled(CatIdle)
      /\ catReq' = [catReq EXCEPT ![r] = CatAsk("unprovide", p, NoHostRow, {})]
  BY <1>1, CatQuiet DEF Begin, CatAsk
<1>5. PICK k \in CatCalls : k = CatAsk("unprovide", p, NoHostRow, {}) /\ k.step = "unprovide" /\ k.x = p
  BY <1>3, CatRests, CatAsked
<1>6. CatCallSound(k) /\ CatPending(k)
  BY <1>1, <1>5 DEF CatCallSound, CatPending
<1>7. QED
  BY <1>2, <1>4, <1>5, <1>6, CatReads

\* Update or Create of a provider takes the flag from all others.
LEMMA CatUnsetsDefault ==
  ASSUME CatInv, NEW r \in CatReqs, NEW p \in Providers, NEW flag \in BOOLEAN, UnsetDefault(r, p, flag)
  PROVE  CatInv'
<1>1. /\ Begin(r, "provider", p, NoHostRow, {}, flag)
      /\ catDefault' = IF flag THEN {} ELSE catDefault
      /\ UNCHANGED <<catHost, hostTags, catRows, catUsed, catCert, catFiles, catExport, tplVars, catOld>>
  BY DEF UnsetDefault, catHostVars, catCertVars
<1>2. PICK k \in CatCalls : /\ k = [step |-> "provider", x |-> p, row |-> NoHostRow, tags |-> {}, flag |-> flag]
                            /\ k.step = "provider" /\ k.x = p /\ (k.flag <=> flag)
  <2>1. "provider" \in CatSteps /\ p \in CatNames /\ NoHostRow \in HostRow
    BY CatRests DEF CatSteps, CatNames, CatIds
  <2>2. [step |-> "provider", x |-> p, row |-> NoHostRow, tags |-> {}, flag |-> flag] \in CatCalls
    BY <2>1 DEF CatCalls
  <2>3. QED
    BY <2>2
<1>3. /\ catMet' \in BOOLEAN /\ (catMet => catMet')
      /\ ~catMet' => (\A q \in CatReqs : CatAt(q, "done")) /\ CatSettled(CatIdle)
      /\ catReq' = [catReq EXCEPT ![r] = k]
  BY <1>1, <1>2, CatQuiet DEF Begin
<1>4. CatRowsOK'
  BY <1>1 DEF CatInv, CatRowsOK, tplVars
<1>5. SeedSound' /\ GoneSound' /\ TagsSound' /\ CertsSound' /\ catUsed \subseteq catUsed'
  BY <1>1, CatKept
<1>6. ASSUME CatSettled(CatIdle)
      PROVE  CatSettled(k)'
  <2>1. CatPending(k)'
    BY <1>1, <1>2 DEF CatPending
  <2>2. ~catOld' => RefsSound'
    BY <1>1, <1>6 DEF CatSettled, RefsSound, Refers
  <2>3. \A a, b \in catDefault' : a = b
    BY <1>1, <1>6 DEF CatSettled
  <2>4. QED
    BY <1>1, <1>2, <1>6, <2>1, <2>2, <2>3, CatRests DEF CatSettled, Stored
<1>7. CatStaysCalm(r, k)
  BY <1>3, <1>6 DEF CatStaysCalm
<1>8. CatCallSound(k)'
  BY <1>2 DEF CatCallSound
<1>9. QED
  BY <1>2, <1>3, <1>4, <1>5, <1>7, <1>8, CatMoves

\* The provider's row follows.
LEMMA CatSavesProvider ==
  ASSUME CatInv, NEW r \in CatReqs, SaveProvider(r)
  PROVE  CatInv'
<1> DEFINE p == catReq[r].x
<1>1. /\ catReq[r].step = "provider" /\ ~CatAt(r, "done")
      /\ catReq' = [catReq EXCEPT ![r] = CatIdle] /\ UNCHANGED catMet
      /\ \/ /\ catRows' = catRows \cup {p} /\ catUsed' = catUsed \cup {p}
            /\ catDefault' = IF catReq[r].flag THEN catDefault \cup {p} ELSE catDefault \ {p}
         \/ UNCHANGED <<catRows, catUsed, catDefault>>
      /\ UNCHANGED <<catHost, hostTags, catCert, catFiles, catExport, tplVars, catOld>>
  BY DEF SaveProvider, CatAt, Done, catHostVars, catCertVars
<1>2. p \in Providers /\ p \in CatIds
  BY <1>1 DEF CatInv, CatCallSound, CatIds
<1>3. /\ catMet' \in BOOLEAN /\ (catMet => catMet')
      /\ ~catMet' => (\A q \in CatReqs \ {r} : CatAt(q, "done")) /\ CatSettled(catReq[r])
  BY <1>1, CatEnds
<1>4. CatRowsOK' /\ catRows \subseteq catRows' /\ catUsed \subseteq catUsed'
  BY <1>1, <1>2 DEF CatInv, CatRowsOK, tplVars
<1>5. SeedSound' /\ GoneSound' /\ TagsSound' /\ CertsSound'
  BY <1>1, <1>4, CatKept
<1>6. ASSUME CatSettled(catReq[r])
      PROVE  CatSettled(CatIdle)'
  <2>1. CatPending(CatIdle)'
    BY CatRests DEF CatPending
  <2>2. ~catOld' => RefsSound'
    BY <1>1, <1>4, <1>6 DEF CatSettled, RefsSound, Refers
  <2>3. \A a, b \in catDefault' : a = b
    BY <1>1, <1>6 DEF CatSettled, CatPending
  <2>4. QED
    BY <1>1, <1>6, <2>1, <2>2, <2>3, CatRests DEF CatSettled, Stored
<1>7. CatStaysCalm(r, CatIdle)
  BY <1>3, <1>6 DEF CatStaysCalm
<1>8. CatCallSound(CatIdle)'
  BY CatRests DEF CatCallSound
<1>9. QED
  BY <1>1, <1>3, <1>4, <1>5, <1>7, <1>8, CatRests, CatMoves

\* A provider goes that no host was counted for.
LEMMA CatDeletesProvider ==
  ASSUME CatInv, NEW r \in CatReqs, DeleteProvider(r)
  PROVE  CatInv'
<1>1. /\ catReq[r].step = "unprovide" /\ ~CatAt(r, "done")
      /\ catReq' = [catReq EXCEPT ![r] = CatIdle] /\ UNCHANGED catMet
      /\ catRows' = catRows \ {catReq[r].x} /\ catDefault' = catDefault \ {catReq[r].x}
      /\ UNCHANGED <<catHost, hostTags, catUsed, catCert, catFiles, catExport, tplVars, catOld>>
  BY DEF DeleteProvider, CatAt, Done, catHostVars, catCertVars
<1>2. /\ catMet' \in BOOLEAN /\ (catMet => catMet')
      /\ ~catMet' => (\A q \in CatReqs \ {r} : CatAt(q, "done")) /\ CatSettled(catReq[r])
  BY <1>1, CatEnds
<1>3. CatRowsOK'
  BY <1>1 DEF CatInv, CatRowsOK, tplVars
<1>4. SeedSound' /\ GoneSound' /\ TagsSound' /\ CertsSound' /\ catUsed \subseteq catUsed'
  BY <1>1, CatKept
<1>5. ASSUME CatSettled(catReq[r])
      PROVE  CatSettled(CatIdle)'
  <2>1. ASSUME ~catOld
        PROVE  RefsSound'
    <3>1. RefsSound /\ CatPending(catReq[r]) /\ CatCallSound(catReq[r]) /\ catHost \in [CatHosts -> HostRow]
      BY <1>5, <2>1 DEF CatSettled, CatInv, CatRowsOK
    <3>2. ASSUME NEW h \in CatHosts, catHost[h].there
          PROVE  Refers(catHost[h])' /\ \A t \in CatTags : <<h, t>> \in hostTags => t \in catRows'
      <4>1. Refers(catHost[h]) /\ (\A t \in CatTags : <<h, t>> \in hostTags => t \in catRows)
            /\ catHost[h].group \in CatGroups \cup {NoRef}
        BY <3>1, <3>2 DEF RefsSound, HostRow
      <4>2. catReq[r].x \in Providers /\ catHost[h].dns # catReq[r].x
        BY <1>1, <3>1 DEF CatCallSound, CatPending
      <4>3. catReq[r].x # catHost[h].group /\ \A t \in CatTags : t # catReq[r].x
        BY <4>1, <4>2, CatalogAssumption DEF CatIds
      <4>4. QED
        BY <1>1, <4>1, <4>2, <4>3 DEF Refers
    <3>3. QED
      BY <1>1, <3>2 DEF RefsSound
  <2>2. CatPending(CatIdle)'
    BY CatRests DEF CatPending
  <2>3. QED
    BY <1>1, <1>5, <2>1, <2>2, CatRests DEF CatSettled, Stored
<1>6. CatStaysCalm(r, CatIdle)
  BY <1>2, <1>5 DEF CatStaysCalm
<1>7. CatCallSound(CatIdle)'
  BY CatRests DEF CatCallSound
<1>8. QED
  BY <1>1, <1>2, <1>3, <1>4, <1>6, <1>7, CatRests, CatMoves

\* A row of a host is written that refers to what is there.
LEMMA CatSavesHost ==
  ASSUME CatInv, NEW r \in CatReqs, SaveHost(r)
  PROVE  CatInv'
<1> DEFINE h == catReq[r].x
<1>1. /\ catReq[r].step = "host" /\ ~CatAt(r, "done") /\ UNCHANGED catMet
      /\ UNCHANGED <<hostTags, catRows, catDefault, catCert, catFiles, catExport, tplVars, catOld>>
      /\ \/ /\ catReq' = [catReq EXCEPT ![r].step = "tags"]
            /\ catHost' = [catHost EXCEPT ![h] = catReq[r].row] /\ catUsed' = catUsed \cup {h}
         \/ catReq' = [catReq EXCEPT ![r] = CatIdle] /\ UNCHANGED <<catHost, catUsed>>
  BY DEF SaveHost, CatAt, Step, Done, catCertVars
<1>2. /\ catMet' \in BOOLEAN /\ (catMet => catMet')
      /\ ~catMet' => (\A q \in CatReqs \ {r} : CatAt(q, "done")) /\ CatSettled(catReq[r])
  BY <1>1, CatEnds
<1>3. /\ catReq[r] \in CatCalls /\ h \in CatHosts /\ catReq[r].row \in HostRow /\ catReq[r].row.there /\ catReq \in [CatReqs -> CatCalls]
  BY <1>1 DEF CatInv, CatCallSound, CatCalls
<1>4. CASE catReq' = [catReq EXCEPT ![r] = CatIdle] /\ UNCHANGED <<catHost, catUsed>>
  <2>1. CatRowsOK'
    BY <1>1, <1>4 DEF CatInv, CatRowsOK, tplVars
  <2>2. SeedSound' /\ GoneSound' /\ TagsSound' /\ CertsSound' /\ catUsed \subseteq catUsed'
    BY <1>1, <1>4, CatKept
  <2>3. ASSUME CatSettled(catReq[r])
        PROVE  CatSettled(CatIdle)'
    <3>1. CatPending(CatIdle)'
      BY CatRests DEF CatPending
    <3>2. ~catOld' => RefsSound'
      BY <1>1, <1>4, <2>3 DEF CatSettled, RefsSound, Refers
    <3>3. QED
      BY <1>1, <1>4, <2>3, <3>1, <3>2, CatRests DEF CatSettled, Stored
  <2>4. CatStaysCalm(r, CatIdle)
    BY <1>2, <2>3 DEF CatStaysCalm
  <2>5. CatCallSound(CatIdle)'
    BY CatRests DEF CatCallSound
  <2>6. QED
    BY <1>2, <1>4, <2>1, <2>2, <2>4, <2>5, CatRests, CatMoves
<1>5. CASE /\ catReq' = [catReq EXCEPT ![r].step = "tags"]
           /\ catHost' = [catHost EXCEPT ![h] = catReq[r].row] /\ catUsed' = catUsed \cup {h}
  <2>1. PICK k \in CatCalls : /\ k = [catReq[r] EXCEPT !.step = "tags"]
                              /\ k.step = "tags" /\ k.x = h /\ k.tags = catReq[r].tags
    <3>1. [catReq[r] EXCEPT !.step = "tags"] \in CatCalls
      BY <1>3 DEF CatCalls, CatSteps
    <3>2. QED
      BY <1>3, <3>1 DEF CatCalls
  <2>2. catReq' = [catReq EXCEPT ![r] = k]
    BY <1>3, <1>5, <2>1
  <2>3. CatRowsOK' /\ catUsed \subseteq catUsed'
    BY <1>1, <1>3, <1>5 DEF CatInv, CatRowsOK, tplVars
  <2>4. SeedSound' /\ GoneSound' /\ TagsSound' /\ CertsSound'
    <3>1. GoneSound'
      BY <1>1, <1>3, <1>5 DEF CatInv, GoneSound, CatRowsOK
    <3>2. QED
      BY <1>1, <2>3, <3>1, CatKept
  <2>5. ASSUME CatSettled(catReq[r])
        PROVE  CatSettled(k)'
    <3>1. /\ catHost[h].there \/ h \notin catUsed
          /\ ~catOld => Refers(catReq[r].row) /\ catReq[r].tags \subseteq catRows /\ RefsSound
      BY <1>1, <2>5 DEF CatSettled, CatPending
    <3>2. CatPending(k)'
      BY <1>1, <2>1, <3>1 DEF CatPending
    <3>3. ASSUME ~catOld
          PROVE  RefsSound'
      <4>1. \A t \in CatTags : <<h, t>> \in hostTags => t \in catRows
        <5>1. CASE catHost[h].there
          BY <1>3, <3>1, <3>3, <5>1 DEF RefsSound
        <5>2. CASE h \notin catUsed
          <6>1. \A t \in CatTags : <<h, t>> \notin hostTags
            BY <5>2 DEF CatInv, TagsSound
          <6>2. QED
            BY <6>1
        <5>3. QED
          BY <3>1, <5>1, <5>2
      <4>2. \A g \in CatHosts : catHost'[g] = IF g = h THEN catReq[r].row ELSE catHost[g]
        BY <1>5 DEF CatInv, CatRowsOK
      <4>3. QED
        BY <1>1, <3>1, <3>3, <4>1, <4>2 DEF RefsSound, Refers
    <3>4. QED
      BY <1>1, <2>1, <2>5, <3>2, <3>3 DEF CatSettled, Stored
  <2>6. CatStaysCalm(r, k)
    BY <1>2, <2>5 DEF CatStaysCalm
  <2>7. CatCallSound(k)'
    BY <1>3, <1>5, <2>1 DEF CatCallSound
  <2>8. QED
    BY <1>2, <2>1, <2>2, <2>3, <2>4, <2>6, <2>7, CatMoves
<1>6. QED
  BY <1>1, <1>4, <1>5

\* Its tags follow.
LEMMA CatSyncsTags ==
  ASSUME CatInv, NEW r \in CatReqs, SyncTags(r)
  PROVE  CatInv'
<1> DEFINE h == catReq[r].x
<1>1. /\ catReq[r].step = "tags" /\ ~CatAt(r, "done")
      /\ catReq' = [catReq EXCEPT ![r] = CatIdle] /\ UNCHANGED catMet
      /\ hostTags' = {p \in hostTags : p[1] # h} \cup ({h} \X catReq[r].tags)
      /\ UNCHANGED <<catHost, catRows, catUsed, catDefault, catCert, catFiles, catExport, tplVars, catOld>>
  BY DEF SyncTags, CatAt, Done, catCertVars
<1>2. h \in CatHosts /\ h \in catUsed /\ catReq[r].tags \subseteq CatTags
  BY <1>1 DEF CatInv, CatCallSound, CatCalls
<1>3. /\ catMet' \in BOOLEAN /\ (catMet => catMet')
      /\ ~catMet' => (\A q \in CatReqs \ {r} : CatAt(q, "done")) /\ CatSettled(catReq[r])
  BY <1>1, CatEnds
<1>4. \A p \in hostTags' : p \in hostTags \/ (p[1] = h /\ p[2] \in catReq[r].tags /\ p \in CatHosts \X CatTags)
  BY <1>1, <1>2
<1>5. CatRowsOK'
  <2>1. hostTags' \subseteq CatHosts \X CatTags
    BY <1>4 DEF CatInv, CatRowsOK
  <2>2. QED
    BY <1>1, <2>1 DEF CatInv, CatRowsOK, tplVars
<1>6. SeedSound' /\ GoneSound' /\ TagsSound' /\ CertsSound' /\ catUsed \subseteq catUsed'
  <2>1. TagsSound'
    BY <1>1, <1>2, <1>4 DEF CatInv, TagsSound
  <2>2. QED
    BY <1>1, <2>1, CatKept
<1>7. ASSUME CatSettled(catReq[r])
      PROVE  CatSettled(CatIdle)'
  <2>1. CatPending(CatIdle)'
    BY CatRests DEF CatPending
  <2>2. ASSUME ~catOld
        PROVE  RefsSound'
    <3>1. RefsSound /\ catReq[r].tags \subseteq catRows
      BY <1>1, <1>7, <2>2 DEF CatSettled, CatPending
    <3>2. \A g \in CatHosts, t \in CatTags : <<g, t>> \in hostTags' => <<g, t>> \in hostTags \/ t \in catRows
      BY <1>4, <3>1
    <3>3. QED
      BY <1>1, <3>1, <3>2 DEF RefsSound, Refers
  <2>3. QED
    BY <1>1, <1>7, <2>1, <2>2, CatRests DEF CatSettled, Stored
<1>8. CatStaysCalm(r, CatIdle)
  BY <1>3, <1>7 DEF CatStaysCalm
<1>9. CatCallSound(CatIdle)'
  BY CatRests DEF CatCallSound
<1>10. QED
  BY <1>1, <1>3, <1>5, <1>6, <1>8, <1>9, CatRests, CatMoves

\* A clone comes with the row and the tags its source had.
LEMMA CatInsertsClone ==
  ASSUME CatInv, NEW r \in CatReqs, InsertClone(r)
  PROVE  CatInv'
<1> DEFINE n == catReq[r].x
<1>1. /\ catReq[r].step = "clone" /\ ~CatAt(r, "done")
      /\ catReq' = [catReq EXCEPT ![r] = CatIdle] /\ UNCHANGED catMet
      /\ \/ /\ n \notin catUsed /\ catUsed' = catUsed \cup {n}
            /\ catHost' = [catHost EXCEPT ![n] = catReq[r].row]
            /\ hostTags' = hostTags \cup ({n} \X catReq[r].tags)
         \/ UNCHANGED <<catHost, hostTags, catUsed>>
      /\ UNCHANGED <<catRows, catDefault, catCert, catFiles, catExport, tplVars, catOld>>
  BY DEF InsertClone, CatAt, Done, catCertVars, catHostVars
<1>2. n \in CatHosts /\ catReq[r].tags \subseteq CatTags /\ catReq[r].row \in HostRow /\ catReq[r].row.there
  BY <1>1 DEF CatInv, CatCallSound, CatCalls
<1>3. /\ catMet' \in BOOLEAN /\ (catMet => catMet')
      /\ ~catMet' => (\A q \in CatReqs \ {r} : CatAt(q, "done")) /\ CatSettled(catReq[r])
  BY <1>1, CatEnds
<1>4. \A g \in CatHosts : catHost'[g] = catHost[g] \/ (g = n /\ n \notin catUsed /\ catHost'[g] = catReq[r].row)
  BY <1>1, <1>2 DEF CatInv, CatRowsOK
<1>5. /\ \A p \in hostTags' : p \in hostTags \/ (p[1] = n /\ n \in catUsed' /\ p[2] \in catReq[r].tags /\ p \in CatHosts \X CatTags)
      /\ catUsed \subseteq catUsed'
  BY <1>1, <1>2
<1>6. CatRowsOK'
  <2>1. hostTags' \subseteq CatHosts \X CatTags /\ catHost' \in [CatHosts -> HostRow]
    BY <1>1, <1>2, <1>5 DEF CatInv, CatRowsOK
  <2>2. catUsed' \subseteq CatIds \cup CatHosts \cup CatCerts
    BY <1>1, <1>2 DEF CatInv, CatRowsOK
  <2>3. QED
    BY <1>1, <2>1, <2>2 DEF CatInv, CatRowsOK, tplVars
<1>7. SeedSound' /\ GoneSound' /\ TagsSound' /\ CertsSound'
  <2>1. TagsSound'
    BY <1>1, <1>5 DEF CatInv, TagsSound
  <2>2. GoneSound'
    BY <1>1, <1>2, <1>4 DEF CatInv, GoneSound
  <2>3. QED
    BY <1>1, <1>5, <2>1, <2>2, CatKept
<1>8. ASSUME CatSettled(catReq[r])
      PROVE  CatSettled(CatIdle)'
  <2>1. CatPending(CatIdle)'
    BY CatRests DEF CatPending
  <2>2. ASSUME ~catOld
        PROVE  RefsSound'
    <3>1. RefsSound /\ catReq[r].tags \subseteq catRows /\ Refers(catReq[r].row)
      BY <1>1, <1>8, <2>2 DEF CatSettled, CatPending
    <3>2. \A g \in CatHosts, t \in CatTags : <<g, t>> \in hostTags' => <<g, t>> \in hostTags \/ t \in catRows
      BY <1>5, <3>1
    <3>3. n \notin catUsed => \A t \in CatTags : <<n, t>> \notin hostTags
      BY DEF CatInv, TagsSound
    <3>4. ASSUME NEW g \in CatHosts, catHost'[g].there
          PROVE  Refers(catHost[g])' /\ \A t \in CatTags : <<g, t>> \in hostTags' => t \in catRows
      <4>1. CASE catHost'[g] = catHost[g]
        BY <1>1, <3>1, <3>2, <3>4, <4>1 DEF RefsSound, Refers
      <4>2. CASE g = n /\ n \notin catUsed /\ catHost'[g] = catReq[r].row
        BY <1>1, <3>1, <3>2, <3>3, <4>2 DEF Refers
      <4>3. QED
        BY <1>4, <4>1, <4>2
    <3>5. QED
      BY <1>1, <3>4 DEF RefsSound
  <2>3. QED
    BY <1>1, <1>8, <2>1, <2>2, CatRests DEF CatSettled, Stored
<1>9. CatStaysCalm(r, CatIdle)
  BY <1>3, <1>8 DEF CatStaysCalm
<1>10. CatCallSound(CatIdle)'
  BY CatRests DEF CatCallSound
<1>11. QED
  BY <1>1, <1>3, <1>5, <1>6, <1>7, <1>9, <1>10, CatRests, CatMoves

\* Upload has made a directory and written the certificate.
LEMMA CatWritesCert ==
  ASSUME CatInv, NEW r \in CatReqs, NEW c \in CatCerts, NEW d \in CertDirs, WriteCert(r, c, d)
  PROVE  CatInv'
<1>1. /\ c \notin catUsed /\ \A b \in CatCerts : catCert[b] # d
      /\ Begin(r, "key", c, NoHostRow, {}, FALSE) /\ catUsed' = catUsed \cup {c}
      /\ catFiles' = [catFiles EXCEPT ![d] = {f \in catFiles[d] : f[2] # "cert"} \cup {<<c, "cert">>}]
      /\ UNCHANGED <<catHost, hostTags, catRows, catDefault, catCert, catExport, tplVars, catOld>>
  BY DEF WriteCert, catHostVars
<1>2. "key" \in CatSteps /\ c \in CatNames /\ {} \in SUBSET CatTags
  BY DEF CatSteps, CatNames
<1>3. /\ catMet' \in BOOLEAN /\ (catMet => catMet')
      /\ ~catMet' => (\A q \in CatReqs : CatAt(q, "done")) /\ CatSettled(CatIdle)
      /\ catReq' = [catReq EXCEPT ![r] = CatAsk("key", c, NoHostRow, {})]
  BY <1>1, CatQuiet DEF Begin, CatAsk
<1>4. PICK k \in CatCalls : k = CatAsk("key", c, NoHostRow, {}) /\ k.step = "key" /\ k.x = c
  BY <1>2, CatRests, CatAsked
<1>5. catFiles \in [CertDirs -> SUBSET CertFiles] /\ CertsSound
  BY DEF CatInv, CatRowsOK
<1>6. \A e \in CertDirs : catFiles'[e] = IF e = d THEN {f \in catFiles[d] : f[2] # "cert"} \cup {<<c, "cert">>} ELSE catFiles[e]
  BY <1>1, <1>5
<1>7. CatRowsOK' /\ catUsed \subseteq catUsed'
  <2>1. <<c, "cert">> \in CertFiles
    BY DEF CertFiles
  <2>2. {f \in catFiles[d] : f[2] # "cert"} \cup {<<c, "cert">>} \in SUBSET CertFiles
    BY <1>5, <2>1
  <2>3. catFiles' \in [CertDirs -> SUBSET CertFiles]
    BY <1>1, <1>5, <2>2
  <2>4. QED
    BY <1>1, <2>3 DEF CatInv, CatRowsOK, tplVars
<1>8. \A e \in CertDirs : <<c, "cert">> \notin catFiles[e]
  BY <1>1, <1>5 DEF CertsSound
<1>9. SeedSound' /\ GoneSound' /\ TagsSound' /\ CertsSound'
  <2>1. \A e \in CertDirs, b \in CatCerts : <<b, "cert">> \in catFiles'[e] <=> (IF e = d THEN b = c ELSE <<b, "cert">> \in catFiles[e])
    <3>1. ASSUME NEW b \in CatCerts
          PROVE  <<b, "cert">> \in catFiles'[d] <=> b = c
      <4>1. <<b, "cert">> \notin {f \in catFiles[d] : f[2] # "cert"}
        OBVIOUS
      <4>2. <<b, "cert">> = <<c, "cert">> <=> b = c
        OBVIOUS
      <4>3. QED
        BY <1>6, <4>1, <4>2
    <3>2. QED
      BY <1>6, <3>1
  <2>2. CertsSound'
    BY <1>1, <1>5, <1>8, <2>1 DEF CertsSound
  <2>3. QED
    BY <1>1, <1>7, <2>2, CatKept
<1>10. ASSUME CatSettled(CatIdle)
       PROVE  CatSettled(k)'
  <2>1. CatPending(k)'
    <3>1. \A e \in CertDirs : <<c, "cert">> \in catFiles'[e] => e = d
      BY <1>6, <1>8
    <3>2. QED
      BY <1>1, <1>4, <3>1 DEF CatPending
  <2>2. ~catOld' => RefsSound'
    BY <1>1, <1>10 DEF CatSettled, RefsSound, Refers
  <2>3. ASSUME NEW b \in CatCerts, catCert[b] # NoRef
        PROVE  Stored(b, catCert[b])'
    <3>1. Stored(b, catCert[b])
      BY <1>10, <2>3, CatRests DEF CatSettled
    <3>2. catCert[b] # d /\ catCert[b] \in CertDirs
      BY <1>1, <2>3 DEF CatInv, CatRowsOK
    <3>3. QED
      BY <1>1, <1>6, <3>1, <3>2 DEF Stored
  <2>4. QED
    BY <1>1, <1>10, <2>1, <2>2, <2>3 DEF CatSettled
<1>11. CatStaysCalm(r, k)
  BY <1>3, <1>10 DEF CatStaysCalm
<1>12. CatCallSound(k)'
  BY <1>4 DEF CatCallSound
<1>13. QED
  BY <1>3, <1>4, <1>7, <1>9, <1>11, <1>12, CatMoves

\* Upload has written the key, or gives up.
LEMMA CatWritesKey ==
  ASSUME CatInv, NEW r \in CatReqs, WriteKey(r)
  PROVE  CatInv'
<1> DEFINE c == catReq[r].x
<1>1. /\ catReq[r].step = "key" /\ ~CatAt(r, "done") /\ UNCHANGED catMet
      /\ UNCHANGED <<catHost, hostTags, catRows, catUsed, catDefault, catCert, catExport, tplVars, catOld>>
      /\ \/ /\ catReq' = [catReq EXCEPT ![r].step = "row"] /\ \E d \in CertDirs : <<c, "cert">> \in catFiles[d]
            /\ catFiles' = [catFiles EXCEPT ![DirOf(c)] = {f \in catFiles[DirOf(c)] : f[2] # "key"} \cup {<<c, "key">>}]
         \/ catReq' = [catReq EXCEPT ![r] = CatIdle] /\ UNCHANGED catFiles
  BY DEF WriteKey, CatAt, Step, Done, catHostVars
<1>2. /\ catMet' \in BOOLEAN /\ (catMet => catMet')
      /\ ~catMet' => (\A q \in CatReqs \ {r} : CatAt(q, "done")) /\ CatSettled(catReq[r])
  BY <1>1, CatEnds
<1>3. /\ catReq[r] \in CatCalls /\ c \in CatCerts /\ catReq \in [CatReqs -> CatCalls]
      /\ catFiles \in [CertDirs -> SUBSET CertFiles] /\ CertsSound
  BY <1>1 DEF CatInv, CatCallSound, CatRowsOK
<1>4. CASE catReq' = [catReq EXCEPT ![r] = CatIdle] /\ UNCHANGED catFiles
  <2>1. CatRowsOK'
    BY <1>1, <1>4 DEF CatInv, CatRowsOK, tplVars
  <2>2. SeedSound' /\ GoneSound' /\ TagsSound' /\ CertsSound' /\ catUsed \subseteq catUsed'
    BY <1>1, <1>4, CatKept
  <2>3. ASSUME CatSettled(catReq[r])
        PROVE  CatSettled(CatIdle)'
    <3>1. CatPending(CatIdle)'
      BY CatRests DEF CatPending
    <3>2. ~catOld' => RefsSound'
      BY <1>1, <1>4, <2>3 DEF CatSettled, RefsSound, Refers
    <3>3. QED
      BY <1>1, <1>4, <2>3, <3>1, <3>2, CatRests DEF CatSettled, Stored
  <2>4. CatStaysCalm(r, CatIdle)
    BY <1>2, <2>3 DEF CatStaysCalm
  <2>5. CatCallSound(CatIdle)'
    BY CatRests DEF CatCallSound
  <2>6. QED
    BY <1>2, <1>4, <2>1, <2>2, <2>4, <2>5, CatRests, CatMoves
<1>5. CASE /\ catReq' = [catReq EXCEPT ![r].step = "row"] /\ \E d \in CertDirs : <<c, "cert">> \in catFiles[d]
           /\ catFiles' = [catFiles EXCEPT ![DirOf(c)] = {f \in catFiles[DirOf(c)] : f[2] # "key"} \cup {<<c, "key">>}]
  <2>1. PICK k \in CatCalls : k = [catReq[r] EXCEPT !.step = "row"] /\ k.step = "row" /\ k.x = c
    <3>1. [catReq[r] EXCEPT !.step = "row"] \in CatCalls
      BY <1>3 DEF CatCalls, CatSteps
    <3>2. QED
      BY <1>3, <3>1 DEF CatCalls
  <2>2. catReq' = [catReq EXCEPT ![r] = k]
    BY <1>3, <1>5, <2>1
  <2>3. DirOf(c) \in CertDirs /\ <<c, "cert">> \in catFiles[DirOf(c)]
    <3>1. \E d \in CertDirs : <<c, "cert">> \in catFiles[d]
      BY <1>5
    <3>2. QED
      BY <3>1, Zenon DEF DirOf
  <2>4. PICK d \in CertDirs : d = DirOf(c) /\ <<c, "cert">> \in catFiles[d]
    BY <2>3
  <2>5. catFiles' = [catFiles EXCEPT ![d] = {f \in catFiles[d] : f[2] # "key"} \cup {<<c, "key">>}]
    BY <1>5, <2>4
  <2>6. \A e \in CertDirs : catFiles'[e] = IF e = d THEN {f \in catFiles[d] : f[2] # "key"} \cup {<<c, "key">>} ELSE catFiles[e]
    BY <1>3, <2>5
  <2>7. CatRowsOK' /\ catUsed \subseteq catUsed'
    <3>1. <<c, "key">> \in CertFiles
      BY <1>3 DEF CertFiles
    <3>2. {f \in catFiles[d] : f[2] # "key"} \cup {<<c, "key">>} \in SUBSET CertFiles
      BY <1>3, <3>1
    <3>3. catFiles' \in [CertDirs -> SUBSET CertFiles]
      BY <1>3, <2>5, <3>2
    <3>4. QED
      BY <1>1, <3>3 DEF CatInv, CatRowsOK, tplVars
  <2>8. \A e \in CertDirs, b \in CatCerts : <<b, "cert">> \in catFiles'[e] <=> <<b, "cert">> \in catFiles[e]
    <3>1. ASSUME NEW b \in CatCerts
          PROVE  <<b, "cert">> \in catFiles'[d] <=> <<b, "cert">> \in catFiles[d]
      <4>1. <<b, "cert">> \in {f \in catFiles[d] : f[2] # "key"} <=> <<b, "cert">> \in catFiles[d]
        OBVIOUS
      <4>2. <<b, "cert">> # <<c, "key">>
        OBVIOUS
      <4>3. QED
        BY <2>6, <4>1, <4>2
    <3>2. QED
      BY <2>6, <3>1
  <2>9. SeedSound' /\ GoneSound' /\ TagsSound' /\ CertsSound'
    <3>1. CertsSound'
      <4>1. ASSUME NEW e \in CertDirs, NEW b \in CatCerts, <<b, "cert">> \in catFiles'[e]
            PROVE  /\ b \in catUsed'
                   /\ \A e2 \in CertDirs : <<b, "cert">> \in catFiles'[e2] => e2 = e
                   /\ \A b2 \in CatCerts : <<b2, "cert">> \in catFiles'[e] => b2 = b
        <5>1. <<b, "cert">> \in catFiles[e]
          BY <2>8, <4>1
        <5>2. QED
          BY <1>1, <1>3, <2>8, <5>1, ZenonT(40) DEF CertsSound
      <4>2. QED
        BY <4>1 DEF CertsSound
    <3>2. QED
      BY <1>1, <2>7, <3>1, CatKept
  <2>10. ASSUME CatSettled(catReq[r])
         PROVE  CatSettled(k)'
    <3>1. \A b \in CatCerts : catCert[b] # d
      BY <1>1, <2>4, <2>10 DEF CatSettled, CatPending
    <3>2. CatPending(k)'
      <4>1. \A e \in CertDirs : <<c, "cert">> \in catFiles'[e] => e = d
        BY <1>3, <2>4, <2>8, ZenonT(40) DEF CertsSound
      <4>2. <<c, "key">> \in catFiles'[d]
        BY <2>6
      <4>3. QED
        BY <1>1, <2>1, <3>1, <4>1, <4>2 DEF CatPending
    <3>3. ~catOld' => RefsSound'
      BY <1>1, <2>10 DEF CatSettled, RefsSound, Refers
    <3>4. ASSUME NEW b \in CatCerts, catCert[b] # NoRef
          PROVE  Stored(b, catCert[b])'
      <4>1. Stored(b, catCert[b])
        BY <1>1, <2>10, <3>4 DEF CatSettled
      <4>2. catCert[b] # d /\ catCert[b] \in CertDirs
        BY <3>1, <3>4 DEF CatInv, CatRowsOK
      <4>3. QED
        BY <1>1, <2>6, <4>1, <4>2 DEF Stored
    <3>5. QED
      BY <1>1, <2>10, <3>2, <3>3, <3>4 DEF CatSettled
  <2>11. CatStaysCalm(r, k)
    BY <1>2, <2>10 DEF CatStaysCalm
  <2>12. CatCallSound(k)'
    BY <1>3, <2>1 DEF CatCallSound
  <2>13. QED
    BY <1>2, <2>1, <2>2, <2>7, <2>9, <2>11, <2>12, CatMoves
<1>6. QED
  BY <1>1, <1>4, <1>5

\* Upload has the row inserted, or not.
LEMMA CatInsertsCert ==
  ASSUME CatInv, NEW r \in CatReqs, InsertCert(r)
  PROVE  CatInv'
<1> DEFINE c == catReq[r].x
<1>1. /\ catReq[r].step = "row" /\ ~CatAt(r, "done") /\ UNCHANGED catMet
      /\ catReq' = [catReq EXCEPT ![r] = CatIdle]
      /\ UNCHANGED <<catHost, hostTags, catRows, catUsed, catDefault, catFiles, catExport, tplVars, catOld>>
      /\ \/ /\ \E d \in CertDirs : <<c, "cert">> \in catFiles[d]
            /\ catCert' = [catCert EXCEPT ![c] = DirOf(c)]
         \/ UNCHANGED catCert
  BY DEF InsertCert, CatAt, Done, catHostVars
<1>2. /\ catMet' \in BOOLEAN /\ (catMet => catMet')
      /\ ~catMet' => (\A q \in CatReqs \ {r} : CatAt(q, "done")) /\ CatSettled(catReq[r])
  BY <1>1, CatEnds
<1>3. c \in CatCerts /\ catCert \in [CatCerts -> CertDirs \cup {NoRef}]
  BY <1>1 DEF CatInv, CatCallSound, CatRowsOK
<1>4. \A b \in CatCerts : catCert'[b] = catCert[b] \/ (b = c /\ catCert'[b] \in CertDirs /\ <<c, "cert">> \in catFiles[catCert'[b]])
  <2>1. CASE UNCHANGED catCert
    BY <2>1
  <2>2. CASE (\E d \in CertDirs : <<c, "cert">> \in catFiles[d]) /\ catCert' = [catCert EXCEPT ![c] = DirOf(c)]
    <3>1. \E d \in CertDirs : <<c, "cert">> \in catFiles[d]
      BY <2>2
    <3>2. DirOf(c) \in CertDirs /\ <<c, "cert">> \in catFiles[DirOf(c)]
      BY <3>1, Zenon DEF DirOf
    <3>3. QED
      BY <1>3, <2>2, <3>2
  <2>3. QED
    BY <1>1, <2>1, <2>2
<1>5. CatRowsOK'
  <2>1. catCert' \in [CatCerts -> CertDirs \cup {NoRef}]
    <3>1. DOMAIN catCert' = CatCerts /\ catCert' = [b \in CatCerts |-> catCert'[b]]
      BY <1>1, <1>3
    <3>2. QED
      BY <1>3, <1>4, <3>1
  <2>2. QED
    BY <1>1, <2>1 DEF CatInv, CatRowsOK, tplVars
<1>6. SeedSound' /\ GoneSound' /\ TagsSound' /\ CertsSound' /\ catUsed \subseteq catUsed'
  BY <1>1, CatKept
<1>7. ASSUME CatSettled(catReq[r])
      PROVE  CatSettled(CatIdle)'
  <2>1. CatPending(CatIdle)'
    BY CatRests DEF CatPending
  <2>2. \A b \in CatCerts : catCert'[b] # NoRef => Stored(b, catCert[b])'
    <3>1. \A d \in CertDirs : <<c, "cert">> \in catFiles[d] => <<c, "key">> \in catFiles[d]
      BY <1>1, <1>7 DEF CatSettled, CatPending
    <3>2. \A b \in CatCerts : catCert[b] # NoRef => Stored(b, catCert[b])
      BY <1>1, <1>7 DEF CatSettled
    <3>3. QED
      BY <1>1, <1>4, <3>1, <3>2 DEF Stored
  <2>3. \A b \in CatCerts : catCert[b] # NoRef => catCert'[b] # NoRef
    BY <1>4, CatalogAssumption
  <2>4. ASSUME ~catOld
        PROVE  RefsSound'
    <3>1. RefsSound /\ \A h \in CatHosts : catHost[h].cert \in CatCerts \cup {NoRef}
      BY <1>7, <2>4 DEF CatSettled, CatInv, CatRowsOK, HostRow
    <3>2. \A h \in CatHosts : Refers(catHost[h]) => Refers(catHost[h])'
      BY <1>1, <2>3, <3>1 DEF Refers
    <3>3. QED
      BY <1>1, <3>1, <3>2 DEF RefsSound
  <2>5. QED
    BY <1>1, <1>7, <2>1, <2>2, <2>4, CatRests DEF CatSettled
<1>8. CatStaysCalm(r, CatIdle)
  BY <1>2, <1>7 DEF CatStaysCalm
<1>9. CatCallSound(CatIdle)'
  BY CatRests DEF CatCallSound
<1>10. QED
  BY <1>1, <1>2, <1>5, <1>6, <1>8, <1>9, CatRests, CatMoves

\* Delete of a certificate that no host uses: the files first.
LEMMA CatRemovesFiles ==
  ASSUME CatInv, NEW r \in CatReqs, NEW c \in CatCerts, RemoveFiles(r, c)
  PROVE  CatInv'
<1>1. /\ catCert[c] # NoRef /\ \A h \in CatHosts : catHost[h].cert # c
      /\ Begin(r, "uncert", c, NoHostRow, {}, FALSE)
      /\ catFiles' = [catFiles EXCEPT ![catCert[c]] = {}]
      /\ UNCHANGED <<catHost, hostTags, catRows, catUsed, catDefault, catCert, catExport, tplVars, catOld>>
  BY DEF RemoveFiles, RemoveUnused, catHostVars
<1>2. "uncert" \in CatSteps /\ c \in CatNames /\ {} \in SUBSET CatTags
  BY DEF CatSteps, CatNames
<1>3. /\ catMet' \in BOOLEAN /\ (catMet => catMet')
      /\ ~catMet' => (\A q \in CatReqs : CatAt(q, "done")) /\ CatSettled(CatIdle)
      /\ catReq' = [catReq EXCEPT ![r] = CatAsk("uncert", c, NoHostRow, {})]
  BY <1>1, CatQuiet DEF Begin, CatAsk
<1>4. PICK k \in CatCalls : k = CatAsk("uncert", c, NoHostRow, {}) /\ k.step = "uncert" /\ k.x = c
  BY <1>2, CatRests, CatAsked
<1>5. catFiles \in [CertDirs -> SUBSET CertFiles] /\ CertsSound /\ catCert[c] \in CertDirs
  BY <1>1 DEF CatInv, CatRowsOK
<1>6. \A e \in CertDirs : catFiles'[e] = IF e = catCert[c] THEN {} ELSE catFiles[e]
  BY <1>1, <1>5
<1>7. CatRowsOK' /\ catUsed \subseteq catUsed'
  <2>1. catFiles' \in [CertDirs -> SUBSET CertFiles]
    BY <1>1, <1>5
  <2>2. QED
    BY <1>1, <2>1 DEF CatInv, CatRowsOK, tplVars
<1>8. SeedSound' /\ GoneSound' /\ TagsSound' /\ CertsSound'
  <2>1. CertsSound'
    BY <1>1, <1>5, <1>6 DEF CertsSound
  <2>2. QED
    BY <1>1, <1>7, <2>1, CatKept
<1>9. ASSUME CatSettled(CatIdle)
      PROVE  CatSettled(k)'
  <2>1. CatPending(k)'
    BY <1>1, <1>4 DEF CatPending
  <2>2. ~catOld' => RefsSound'
    BY <1>1, <1>9 DEF CatSettled, RefsSound, Refers
  <2>3. ASSUME NEW b \in CatCerts, catCert[b] # NoRef, b # c
        PROVE  Stored(b, catCert[b])'
    <3>1. Stored(b, catCert[b]) /\ Stored(c, catCert[c]) /\ catCert[b] \in CertDirs
      BY <1>1, <1>9, <2>3, CatRests DEF CatSettled, CatInv, CatRowsOK
    <3>2. catCert[b] # catCert[c]
      BY <1>5, <2>3, <3>1 DEF CertsSound, Stored
    <3>3. QED
      BY <1>1, <1>6, <3>1, <3>2 DEF Stored
  <2>4. QED
    BY <1>1, <1>4, <1>9, <2>1, <2>2, <2>3 DEF CatSettled
<1>10. CatStaysCalm(r, k)
  BY <1>3, <1>9 DEF CatStaysCalm
<1>11. CatCallSound(k)'
  BY <1>4 DEF CatCallSound
<1>12. QED
  BY <1>3, <1>4, <1>7, <1>8, <1>10, <1>11, CatMoves

\* Then the row.
LEMMA CatDeletesCert ==
  ASSUME CatInv, NEW r \in CatReqs, DeleteCert(r)
  PROVE  CatInv'
<1>1. /\ catReq[r].step = "uncert" /\ ~CatAt(r, "done")
      /\ catReq' = [catReq EXCEPT ![r] = CatIdle] /\ UNCHANGED catMet
      /\ catCert' = [catCert EXCEPT ![catReq[r].x] = NoRef]
      /\ UNCHANGED <<catHost, hostTags, catRows, catUsed, catDefault, catFiles, catExport, tplVars, catOld>>
  BY DEF DeleteCert, CatAt, Done, catHostVars
<1>2. /\ catMet' \in BOOLEAN /\ (catMet => catMet')
      /\ ~catMet' => (\A q \in CatReqs \ {r} : CatAt(q, "done")) /\ CatSettled(catReq[r])
  BY <1>1, CatEnds
<1>3. catReq[r].x \in CatCerts /\ catCert \in [CatCerts -> CertDirs \cup {NoRef}]
  BY <1>1 DEF CatInv, CatCallSound, CatRowsOK
<1>4. CatRowsOK'
  BY <1>1, <1>3 DEF CatInv, CatRowsOK, tplVars
<1>5. SeedSound' /\ GoneSound' /\ TagsSound' /\ CertsSound' /\ catUsed \subseteq catUsed'
  BY <1>1, CatKept
<1>6. ASSUME CatSettled(catReq[r])
      PROVE  CatSettled(CatIdle)'
  <2>1. CatPending(CatIdle)'
    BY CatRests DEF CatPending
  <2>2. \A b \in CatCerts : catCert'[b] = IF b = catReq[r].x THEN NoRef ELSE catCert[b]
    BY <1>1, <1>3
  <2>3. \A b \in CatCerts : catCert'[b] # NoRef => Stored(b, catCert[b])'
    BY <1>1, <1>6, <2>2 DEF CatSettled, Stored
  <2>4. ASSUME ~catOld
        PROVE  RefsSound'
    <3>1. RefsSound /\ (\A h \in CatHosts : catHost[h].cert \in CatCerts \cup {NoRef} /\ catHost[h].cert # catReq[r].x)
      BY <1>1, <1>6, <2>4 DEF CatSettled, CatPending, CatInv, CatRowsOK, HostRow
    <3>2. \A h \in CatHosts : Refers(catHost[h]) => Refers(catHost[h])'
      BY <1>1, <2>2, <3>1 DEF Refers
    <3>3. QED
      BY <1>1, <3>1, <3>2 DEF RefsSound
  <2>5. QED
    BY <1>1, <1>6, <2>1, <2>3, <2>4, CatRests DEF CatSettled
<1>7. CatStaysCalm(r, CatIdle)
  BY <1>2, <1>6 DEF CatStaysCalm
<1>8. CatCallSound(CatIdle)'
  BY CatRests DEF CatCallSound
<1>9. QED
  BY <1>1, <1>2, <1>4, <1>5, <1>7, <1>8, CatRests, CatMoves

\* A host is deleted, in one statement.
LEMMA CatDeletesHost ==
  ASSUME CatInv, NEW r \in CatReqs, NEW h \in CatHosts, DeleteCatHost(r, h)
  PROVE  CatInv'
<1>1. /\ AtOnce(r) /\ catHost' = [catHost EXCEPT ![h] = NoHostRow]
      /\ UNCHANGED <<hostTags, catRows, catUsed, catDefault, catCert, catFiles, catExport, tplVars, catOld>>
  BY DEF DeleteCatHost, catCertVars
<1>2. PICK k \in CatCalls : catReq' = [catReq EXCEPT ![r] = k] /\ k.step = "done"
  BY <1>1, CatAtOnce
<1>3. /\ catMet' \in BOOLEAN /\ (catMet => catMet')
      /\ ~catMet' => (\A q \in CatReqs : CatAt(q, "done")) /\ CatSettled(CatIdle)
  BY <1>1, CatAtOnce
<1>4. \A g \in CatHosts : catHost'[g] = IF g = h THEN NoHostRow ELSE catHost[g]
  BY <1>1 DEF CatInv, CatRowsOK
<1>5. CatRowsOK'
  BY <1>1, CatRests DEF CatInv, CatRowsOK, tplVars
<1>6. SeedSound' /\ GoneSound' /\ TagsSound' /\ CertsSound' /\ catUsed \subseteq catUsed'
  <2>1. GoneSound'
    BY <1>1, <1>4 DEF CatInv, GoneSound
  <2>2. QED
    BY <1>1, <2>1, CatKept
<1>7. ASSUME CatSettled(CatIdle)
      PROVE  CatSettled(k)'
  <2>1. CatPending(k)'
    BY <1>2 DEF CatPending
  <2>2. ~catOld' => RefsSound'
    BY <1>1, <1>4, <1>7, CatRests DEF CatSettled, RefsSound, Refers
  <2>3. QED
    BY <1>1, <1>2, <1>7, <2>1, <2>2, CatRests DEF CatSettled, Stored
<1>8. CatStaysCalm(r, k)
  BY <1>3, <1>7 DEF CatStaysCalm
<1>9. CatCallSound(k)'
  BY <1>2 DEF CatCallSound
<1>10. QED
  BY <1>2, <1>3, <1>5, <1>6, <1>8, <1>9, CatMoves

\* The hosts are written to a file.
LEMMA CatExportsAll ==
  ASSUME CatInv, NEW r \in CatReqs, Export(r)
  PROVE  CatInv'
<1>1. AtOnce(r) /\ UNCHANGED <<catHost, hostTags, catRows, catUsed, catDefault, catCert, catFiles, tplVars, catOld>>
  BY DEF Export, catHostVars, catCertVars
<1>2. PICK c \in CatCerts \cup {NoRef} :
        catExport' = [hosts |-> [h \in CatHosts |-> IF catHost[h].there THEN [catHost[h] EXCEPT !.cert = IF c = NoRef THEN catHost[h].cert ELSE c] ELSE NoHostRow],
                      tags |-> {p \in hostTags : catHost[p[1]].there /\ p[2] \in catRows}]
  BY DEF Export
<1>3. PICK k \in CatCalls : catReq' = [catReq EXCEPT ![r] = k] /\ k.step = "done"
  BY <1>1, CatAtOnce
<1>4. /\ catMet' \in BOOLEAN /\ (catMet => catMet')
      /\ ~catMet' => (\A q \in CatReqs : CatAt(q, "done")) /\ CatSettled(CatIdle)
  BY <1>1, CatAtOnce
<1>5. /\ catExport'.hosts = [h \in CatHosts |-> IF catHost[h].there THEN [catHost[h] EXCEPT !.cert = IF c = NoRef THEN catHost[h].cert ELSE c] ELSE NoHostRow]
      /\ catExport'.tags = {p \in hostTags : catHost[p[1]].there /\ p[2] \in catRows}
  BY <1>2
<1>6. ASSUME NEW h \in CatHosts
      PROVE  catExport'.hosts[h] \in HostRow /\ (~catExport'.hosts[h].there => catExport'.hosts[h] = NoHostRow)
  <2>1. catHost[h] \in HostRow
    BY DEF CatInv, CatRowsOK
  <2>2. CASE catHost[h].there
    <3>1. (IF c = NoRef THEN catHost[h].cert ELSE c) \in CatCerts \cup {NoRef}
      BY <2>1 DEF HostRow
    <3>2. PICK w \in CatCerts \cup {NoRef} : w = IF c = NoRef THEN catHost[h].cert ELSE c
      BY <3>1
    <3>3. [catHost[h] EXCEPT !.cert = w] \in HostRow /\ ([catHost[h] EXCEPT !.cert = w].there <=> catHost[h].there)
      BY <2>1 DEF HostRow
    <3>4. catExport'.hosts[h] = [catHost[h] EXCEPT !.cert = w]
      BY <1>5, <2>2, <3>2
    <3>5. QED
      BY <2>2, <3>3, <3>4
  <2>3. CASE ~catHost[h].there
    BY <1>5, <2>3, CatRests
  <2>4. QED
    BY <2>2, <2>3
<1>7. CatRowsOK'
  <2>1. catExport'.hosts \in [CatHosts -> HostRow]
    BY <1>5, <1>6
  <2>2. catExport'.tags \in SUBSET (CatHosts \X CatTags)
    BY <1>5 DEF CatInv, CatRowsOK
  <2>3. catExport' = [hosts |-> catExport'.hosts, tags |-> catExport'.tags]
    BY <1>2
  <2>4. catExport' \in CatExports
    BY <2>1, <2>2, <2>3 DEF CatExports
  <2>5. QED
    BY <1>1, <2>4 DEF CatInv, CatRowsOK, tplVars
<1>8. SeedSound' /\ GoneSound' /\ TagsSound' /\ CertsSound' /\ catUsed \subseteq catUsed'
  <2>1. GoneSound'
    BY <1>1, <1>6 DEF CatInv, GoneSound
  <2>2. TagsSound'
    BY <1>1, <1>5 DEF CatInv, TagsSound
  <2>3. QED
    BY <1>1, <2>1, <2>2, CatKept
<1>9. ASSUME CatSettled(CatIdle)
      PROVE  CatSettled(k)'
  <2>1. CatPending(k)'
    BY <1>3 DEF CatPending
  <2>2. ~catOld' => RefsSound'
    BY <1>1, <1>9 DEF CatSettled, RefsSound, Refers
  <2>3. QED
    BY <1>1, <1>3, <1>9, <2>1, <2>2, CatRests DEF CatSettled, Stored
<1>10. CatStaysCalm(r, k)
  BY <1>4, <1>9 DEF CatStaysCalm
<1>11. CatCallSound(k)'
  BY <1>3 DEF CatCallSound
<1>12. QED
  BY <1>3, <1>4, <1>7, <1>8, <1>10, <1>11, CatMoves

\* A file is read back: hosts that refer to what has gone since are the import's doing.
LEMMA CatImportsAll ==
  ASSUME CatInv, NEW r \in CatReqs, Import(r)
  PROVE  CatInv'
<1>1. /\ AtOnce(r) /\ catHost' = catExport.hosts /\ hostTags' = catExport.tags
      /\ catRows' = catRows \cup {p[2] : p \in catExport.tags}
      /\ catOld' = (catOld \/ \E h \in CatHosts : catExport.hosts[h].there /\ StaleRow(catExport.hosts[h]))
      /\ UNCHANGED <<catUsed, catDefault, catCert, catFiles, catExport, tplVars>>
  BY DEF Import, catCertVars
<1>2. PICK k \in CatCalls : catReq' = [catReq EXCEPT ![r] = k] /\ k.step = "done"
  BY <1>1, CatAtOnce
<1>3. /\ catMet' \in BOOLEAN /\ (catMet => catMet')
      /\ ~catMet' => (\A q \in CatReqs : CatAt(q, "done")) /\ CatSettled(CatIdle)
  BY <1>1, CatAtOnce
<1>4. catExport.hosts \in [CatHosts -> HostRow] /\ catExport.tags \subseteq CatHosts \X CatTags /\ catOld \in BOOLEAN
  BY DEF CatInv, CatRowsOK, CatExports
<1>5. CatRowsOK'
  <2>1. {p[2] : p \in catExport.tags} \subseteq CatTags
    BY <1>4
  <2>2. catRows' \subseteq CatIds
    BY <1>1, <2>1 DEF CatInv, CatRowsOK, CatIds
  <2>3. catOld' \in BOOLEAN
    BY <1>1, <1>4
  <2>4. QED
    BY <1>1, <1>4, <2>2, <2>3 DEF CatInv, CatRowsOK, tplVars
<1>6. SeedSound' /\ GoneSound' /\ TagsSound' /\ CertsSound' /\ catUsed \subseteq catUsed'
  <2>1. GoneSound'
    BY <1>1 DEF CatInv, GoneSound
  <2>2. TagsSound'
    BY <1>1 DEF CatInv, TagsSound
  <2>3. QED
    BY <1>1, <2>1, <2>2, CatKept
<1>7. ASSUME CatSettled(CatIdle)
      PROVE  CatSettled(k)'
  <2>1. CatPending(k)'
    BY <1>2 DEF CatPending
  <2>2. ASSUME ~catOld'
        PROVE  RefsSound'
    <3>1. ASSUME NEW h \in CatHosts, catHost'[h].there
          PROVE  Refers(catHost[h])' /\ \A t \in CatTags : <<h, t>> \in hostTags' => t \in catRows'
      <4>1. catHost'[h] = catExport.hosts[h] /\ ~StaleRow(catExport.hosts[h])
        BY <1>1, <2>2, <3>1
      <4>2. Refers(catHost[h])'
        BY <1>1, <4>1 DEF StaleRow, Refers
      <4>3. ASSUME NEW t \in CatTags, <<h, t>> \in hostTags'
            PROVE  t \in catRows'
        <5>1. <<h, t>>[2] \in {p[2] : p \in catExport.tags}
          BY <1>1, <4>3
        <5>2. QED
          BY <1>1, <5>1
      <4>4. QED
        BY <4>2, <4>3
    <3>2. QED
      BY <3>1 DEF RefsSound
  <2>3. QED
    BY <1>1, <1>2, <1>7, <2>1, <2>2, CatRests DEF CatSettled, Stored
<1>8. CatStaysCalm(r, k)
  BY <1>3, <1>7 DEF CatStaysCalm
<1>9. CatCallSound(k)'
  BY <1>2 DEF CatCallSound
<1>10. QED
  BY <1>2, <1>3, <1>5, <1>6, <1>8, <1>9, CatMoves

\* Requests that only write templates.
LEMMA CatTemplates ==
  ASSUME CatInv, NEW r \in CatReqs, AtOnce(r), SeedSound',
         templates' \subseteq Presets \cup Customs, seeding' \subseteq Presets, seedTorn' \in BOOLEAN,
         UNCHANGED <<catHost, hostTags, catRows, catUsed, catDefault, catCert, catFiles, catExport, catOld>>
  PROVE  CatInv'
<1>1. PICK k \in CatCalls : catReq' = [catReq EXCEPT ![r] = k] /\ k.step = "done"
  BY CatAtOnce
<1>2. /\ catMet' \in BOOLEAN /\ (catMet => catMet')
      /\ ~catMet' => (\A q \in CatReqs : CatAt(q, "done")) /\ CatSettled(CatIdle)
  BY CatAtOnce
<1>3. CatRowsOK'
  BY DEF CatInv, CatRowsOK
<1>4. GoneSound' /\ TagsSound' /\ CertsSound' /\ catUsed \subseteq catUsed'
  BY CatKept
<1>5. CatSettled(CatIdle) => CatSettled(k)'
  BY <1>1, CatRests DEF CatSettled, CatPending, RefsSound, Refers, Stored
<1>6. CatStaysCalm(r, k)
  BY <1>2, <1>5 DEF CatStaysCalm
<1>7. CatCallSound(k)'
  BY <1>1 DEF CatCallSound
<1>8. QED
  BY <1>1, <1>2, <1>3, <1>4, <1>6, <1>7, CatMoves

\* A custom template is inserted.
LEMMA CatCreatesTemplate ==
  ASSUME CatInv, NEW r \in CatReqs, NEW t \in Customs, CreateTemplate(r, t)
  PROVE  CatInv'
<1>1. /\ AtOnce(r) /\ templates' = templates \cup {t} /\ UNCHANGED <<seeding, seedTorn>>
      /\ UNCHANGED <<catHost, hostTags, catRows, catUsed, catDefault, catCert, catFiles, catExport, catOld>>
  BY DEF CreateTemplate, catHostVars, catCertVars
<1>2. SeedSound' /\ templates' \subseteq Presets \cup Customs /\ seeding' \subseteq Presets /\ seedTorn' \in BOOLEAN
  BY <1>1 DEF CatInv, CatRowsOK, SeedSound
<1>3. QED
  BY <1>1, <1>2, CatTemplates

\* A preset cannot be deleted.
LEMMA CatDeletesTemplate ==
  ASSUME CatInv, NEW r \in CatReqs, NEW t, DeleteTemplate(r, t)
  PROVE  CatInv'
<1>1. /\ AtOnce(r) /\ t \notin Presets /\ templates' = templates \ {t} /\ UNCHANGED <<seeding, seedTorn>>
      /\ UNCHANGED <<catHost, hostTags, catRows, catUsed, catDefault, catCert, catFiles, catExport, catOld>>
  BY DEF DeleteTemplate, DeleteAnyTemplate, catHostVars, catCertVars
<1>2. SeedSound' /\ templates' \subseteq Presets \cup Customs /\ seeding' \subseteq Presets /\ seedTorn' \in BOOLEAN
  BY <1>1 DEF CatInv, CatRowsOK, SeedSound
<1>3. QED
  BY <1>1, <1>2, CatTemplates

\* A host made from a template refers to nothing, and no tag is left of another host with its id.
LEMMA CatFromTemplate ==
  ASSUME CatInv, NEW r \in CatReqs, NEW h \in CatHosts, FromTemplate(r, h)
  PROVE  CatInv'
<1>1. /\ AtOnce(r) /\ h \notin catUsed
      /\ catHost' = [catHost EXCEPT ![h] = TemplateConfig] /\ catUsed' = catUsed \cup {h}
      /\ UNCHANGED <<hostTags, catRows, catDefault, catCert, catFiles, catExport, tplVars, catOld>>
  BY DEF FromTemplate, Ours, catCertVars
<1>2. PICK k \in CatCalls : catReq' = [catReq EXCEPT ![r] = k] /\ k.step = "done"
  BY <1>1, CatAtOnce
<1>3. /\ catMet' \in BOOLEAN /\ (catMet => catMet')
      /\ ~catMet' => (\A q \in CatReqs : CatAt(q, "done")) /\ CatSettled(CatIdle)
  BY <1>1, CatAtOnce
<1>4. /\ TemplateConfig \in HostRow /\ TemplateConfig.there /\ TemplateConfig.group = NoRef
      /\ TemplateConfig.dns = NoRef /\ TemplateConfig.cert = NoRef
  BY CatRests DEF TemplateConfig, HostRow
<1>5. \A g \in CatHosts : catHost'[g] = IF g = h THEN TemplateConfig ELSE catHost[g]
  BY <1>1 DEF CatInv, CatRowsOK
<1>6. CatRowsOK' /\ catUsed \subseteq catUsed'
  BY <1>1, <1>4 DEF CatInv, CatRowsOK, tplVars
<1>7. SeedSound' /\ GoneSound' /\ TagsSound' /\ CertsSound'
  <2>1. GoneSound'
    BY <1>1, <1>4, <1>5 DEF CatInv, GoneSound
  <2>2. QED
    BY <1>1, <1>6, <2>1, CatKept
<1>8. ASSUME CatSettled(CatIdle)
      PROVE  CatSettled(k)'
  <2>1. CatPending(k)'
    BY <1>2 DEF CatPending
  <2>2. ASSUME ~catOld
        PROVE  RefsSound'
    <3>1. \A t \in CatTags : <<h, t>> \notin hostTags
      BY <1>1 DEF CatInv, TagsSound
    <3>2. QED
      BY <1>1, <1>4, <1>5, <1>8, <2>2, <3>1 DEF CatSettled, RefsSound, Refers
  <2>3. QED
    BY <1>1, <1>2, <1>8, <2>1, <2>2, CatRests DEF CatSettled, Stored
<1>9. CatStaysCalm(r, k)
  BY <1>3, <1>8 DEF CatStaysCalm
<1>10. CatCallSound(k)'
  BY <1>2 DEF CatCallSound
<1>11. QED
  BY <1>2, <1>3, <1>6, <1>7, <1>9, <1>10, CatMoves

\* What does not touch rows or requests.
LEMMA CatCalmKept ==
  ASSUME CatInv, CatRowsOK', SeedSound',
         UNCHANGED <<catHost, hostTags, catRows, catUsed, catDefault, catCert, catFiles, catExport, catReq, catMet, catOld>>
  PROVE  CatInv'
<1>1. GoneSound' /\ TagsSound' /\ CertsSound'
  BY CatKept
<1>2. \A r \in CatReqs : CatCallSound(catReq[r])'
  BY DEF CatInv, CatCallSound
<1>3. ASSUME CatCalm
      PROVE  CatCalm'
  <2>1. \A r \in CatReqs : CatPending(catReq[r]) => CatPending(catReq[r])'
    BY DEF CatPending, Refers
  <2>2. RefsSound => RefsSound'
    BY DEF RefsSound, Refers
  <2>3. \A c \in CatCerts : Removing(c) <=> Removing(c)'
    BY DEF Removing, CatAt
  <2>4. QED
    BY <1>3, <2>1, <2>2, <2>3 DEF CatCalm, CatAt, Stored
<1>4. QED
  BY <1>1, <1>2, <1>3 DEF CatInv

\* A step of something else keeps the invariant.
LEMMA CatInvSame ==
  ASSUME CatInv, UNCHANGED catVars
  PROVE  CatInv'
<1>1. CatRowsOK' /\ SeedSound'
  BY DEF CatInv, CatRowsOK, SeedSound, catVars, tplVars
<1>2. QED
  BY <1>1, CatCalmKept DEF catVars

\* A preset is inserted, or lost.
LEMMA CatSeeds ==
  ASSUME CatInv, SeedPreset
  PROVE  CatInv'
<1>1. PICK t \in seeding : /\ seeding' = seeding \ {t}
                           /\ (templates' = templates \cup {t} /\ UNCHANGED seedTorn) \/ (seedTorn' = TRUE /\ UNCHANGED templates)
  BY DEF SeedPreset
<1>2. UNCHANGED <<catHost, hostTags, catRows, catUsed, catDefault, catCert, catFiles, catExport, catReq, catMet, catOld>>
  BY DEF SeedPreset, catHostVars, catCertVars
<1>3. CatRowsOK'
  BY <1>1, <1>2 DEF CatInv, CatRowsOK
<1>4. SeedSound'
  BY <1>1 DEF CatInv, CatRowsOK, SeedSound
<1>5. QED
  BY <1>2, <1>3, <1>4, CatCalmKept

\* The panel starts again and asks whether there are templates.
LEMMA CatDies ==
  ASSUME CatInv, CatPanelDies
  PROVE  CatInv'
<1>1. /\ catMet' = (catMet \/ CatBusy) /\ seedTorn' = (seedTorn \/ (templates # {} /\ seeding # {}))
      /\ seeding' = IF templates = {} THEN Presets ELSE {}
      /\ catReq' = [r \in CatReqs |-> CatIdle]
      /\ UNCHANGED <<catHost, hostTags, catRows, catUsed, catDefault, catCert, catFiles, catExport, templates, catOld>>
  BY DEF CatPanelDies, catHostVars, catCertVars
<1>2. catMet' \in BOOLEAN /\ seedTorn' \in BOOLEAN
  BY <1>1 DEF CatInv, CatRowsOK, CatBusy
<1>3. CatRowsOK'
  BY <1>1, <1>2 DEF CatInv, CatRowsOK
<1>4. SeedSound'
  BY <1>1 DEF CatInv, CatRowsOK, SeedSound
<1>5. GoneSound' /\ TagsSound' /\ CertsSound'
  BY <1>1, CatKept
<1>6. catReq' \in [CatReqs -> CatCalls] /\ \A r \in CatReqs : catReq'[r] = CatIdle
  BY <1>1, CatRests
<1>7. \A r \in CatReqs : CatCallSound(catReq[r])' /\ CatPending(catReq[r])' /\ CatAt(r, "done")'
  BY <1>6, CatRests DEF CatCallSound, CatPending, CatAt
<1>8. ASSUME ~catMet'
      PROVE  CatCalm'
  <2>1. CatCalm /\ \A r \in CatReqs : CatAt(r, "done")
    BY <1>1, <1>8 DEF CatInv, CatBusy
  <2>2. \A c \in CatCerts : ~Removing(c)
    BY <2>1 DEF Removing, CatAt
  <2>3. ~catOld' => RefsSound'
    BY <1>1, <2>1 DEF CatCalm, RefsSound, Refers
  <2>4. QED
    BY <1>1, <1>7, <2>1, <2>2, <2>3 DEF CatCalm, Stored
<1>9. QED
  BY <1>2, <1>3, <1>4, <1>5, <1>6, <1>7, <1>8 DEF CatInv

\* At the start there is nothing, and all presets are to come.
LEMMA CatInvInit ==
  ASSUME CatInit
  PROVE  CatInv
<1>1. /\ catHost = [h \in CatHosts |-> NoHostRow] /\ hostTags = {}
      /\ catRows = {} /\ catUsed = {} /\ catDefault = {}
      /\ catCert = [c \in CatCerts |-> NoRef] /\ catFiles = [d \in CertDirs |-> {}]
      /\ catExport = [hosts |-> [h \in CatHosts |-> NoHostRow], tags |-> {}]
      /\ templates = {} /\ seeding = Presets /\ seedTorn = FALSE
      /\ catReq = [r \in CatReqs |-> CatIdle] /\ catMet = FALSE /\ catOld = FALSE
  BY DEF CatInit, NoExport
<1>2. CatRowsOK
  <2>1. catExport \in CatExports /\ catHost \in [CatHosts -> HostRow]
    BY <1>1, CatRests DEF CatExports
  <2>2. QED
    BY <1>1, <2>1 DEF CatRowsOK
<1>3. SeedSound /\ GoneSound /\ TagsSound /\ CertsSound
  <2>1. catExport.hosts = [h \in CatHosts |-> NoHostRow] /\ catExport.tags = {}
    BY <1>1
  <2>2. QED
    BY <1>1, <2>1 DEF SeedSound, GoneSound, TagsSound, CertsSound
<1>4. catReq \in [CatReqs -> CatCalls] /\ \A r \in CatReqs : catReq[r] = CatIdle
  BY <1>1, CatRests
<1>5. \A r \in CatReqs : CatCallSound(catReq[r]) /\ CatPending(catReq[r]) /\ CatAt(r, "done")
  BY <1>4, CatRests DEF CatCallSound, CatPending, CatAt
<1>6. CatCalm
  BY <1>1, <1>5, CatRests DEF CatCalm, RefsSound
<1>7. QED
  BY <1>1, <1>2, <1>3, <1>4, <1>5, <1>6 DEF CatInv

\* Every request keeps the invariant.
LEMMA CatRequestKeeps ==
  ASSUME CatInv, NEW r \in CatReqs, CatRequest(r)
  PROVE  CatInv'
<1>1. CASE \E id \in CatGroups \cup CatTags : CreateRow(r, id)
  BY <1>1, CatCreatesRow
<1>2. CASE \E g \in CatGroups : DeleteGroup(r, g)
  BY <1>2, CatDeletesGroup
<1>3. CASE \E t \in CatTags : DeleteTag(r, t)
  BY <1>3, CatDeletesTag
<1>4. CASE \E h \in CatHosts : OpenForm(r, h) \/ DeleteCatHost(r, h) \/ Clone(r, h)
  BY <1>4, CatOpensForm, CatDeletesHost, CatClones
<1>5. CASE \E p \in Providers, flag \in BOOLEAN : UnsetDefault(r, p, flag)
  BY <1>5, CatUnsetsDefault
<1>6. CASE \E p \in Providers : CountHosts(r, p)
  BY <1>6, CatCounts
<1>7. CASE \E c \in CatCerts, d \in CertDirs : WriteCert(r, c, d)
  BY <1>7, CatWritesCert
<1>8. CASE \E c \in CatCerts : RemoveFiles(r, c)
  BY <1>8, CatRemovesFiles
<1>9. CASE \E t \in Customs : CreateTemplate(r, t) \/ SaveAsTemplate(r, t) \/ ImportTemplate(r, t)
  BY <1>9, CatCreatesTemplate DEF SaveAsTemplate, ImportTemplate
<1>10. CASE \E t \in Presets \cup Customs : DeleteTemplate(r, t)
  BY <1>10, CatDeletesTemplate
<1>11. CASE \E h \in CatHosts : FromTemplate(r, h)
  BY <1>11, CatFromTemplate
<1>12. CASE RemoveRow(r) \/ SaveHost(r) \/ SyncTags(r) \/ InsertClone(r) \/ Export(r) \/ Import(r)
  BY <1>12, CatRemovesRow, CatSavesHost, CatSyncsTags, CatInsertsClone, CatExportsAll, CatImportsAll
<1>13. CASE SaveProvider(r) \/ DeleteProvider(r) \/ WriteKey(r) \/ InsertCert(r) \/ DeleteCert(r)
  BY <1>13, CatSavesProvider, CatDeletesProvider, CatWritesKey, CatInsertsCert, CatDeletesCert
<1>14. QED
  BY <1>1, <1>2, <1>3, <1>4, <1>5, <1>6, <1>7, <1>8, <1>9, <1>10, <1>11, <1>12, <1>13 DEF CatRequest

\* Every step of the catalog keeps the invariant.
LEMMA CatInvStep ==
  ASSUME CatInv, CatNext
  PROVE  CatInv'
  BY CatDies, CatSeeds, CatRequestKeeps DEF CatNext

\* The invariant is enough for what the run checks.
LEMMA CatInvSound ==
  ASSUME CatInv
  PROVE  CatalogSound
<1>1. seeding = {} /\ ~seedTorn => Presets \subseteq templates
  BY DEF CatInv, SeedSound
<1>2. ~catMet => Cardinality(catDefault) <= 1
  <2>1. CASE catDefault = {}
    BY <2>1, FS_EmptySet
  <2>2. CASE catDefault # {}
    <3>1. PICK p : p \in catDefault
      BY <2>2
    <3>2. ~catMet => catDefault = {p}
      BY <3>1 DEF CatInv, CatCalm
    <3>3. QED
      BY <3>2, FS_Singleton
  <2>3. QED
    BY <2>1, <2>2
<1>3. ASSUME ~catMet, ~catOld, NEW h \in CatHosts, catHost[h].there
      PROVE  /\ catHost[h].group \in catRows \cup {NoRef} /\ catHost[h].dns \in catRows \cup {NoRef}
             /\ \A t \in CatTags : <<h, t>> \in hostTags => t \in catRows
             /\ catHost[h].cert # NoRef => {catHost[h].cert} \X {"cert", "key"} \subseteq catFiles[catCert[catHost[h].cert]]
  <2>1. CatCalm /\ Refers(catHost[h]) /\ \A t \in CatTags : <<h, t>> \in hostTags => t \in catRows
    BY <1>3 DEF CatInv, CatCalm, RefsSound
  <2>2. ASSUME catHost[h].cert # NoRef
        PROVE  {catHost[h].cert} \X {"cert", "key"} \subseteq catFiles[catCert[catHost[h].cert]]
    <3>1. catHost[h].cert \in CatCerts /\ catCert[catHost[h].cert] # NoRef
      BY <2>1, <2>2 DEF Refers, CatInv, CatRowsOK, HostRow
    <3>2. ~Removing(catHost[h].cert)
      <4>1. \A r \in CatReqs : CatAt(r, "uncert") => catReq[r].x # catHost[h].cert
        BY <2>1 DEF CatCalm, CatPending, CatAt
      <4>2. QED
        BY <4>1 DEF Removing
    <3>3. Stored(catHost[h].cert, catCert[catHost[h].cert])
      BY <2>1, <3>1, <3>2 DEF CatCalm
    <3>4. QED
      BY <3>3 DEF Stored
  <2>3. QED
    BY <2>1, <2>2 DEF Refers
<1>4. QED
  BY <1>1, <1>2, <1>3 DEF CatalogSound
=============================================================================
