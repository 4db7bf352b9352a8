-------------------------- MODULE AgreementProofs ---------------------------
(***************************************************************************)
(* The two parts of the chain in which several accounts have to agree, for *)
(* any number of accounts, ids, terms, authorities, partners, periods and  *)
(* blocks.  Of escrows: each ends all or nothing and is ratified in time,  *)
(* and the accounts and the escrows together always hold the same coins.   *)
(* Of the recovery of accounts: the history of owner authorities is that   *)
(* of the recovery period, who endorses a recovery is or was lately the    *)
(* recovery account, and a change of this account is delayed.              *)
(***************************************************************************)
EXTENDS Escrow, AccountRecovery, SumTheorems, SequenceTheorems, WellFoundedInduction, TLAPS

\* The steps late in a module of this size need more than the default time.
USE SMTT(30), ZenonT(30), SMTT(60)

-----------------------------------------------------------------------------
\* Owner authorities and their recovery.

\* A request expires in the future, within a request period; it was made by the
\* current recovery account, or before the current one took office.
RequestSound(a) ==
  request[a].exists =>
    /\ head_time < request[a].expires /\ request[a].expires <= head_time + RequestPeriod
    /\ \/ account[a].recovery_account = request[a].by
       \/ account[a].recovery_account = NoPartner
       \/ request[a].expires <= since[a] + RequestPeriod

\* A change of the recovery account takes effect a recovery period after it was
\* asked for, and is still to come.
ChangeSound(a) ==
  change[a].exists => /\ change[a].effective_on = change[a].asked + RecoveryPeriod
                      /\ head_time < change[a].effective_on

\* The history is in the order of time.
Ordered(s, time) ==
  /\ \A i \in 1 .. Len(s) : s[i].last_valid_time <= time
  /\ \A i, j \in 1 .. Len(s) : i <= j => s[i].last_valid_time <= s[j].last_valid_time

\* The inductive invariant.
RecoveryInv ==
  /\ RecoveryTypeOK
  /\ \A a \in Owners : RequestSound(a) /\ ChangeSound(a)
  /\ Ordered(history, head_time)
  /\ HistoryIsRecent

LEMMA RecoveryInitially == RecoveryInit => RecoveryInv
<1> SUFFICES ASSUME RecoveryInit PROVE RecoveryInv
  OBVIOUS
<1>1. RecoveryTypeOK
  BY RecoveryAssumption DEF RecoveryInit, RecoveryTypeOK, AccountObject
<1>2. ASSUME NEW a \in Owners PROVE RequestSound(a) /\ ChangeSound(a)
  BY DEF RecoveryInit, RequestSound, ChangeSound, NoRequest
<1>3. Ordered(history, head_time) /\ HistoryIsRecent
  BY DEF RecoveryInit, Ordered, HistoryIsRecent
<1> QED
  BY <1>1, <1>2, <1>3 DEF RecoveryInv

\* update_owner_authority: the new entry is the last one, of the present time.
LEMMA UpdateInv ==
  ASSUME RecoveryInv, NEW a \in Owners, NEW acc \in AccountObject,
         acc.recovery_account = account[a].recovery_account,
         NEW authority \in Authorities \cup {Deleted},
         update_owner_authority(a, acc, authority), head_time' = head_time
  PROVE  /\ account' \in [Owners -> AccountObject]
         /\ \A b \in Owners : account'[b].recovery_account = account[b].recovery_account
         /\ history' \in Seq(HistoryObject) /\ replaced' \subseteq HistoryObject
         /\ Ordered(history', head_time') /\ HistoryIsRecent'
<1> DEFINE old == [account |-> a, previous_owner_authority |-> account[a].owner,
                   last_valid_time |-> head_time]
<1>1. head_time \in Nat /\ account \in [Owners -> AccountObject]
      /\ history \in Seq(HistoryObject) /\ replaced \subseteq HistoryObject
  BY DEF RecoveryInv, RecoveryTypeOK
<1>2. old \in HistoryObject
  BY <1>1 DEF HistoryObject, AccountObject
<1>3. history' = Append(history, old) /\ replaced' = replaced \cup {old}
  BY DEF update_owner_authority
<1>4. [acc EXCEPT !.owner = authority, !.last_owner_update = head_time] \in AccountObject
  BY <1>1, Zenon DEF AccountObject
<1>5. /\ account' \in [Owners -> AccountObject]
      /\ \A b \in Owners : account'[b].recovery_account = account[b].recovery_account
  <2>1. account' = [account EXCEPT ![a] =
                      [acc EXCEPT !.owner = authority, !.last_owner_update = head_time]]
    BY DEF update_owner_authority
  <2>2. [acc EXCEPT !.owner = authority, !.last_owner_update = head_time].recovery_account
          = acc.recovery_account
    BY DEF AccountObject
  <2> QED
    BY <1>1, <1>4, <2>1, <2>2
<1>6. old.last_valid_time = head_time
  OBVIOUS
<1> HIDE DEF old
<1>7. /\ history' \in Seq(HistoryObject) /\ Len(history') = Len(history) + 1
      /\ \A i \in 1 .. Len(history) : history'[i] = history[i]
      /\ history'[Len(history) + 1] = old
  BY <1>1, <1>2, <1>3
<1>8. replaced' \subseteq HistoryObject
  BY <1>1, <1>2, <1>3
<1>9. Ordered(history', head_time')
  <2>1. Ordered(history, head_time)
    BY DEF RecoveryInv
  <2>2. \A i \in 1 .. Len(history) : history[i].last_valid_time <= head_time
    BY <2>1 DEF Ordered
  <2>3. \A i \in 1 .. Len(history') : history'[i].last_valid_time <= head_time
    BY <1>1, <1>6, <1>7, <2>2
  <2>4. ASSUME NEW i \in 1 .. Len(history'), NEW j \in 1 .. Len(history'), i <= j
        PROVE  history'[i].last_valid_time <= history'[j].last_valid_time
    <3>1. CASE j = Len(history) + 1
      BY <1>6, <1>7, <2>3, <3>1
    <3>2. CASE j # Len(history) + 1
      <4>1. i \in 1 .. Len(history) /\ j \in 1 .. Len(history)
        BY <1>1, <1>7, <2>4, <3>2
      <4> QED
        BY <1>7, <2>1, <2>4, <4>1 DEF Ordered
    <3> QED
      BY <3>1, <3>2
  <2> QED
    BY <2>3, <2>4 DEF Ordered
<1>10. HistoryIsRecent'
  <2>1. {history'[i] : i \in 1 .. Len(history')}
          = {history[i] : i \in 1 .. Len(history)} \cup {old}
    BY <1>1, <1>7
  <2>2. {history[i] : i \in 1 .. Len(history)}
          = {h \in replaced : h.last_valid_time + RecoveryPeriod >= head_time}
    BY DEF RecoveryInv, HistoryIsRecent
  <2>3. old.last_valid_time + RecoveryPeriod >= head_time
    BY <1>1, <1>6, RecoveryAssumption
  <2> QED
    BY <1>3, <2>1, <2>2, <2>3 DEF HistoryIsRecent
<1> QED
  BY <1>5, <1>7, <1>8, <1>9, <1>10

\* The loop that clears the history stops at an entry, or at the end.
LEMMA FirstValidExists ==
  ASSUME history \in Seq(HistoryObject), NEW time \in Nat
  PROVE  /\ FirstValid(time) \in 1 .. Len(history) + 1
         /\ \A i \in 1 .. FirstValid(time) - 1 : ~ StillValid(history[i], time)
         /\ FirstValid(time) <= Len(history) => StillValid(history[FirstValid(time)], time)
<1> DEFINE Stop(n) == n <= Len(history) => StillValid(history[n], time)
           T == {n \in 1 .. Len(history) + 1 : Stop(n)}
<1>1. Len(history) \in Nat
  OBVIOUS
<1>2. T \subseteq Nat /\ Len(history) + 1 \in T
  BY <1>1
<1>3. PICK n \in T : \A m \in T : ~ (<<m, n>> \in OpToRel(<, Nat))
  BY <1>2, NatLessThanWellFounded, WFMin, ZenonT(30)
<1>4. \A m \in T : ~ (m < n)
  BY <1>2, <1>3, Zenon DEF OpToRel
<1>5. n \in 1 .. Len(history) + 1 /\ Stop(n)
  OBVIOUS
<1>6. ASSUME NEW i \in 1 .. n - 1 PROVE ~ StillValid(history[i], time)
  <2>1. i \in 1 .. Len(history) + 1 /\ i < n
    BY <1>1, <1>5
  <2>2. i \notin T
    BY <1>4, <2>1
  <2> QED
    BY <2>1, <2>2
<1>7. \E k \in 1 .. Len(history) + 1 :
         /\ \A i \in 1 .. k - 1 : ~ StillValid(history[i], time)
         /\ k <= Len(history) => StillValid(history[k], time)
  BY <1>5, <1>6
<1> QED
  BY <1>7 DEF FirstValid

\* account_recovery_processing leaves exactly the entries that are still valid.
LEMMA RemainingIsRecent ==
  ASSUME RecoveryInv, NEW time \in Nat, head_time < time
  PROVE  /\ Remaining(time) \in Seq(HistoryObject)
         /\ Ordered(Remaining(time), time)
         /\ {Remaining(time)[i] : i \in 1 .. Len(Remaining(time))}
              = {h \in replaced : h.last_valid_time + RecoveryPeriod >= time}
<1> DEFINE n == FirstValid(time)
           N == Len(history)
           r == Remaining(time)
<1>1. /\ history \in Seq(HistoryObject) /\ N \in Nat /\ head_time \in Nat
      /\ \A i \in 1 .. N : history[i] \in HistoryObject /\ history[i].last_valid_time \in Nat
      /\ RecoveryPeriod \in Nat
  <2>1. history \in Seq(HistoryObject) /\ head_time \in Nat
    BY DEF RecoveryInv, RecoveryTypeOK
  <2>2. N \in Nat /\ \A i \in 1 .. N : history[i] \in HistoryObject
    BY <2>1
  <2>3. \A h \in HistoryObject : h.last_valid_time \in Nat
    BY DEF HistoryObject
  <2> QED
    BY <2>1, <2>2, <2>3, RecoveryAssumption
<1>2. /\ n \in 1 .. N + 1
      /\ \A i \in 1 .. n - 1 : ~ StillValid(history[i], time)
      /\ n <= N => StillValid(history[n], time)
  BY <1>1, FirstValidExists
<1> HIDE DEF n
<1>3. r = SubSeq(history, n, N)
  BY DEF Remaining, n
<1>4. /\ r \in Seq(HistoryObject)
      /\ Len(r) = N - n + 1
      /\ \A i \in 1 .. N - n + 1 : r[i] = history[n + i - 1]
  <2>1. \A i \in n .. N : history[i] \in HistoryObject
    BY <1>1, <1>2
  <2> QED
    BY <1>1, <1>2, <1>3, <2>1, SubSeqProperties
<1> HIDE DEF r
<1>5. /\ \A i \in 1 .. N : history[i].last_valid_time <= head_time
      /\ \A i, j \in 1 .. N : i <= j => history[i].last_valid_time <= history[j].last_valid_time
  BY DEF RecoveryInv, Ordered
<1>6. Ordered(r, time)
  <2>1. ASSUME NEW i \in 1 .. Len(r)
        PROVE  n + i - 1 \in 1 .. N /\ r[i] = history[n + i - 1]
    BY <1>1, <1>2, <1>4
  <2>2. ASSUME NEW i \in 1 .. Len(r) PROVE r[i].last_valid_time <= time
    <3>1. history[n + i - 1].last_valid_time <= head_time
             /\ history[n + i - 1].last_valid_time \in Nat
      BY <1>1, <1>5, <2>1
    <3> QED
      BY <1>1, <2>1, <3>1
  <2>3. ASSUME NEW i \in 1 .. Len(r), NEW j \in 1 .. Len(r), i <= j
        PROVE  r[i].last_valid_time <= r[j].last_valid_time
    <3>1. n + i - 1 <= n + j - 1
      BY <1>2, <2>3
    <3> QED
      BY <1>5, <2>1, <3>1
  <2> QED
    BY <2>2, <2>3 DEF Ordered
<1>7. ASSUME NEW i \in n .. N PROVE StillValid(history[i], time)
  <2>1. n \in 1 .. N /\ i \in 1 .. N /\ n <= i
    BY <1>1, <1>2
  <2>2. history[n].last_valid_time <= history[i].last_valid_time
    BY <1>5, <2>1
  <2> QED
    BY <1>1, <1>2, <2>1, <2>2 DEF StillValid
<1>8. {r[i] : i \in 1 .. Len(r)} = {history[i] : i \in n .. N}
  <2>1. ASSUME NEW i \in 1 .. Len(r) PROVE \E j \in n .. N : r[i] = history[j]
    <3>1. n + i - 1 \in n .. N
      BY <1>1, <1>2, <1>4
    <3> QED
      BY <1>4, <3>1
  <2>2. ASSUME NEW j \in n .. N PROVE \E i \in 1 .. Len(r) : r[i] = history[j]
    <3>1. j - n + 1 \in 1 .. Len(r) /\ n + (j - n + 1) - 1 = j
      BY <1>1, <1>2, <1>4
    <3> QED
      BY <1>4, <3>1
  <2> QED
    BY <2>1, <2>2
<1>9. {history[i] : i \in 1 .. N}
        = {h \in replaced : h.last_valid_time + RecoveryPeriod >= head_time}
  BY DEF RecoveryInv, HistoryIsRecent
<1>10. ASSUME NEW i \in n .. N
       PROVE  history[i] \in replaced /\ history[i].last_valid_time + RecoveryPeriod >= time
  <2>1. i \in 1 .. N
    BY <1>1, <1>2
  <2>2. history[i] \in replaced
    BY <1>9, <2>1
  <2> QED
    BY <1>1, <1>7, <2>1, <2>2 DEF StillValid
<1>11. ASSUME NEW h \in replaced, h.last_valid_time + RecoveryPeriod >= time
       PROVE  \E i \in n .. N : history[i] = h
  <2>1. h.last_valid_time \in Nat
    BY DEF RecoveryInv, RecoveryTypeOK, HistoryObject
  <2>2. h.last_valid_time + RecoveryPeriod >= head_time
    BY <1>1, <1>11, <2>1
  <2>3. PICK i \in 1 .. N : history[i] = h
    BY <1>9, <2>2
  <2>4. StillValid(history[i], time)
    BY <1>1, <1>11, <2>1, <2>3 DEF StillValid
  <2>5. i \in n .. N
    BY <1>1, <1>2, <2>4
  <2> QED
    BY <2>3, <2>5
<1>12. {history[i] : i \in n .. N} = {h \in replaced : h.last_valid_time + RecoveryPeriod >= time}
  BY <1>10, <1>11
<1> QED
  BY <1>4, <1>6, <1>8, <1>12, Zenon DEF r

\* What concerns one account depends only on its own records.
LEMMA SoundKept ==
  ASSUME RecoveryInv, head_time' = head_time, since' = since, NEW b \in Owners,
         account'[b].recovery_account = account[b].recovery_account
  PROVE  /\ request'[b] = request[b] => RequestSound(b)'
         /\ change'[b] = change[b] => ChangeSound(b)'
         /\ request'[b] = NoRequest => RequestSound(b)'
         /\ change'[b] = NoRequest => ChangeSound(b)'
<1>1. RequestSound(b) /\ ChangeSound(b)
  BY DEF RecoveryInv
<1> QED
  BY <1>1 DEF RequestSound, ChangeSound, NoRequest

\* The operations that replace the owner authority and nothing else.
LEMMA OwnerInv ==
  ASSUME RecoveryInv, NEW a \in Owners, NEW authority \in Authorities \cup {Deleted},
         update_owner_authority(a, account[a], authority),
         UNCHANGED <<head_time, request, change, since>>
  PROVE  RecoveryInv'
<1>1. RecoveryTypeOK /\ account[a] \in AccountObject
  BY DEF RecoveryInv, RecoveryTypeOK
<1>2. /\ account' \in [Owners -> AccountObject]
      /\ \A b \in Owners : account'[b].recovery_account = account[b].recovery_account
      /\ history' \in Seq(HistoryObject) /\ replaced' \subseteq HistoryObject
      /\ Ordered(history', head_time') /\ HistoryIsRecent'
  BY <1>1, UpdateInv
<1>3. RecoveryTypeOK'
  BY <1>1, <1>2 DEF RecoveryTypeOK
<1>4. \A b \in Owners : RequestSound(b)' /\ ChangeSound(b)'
  BY <1>2, SoundKept
<1> QED
  BY <1>2, <1>3, <1>4 DEF RecoveryInv

LEMMA RecoverInv ==
  ASSUME RecoveryInv, NEW a \in Owners, NEW recent \in Authorities, recover_account(a, recent)
  PROVE  RecoveryInv'
<1> DEFINE acc == [account[a] EXCEPT !.last_account_recovery = head_time]
<1>1. RecoveryTypeOK /\ account[a] \in AccountObject /\ head_time \in Nat
  BY DEF RecoveryInv, RecoveryTypeOK
<1>2. acc \in AccountObject /\ acc.recovery_account = account[a].recovery_account
  BY <1>1 DEF AccountObject
<1>3. request[a].new_owner_authority \in Authorities
  <2>1. request[a] \in Request \cup {NoRequest}
    BY <1>1 DEF RecoveryTypeOK
  <2>2. request[a].exists
    BY DEF recover_account
  <2>3. request[a] # NoRequest
    BY <2>2 DEF NoRequest
  <2> QED
    BY <2>1, <2>3, Zenon DEF Request
<1>4. /\ update_owner_authority(a, acc, request[a].new_owner_authority)
      /\ request' = [request EXCEPT ![a] = NoRequest] /\ UNCHANGED <<head_time, change, since>>
  BY DEF recover_account
<1> HIDE DEF acc
<1>5. /\ account' \in [Owners -> AccountObject]
      /\ \A b \in Owners : account'[b].recovery_account = account[b].recovery_account
      /\ history' \in Seq(HistoryObject) /\ replaced' \subseteq HistoryObject
      /\ Ordered(history', head_time') /\ HistoryIsRecent'
  BY <1>2, <1>3, <1>4, UpdateInv
<1>6. /\ request' \in [Owners -> Request \cup {NoRequest}]
      /\ \A b \in Owners : request'[b] = request[b] \/ request'[b] = NoRequest
  BY <1>1, <1>4 DEF RecoveryTypeOK
<1>7. RecoveryTypeOK'
  BY <1>1, <1>4, <1>5, <1>6 DEF RecoveryTypeOK
<1>8. \A b \in Owners : RequestSound(b)' /\ ChangeSound(b)'
  BY <1>4, <1>5, <1>6, SoundKept
<1> QED
  BY <1>5, <1>7, <1>8 DEF RecoveryInv

\* The operations on requests of recovery.
LEMMA RequestInv ==
  ASSUME RecoveryInv, NEW a \in Owners, NEW by \in Partners,
         NEW authority \in Authorities \cup {Impossible},
         \/ request_account_recovery(a, by, authority)
         \/ cancel_account_recovery(a, by)
  PROVE  RecoveryInv'
<1> DEFINE req == [exists |-> TRUE, new_owner_authority |-> authority,
                   expires |-> head_time + RequestPeriod, by |-> by]
<1>1. RecoveryTypeOK /\ head_time \in Nat /\ RequestPeriod \in Nat \ {0}
  BY RecoveryAssumption DEF RecoveryInv, RecoveryTypeOK
<1>2. /\ UNCHANGED <<head_time, account, change, history, replaced, since>>
      /\ \/ request' = [request EXCEPT ![a] = NoRequest]
         \/ /\ request' = [request EXCEPT ![a] = req] /\ authority # Impossible
            /\ MayRequest(a, by)
  BY DEF request_account_recovery, cancel_account_recovery
<1>3. /\ request' \in [Owners -> Request \cup {NoRequest}]
      /\ \A b \in Owners : \/ request'[b] = request[b]
                           \/ request'[b] = NoRequest
                           \/ b = a /\ request'[b] = req /\ MayRequest(a, by)
  <2>1. authority # Impossible => req \in Request
    BY <1>1 DEF Request
  <2> HIDE DEF req
  <2>2. request \in [Owners -> Request \cup {NoRequest}]
    BY <1>1 DEF RecoveryTypeOK
  <2>3. CASE request' = [request EXCEPT ![a] = NoRequest]
    BY <2>2, <2>3
  <2>4. CASE /\ request' = [request EXCEPT ![a] = req] /\ authority # Impossible
             /\ MayRequest(a, by)
    BY <2>1, <2>2, <2>4
  <2> QED
    BY <1>2, <2>3, <2>4
<1>4. MayRequest(a, by) /\ request'[a] = req => RequestSound(a)'
  BY <1>1, <1>2 DEF RequestSound, MayRequest
<1>5. \A b \in Owners : RequestSound(b)' /\ ChangeSound(b)'
  BY <1>2, <1>3, <1>4, SoundKept
<1>6. RecoveryTypeOK'
  BY <1>1, <1>2, <1>3 DEF RecoveryTypeOK
<1> QED
  BY <1>2, <1>5, <1>6 DEF RecoveryInv, HistoryIsRecent

LEMMA ChangeInv ==
  ASSUME RecoveryInv, NEW a \in Owners, NEW new \in Partners, change_recovery_account(a, new)
  PROVE  RecoveryInv'
<1> DEFINE c == [exists |-> TRUE, recovery_account |-> new,
                 effective_on |-> head_time + RecoveryPeriod, asked |-> head_time]
<1>1. RecoveryTypeOK /\ head_time \in Nat /\ RecoveryPeriod \in Nat \ {0}
  BY RecoveryAssumption DEF RecoveryInv, RecoveryTypeOK
<1>2. /\ UNCHANGED <<head_time, account, request, history, replaced, since>>
      /\ \/ change' = [change EXCEPT ![a] = NoRequest]
         \/ change' = [change EXCEPT ![a] = c]
  BY Zenon DEF change_recovery_account
<1>3. /\ change' \in [Owners -> Change \cup {NoRequest}]
      /\ \A b \in Owners : \/ change'[b] = change[b]
                           \/ change'[b] = NoRequest
                           \/ b = a /\ change'[b] = c
  <2>1. c \in Change
    BY <1>1 DEF Change
  <2> QED
    BY <1>1, <1>2, <2>1, Zenon DEF RecoveryTypeOK
<1>4. change'[a] = c => ChangeSound(a)'
  BY <1>1, <1>2 DEF ChangeSound
<1>5. \A b \in Owners : RequestSound(b)' /\ ChangeSound(b)'
  BY <1>2, <1>3, <1>4, SoundKept
<1>6. RecoveryTypeOK'
  BY <1>1, <1>2, <1>3 DEF RecoveryTypeOK
<1> QED
  BY <1>2, <1>5, <1>6 DEF RecoveryInv, HistoryIsRecent

LEMMA SetResetInv ==
  ASSUME RecoveryInv, NEW a \in Owners, NEW new \in Partners, set_reset_account(a, new)
  PROVE  RecoveryInv'
<1>1. RecoveryTypeOK /\ account[a] \in AccountObject
  BY DEF RecoveryInv, RecoveryTypeOK
<1>2. /\ UNCHANGED <<head_time, request, change, history, replaced, since>>
      /\ account' = [account EXCEPT ![a] = [account[a] EXCEPT !.reset_account = new]]
  BY DEF set_reset_account
<1>3. /\ [account[a] EXCEPT !.reset_account = new] \in AccountObject
      /\ [account[a] EXCEPT !.reset_account = new].recovery_account = account[a].recovery_account
  BY <1>1 DEF AccountObject
<1>4. /\ account' \in [Owners -> AccountObject]
      /\ \A b \in Owners : account'[b].recovery_account = account[b].recovery_account
  BY <1>1, <1>2, <1>3 DEF RecoveryTypeOK
<1>5. RecoveryTypeOK'
  BY <1>1, <1>2, <1>4 DEF RecoveryTypeOK
<1>6. \A b \in Owners : RequestSound(b)' /\ ChangeSound(b)'
  BY <1>2, <1>4, SoundKept
<1> QED
  BY <1>2, <1>5, <1>6 DEF RecoveryInv, HistoryIsRecent

\* account_recovery_processing.
LEMMA RecoveryBlockInv ==
  ASSUME RecoveryInv, NEW time \in Nat, head_time < time, head_time' = time,
         account_recovery_processing(time)
  PROVE  RecoveryInv'
<1>1. /\ RecoveryTypeOK /\ head_time \in Nat /\ RequestPeriod \in Nat /\ RecoveryPeriod \in Nat
      /\ account \in [Owners -> AccountObject]
      /\ request \in [Owners -> Request \cup {NoRequest}]
      /\ change \in [Owners -> Change \cup {NoRequest}]
      /\ since \in [Owners -> Nat]
  BY RecoveryAssumption DEF RecoveryInv, RecoveryTypeOK
<1>2. history' = Remaining(time) /\ replaced' = replaced
  BY DEF account_recovery_processing
<1>3. history' \in Seq(HistoryObject) /\ Ordered(history', head_time') /\ HistoryIsRecent'
  BY <1>2, RemainingIsRecent DEF HistoryIsRecent
<1>4. request' = [a \in Owners |-> IF a \in Outdated(time) THEN NoRequest ELSE request[a]]
  BY DEF account_recovery_processing
<1>5. change' = [a \in Owners |-> IF a \in Effective(time) THEN NoRequest ELSE change[a]]
  BY DEF account_recovery_processing
<1>6. account' = [a \in Owners |->
        IF a \in Effective(time)
        THEN [account[a] EXCEPT !.recovery_account = change[a].recovery_account]
        ELSE account[a]]
  BY DEF account_recovery_processing
<1>7. since' = [a \in Owners |->
        IF a \in Effective(time) /\ change[a].recovery_account # account[a].recovery_account
        THEN time ELSE since[a]]
  BY DEF account_recovery_processing
<1>8. ASSUME NEW a \in Owners, a \in Effective(time)
      PROVE  /\ [account[a] EXCEPT !.recovery_account = change[a].recovery_account]
                   \in AccountObject
             /\ account'[a].recovery_account = change[a].recovery_account
  <2>1. change[a].exists
    BY <1>8 DEF Effective
  <2>2. change[a] # NoRequest
    BY <2>1 DEF NoRequest
  <2>3. change[a].recovery_account \in Partners
    BY <1>1, <2>2, Zenon DEF Change
  <2>4. account[a] \in AccountObject
    BY <1>1
  <2> QED
    BY <1>6, <1>8, <2>3, <2>4 DEF AccountObject
<1>9. RecoveryTypeOK'
  <2>1. account' \in [Owners -> AccountObject]
    BY <1>1, <1>6, <1>8
  <2>2. request' \in [Owners -> Request \cup {NoRequest}]
    BY <1>1, <1>4
  <2>3. change' \in [Owners -> Change \cup {NoRequest}]
    BY <1>1, <1>5
  <2>4. since' \in [Owners -> Nat]
    BY <1>1, <1>7
  <2> QED
    BY <1>1, <1>2, <1>3, <2>1, <2>2, <2>3, <2>4 DEF RecoveryTypeOK
<1>10. ASSUME NEW a \in Owners PROVE RequestSound(a)'
  <2> SUFFICES ASSUME request'[a].exists
               PROVE  /\ time < request'[a].expires
                      /\ request'[a].expires <= time + RequestPeriod
                      /\ \/ account'[a].recovery_account = request'[a].by
                         \/ account'[a].recovery_account = NoPartner
                         \/ request'[a].expires <= since'[a] + RequestPeriod
    BY DEF RequestSound
  <2>1. a \notin Outdated(time) /\ request'[a] = request[a]
    BY <1>4 DEF NoRequest
  <2>2. request[a].exists /\ request[a] # NoRequest
    BY <2>1 DEF NoRequest
  <2>3. request[a].expires \in Nat
    BY <1>1, <2>2, Zenon DEF Request
  <2>4. time < request[a].expires
    BY <2>1, <2>2, <2>3 DEF Outdated
  <2>5. /\ request[a].expires <= head_time + RequestPeriod
        /\ \/ account[a].recovery_account = request[a].by
           \/ account[a].recovery_account = NoPartner
           \/ request[a].expires <= since[a] + RequestPeriod
    BY <2>2 DEF RecoveryInv, RequestSound
  <2>6. request[a].expires <= time + RequestPeriod
    BY <1>1, <2>3, <2>5
  <2>7. CASE a \in Effective(time) /\ change[a].recovery_account # account[a].recovery_account
    <3>1. since'[a] = time
      BY <1>7, <2>7
    <3> QED
      BY <2>1, <2>4, <2>6, <3>1
  <2>8. CASE a \in Effective(time) /\ change[a].recovery_account = account[a].recovery_account
    <3>1. since'[a] = since[a] /\ account'[a].recovery_account = account[a].recovery_account
      BY <1>7, <1>8, <2>8, Zenon
    <3> QED
      BY <2>1, <2>4, <2>5, <2>6, <3>1
  <2>9. CASE a \notin Effective(time)
    <3>1. since'[a] = since[a] /\ account'[a] = account[a]
      BY <1>6, <1>7, <2>9
    <3> QED
      BY <2>1, <2>4, <2>5, <2>6, <3>1
  <2> QED
    BY <2>7, <2>8, <2>9
<1>11. ASSUME NEW a \in Owners PROVE ChangeSound(a)'
  <2> SUFFICES ASSUME change'[a].exists
               PROVE  /\ change'[a].effective_on = change'[a].asked + RecoveryPeriod
                      /\ time < change'[a].effective_on
    BY DEF ChangeSound
  <2>1. a \notin Effective(time) /\ change'[a] = change[a]
    BY <1>5 DEF NoRequest
  <2>2. change[a].exists /\ change[a] # NoRequest
    BY <2>1 DEF NoRequest
  <2>3. change[a].effective_on \in Nat
    BY <1>1, <2>2, Zenon DEF Change
  <2> QED
    BY <2>1, <2>2, <2>3 DEF Effective, RecoveryInv, ChangeSound
<1> QED
  BY <1>3, <1>9, <1>10, <1>11 DEF RecoveryInv

LEMMA RecoveryKept == RecoveryInv /\ [RecoveryNext]_recovery_vars => RecoveryInv'
<1> SUFFICES ASSUME RecoveryInv, [RecoveryNext]_recovery_vars PROVE RecoveryInv'
  OBVIOUS
<1>1. ASSUME NEW a \in Owners, account_delete(a) PROVE RecoveryInv'
  BY <1>1, OwnerInv DEF account_delete, account_update
<1>2. ASSUME NEW a \in Owners, NEW x \in Authorities, account_update(a, x) PROVE RecoveryInv'
  BY <1>2, OwnerInv DEF account_update
<1>3. ASSUME NEW a \in Owners, NEW p \in Partners, NEW x \in Authorities, reset_account(a, p, x)
      PROVE  RecoveryInv'
  BY <1>3, OwnerInv DEF reset_account
<1>4. CASE apply_recovery_block
  <2>1. head_time \in Nat /\ MaxHeadTime \in Nat
    BY RecoveryAssumption DEF RecoveryInv, RecoveryTypeOK
  <2>2. PICK time \in head_time + 1 .. MaxHeadTime :
          head_time' = time /\ account_recovery_processing(time)
    BY <1>4 DEF apply_recovery_block
  <2>3. time \in Nat /\ head_time < time
    BY <2>1
  <2> QED
    BY <2>2, <2>3, RecoveryBlockInv
<1>5. CASE UNCHANGED recovery_vars
  BY <1>5 DEF recovery_vars, RecoveryInv, RecoveryTypeOK, HistoryIsRecent, RequestSound, ChangeSound
<1> QED
  BY <1>1, <1>2, <1>3, <1>4, <1>5, RecoverInv, RequestInv, ChangeInv, SetResetInv DEF RecoveryNext

LEMMA AlwaysRecoveryInv == RecoverySpec => []RecoveryInv
BY RecoveryInitially, RecoveryKept, PTL DEF RecoverySpec

\* The objects of the recovery stay well typed.
THEOREM AlwaysRecoveryTypeOK == RecoverySpec => []RecoveryTypeOK
<1>1. RecoveryInv => RecoveryTypeOK
  BY DEF RecoveryInv
<1> QED
  BY <1>1, AlwaysRecoveryInv, PTL

\* The history that recover_account searches holds exactly the authorities replaced
\* within the recovery period, however many accounts share it and however long
\* the time between two blocks is.
THEOREM AlwaysHistoryIsRecent == RecoverySpec => []HistoryIsRecent
<1>1. RecoveryInv => HistoryIsRecent
  BY DEF RecoveryInv
<1> QED
  BY <1>1, AlwaysRecoveryInv, PTL

\* A recovery request outlives the office of who made it by less than a request
\* period.
THEOREM AlwaysEndorserIsRecent == RecoverySpec => []EndorserIsRecent
<1>1. ASSUME RecoveryInv PROVE EndorserIsRecent
  <2> SUFFICES ASSUME NEW a \in Owners, request[a].exists,
                      account[a].recovery_account # request[a].by,
                      account[a].recovery_account # NoPartner
               PROVE  head_time - since[a] < RequestPeriod
    BY DEF EndorserIsRecent
  <2>1. request[a] \in Request \cup {NoRequest} /\ head_time \in Nat /\ since[a] \in Nat
    BY <1>1 DEF RecoveryInv, RecoveryTypeOK
  <2>2. request[a] # NoRequest
    BY DEF NoRequest
  <2>3. request[a].expires \in Nat
    BY <2>1, <2>2, Zenon DEF Request
  <2>4. head_time < request[a].expires /\ request[a].expires <= since[a] + RequestPeriod
    BY <1>1 DEF RecoveryInv, RequestSound
  <2> QED
    BY <2>1, <2>3, <2>4, RecoveryAssumption
<1> QED
  BY <1>1, AlwaysRecoveryInv, PTL

\* As long as a change of the recovery account is pending, every owner authority that
\* was replaced since it was asked for is still accepted by recover_account.
THEOREM AlwaysOwnerCanReturn == RecoverySpec => []OwnerCanReturn
<1>1. ASSUME RecoveryInv PROVE OwnerCanReturn
  <2> SUFFICES ASSUME NEW a \in Owners, change[a].exists, NEW h \in replaced,
                      h.account = a, h.last_valid_time >= change[a].asked
               PROVE  WasOwner(a, h.previous_owner_authority)
    BY DEF OwnerCanReturn
  <2>1. change[a] \in Change \cup {NoRequest} /\ head_time \in Nat /\ h.last_valid_time \in Nat
    BY <1>1 DEF RecoveryInv, RecoveryTypeOK, HistoryObject
  <2>2. change[a] # NoRequest
    BY DEF NoRequest
  <2>3. change[a].asked \in Nat
    BY <2>1, <2>2, Zenon DEF Change
  <2>4. head_time < change[a].asked + RecoveryPeriod
    BY <1>1 DEF RecoveryInv, ChangeSound
  <2>5. h.last_valid_time + RecoveryPeriod >= head_time
    BY <2>1, <2>3, <2>4, RecoveryAssumption
  <2>6. PICK i \in 1 .. Len(history) : history[i] = h
    BY <1>1, <2>5 DEF RecoveryInv, HistoryIsRecent
  <2> QED
    BY <2>6 DEF WasOwner
<1> QED
  BY <1>1, AlwaysRecoveryInv, PTL

\* A recovery account takes office a whole recovery period after the last time the
\* account asked for it, and in no other way.
THEOREM AlwaysChangeIsDelayed == RecoverySpec => ChangeIsDelayed
<1>1. ASSUME RecoveryInv, [RecoveryNext]_recovery_vars
      PROVE  [\A a \in Owners : Delayed(a)]_recovery_vars
  <2> SUFFICES ASSUME RecoveryNext PROVE \A a \in Owners : Delayed(a)
    BY <1>1
  <2>1. RecoveryTypeOK /\ account \in [Owners -> AccountObject] /\ head_time \in Nat
    BY <1>1 DEF RecoveryInv, RecoveryTypeOK
  <2>2. (\A a \in Owners : account'[a].recovery_account = account[a].recovery_account)
          => \A a \in Owners : Delayed(a)
    BY DEF Delayed
  <2>3. ASSUME NEW b \in Owners, NEW x \in Authorities \cup {Deleted},
               update_owner_authority(b, account[b], x), head_time' = head_time
        PROVE  \A a \in Owners : account'[a].recovery_account = account[a].recovery_account
    BY <1>1, <2>1, <2>3, UpdateInv
  <2>4. ASSUME NEW b \in Owners, account_delete(b) PROVE \A a \in Owners : Delayed(a)
    BY <2>2, <2>3, <2>4 DEF account_delete, account_update
  <2>5. ASSUME NEW b \in Owners, NEW x \in Authorities, account_update(b, x)
        PROVE  \A a \in Owners : Delayed(a)
    BY <2>2, <2>3, <2>5 DEF account_update
  <2>6. ASSUME NEW b \in Owners, NEW p \in Partners, NEW x \in Authorities, reset_account(b, p, x)
        PROVE  \A a \in Owners : Delayed(a)
    BY <2>2, <2>3, <2>6 DEF reset_account
  <2>7. ASSUME NEW b \in Owners, NEW x \in Authorities, recover_account(b, x)
        PROVE  \A a \in Owners : Delayed(a)
    <3> DEFINE acc == [account[b] EXCEPT !.last_account_recovery = head_time]
               y == request[b].new_owner_authority
    <3>1. account' = [account EXCEPT ![b] =
                        [acc EXCEPT !.owner = y, !.last_owner_update = head_time]]
      BY <2>7 DEF recover_account, update_owner_authority
    <3>2. [acc EXCEPT !.owner = y, !.last_owner_update = head_time].recovery_account
            = account[b].recovery_account
      BY <2>1 DEF AccountObject
    <3>3. \A a \in Owners : account'[a].recovery_account = account[a].recovery_account
      BY <2>1, <3>1, <3>2
    <3> QED
      BY <2>2, <3>3
  <2>8. ASSUME NEW b \in Owners, NEW p \in Partners, NEW x \in Authorities \cup {Impossible},
               \/ request_account_recovery(b, p, x) \/ cancel_account_recovery(b, p)
               \/ change_recovery_account(b, p)
        PROVE  \A a \in Owners : Delayed(a)
    BY <2>2, <2>8 DEF request_account_recovery, cancel_account_recovery, change_recovery_account
  <2>9. ASSUME NEW b \in Owners, NEW p \in Partners, set_reset_account(b, p)
        PROVE  \A a \in Owners : Delayed(a)
    <3>1. account' = [account EXCEPT ![b] = [account[b] EXCEPT !.reset_account = p]]
      BY <2>9 DEF set_reset_account
    <3>2. [account[b] EXCEPT !.reset_account = p].recovery_account = account[b].recovery_account
      BY <2>1 DEF AccountObject
    <3>3. \A a \in Owners : account'[a].recovery_account = account[a].recovery_account
      BY <2>1, <3>1, <3>2
    <3> QED
      BY <2>2, <3>3
  <2>10. CASE apply_recovery_block
    <3>1. PICK time \in head_time + 1 .. MaxHeadTime :
            head_time' = time /\ account_recovery_processing(time)
      BY <2>10 DEF apply_recovery_block
    <3>2. time \in Nat
      BY <2>1, RecoveryAssumption
    <3>3. ASSUME NEW a \in Owners,
                 account'[a].recovery_account # account[a].recovery_account
          PROVE  /\ change[a].exists
                 /\ change[a].recovery_account = account'[a].recovery_account
                 /\ head_time' - change[a].asked >= RecoveryPeriod
      <4>1. account'[a] =
              IF a \in Effective(time)
              THEN [account[a] EXCEPT !.recovery_account = change[a].recovery_account]
              ELSE account[a]
        BY <3>1 DEF account_recovery_processing
      <4>2. a \in Effective(time)
        BY <3>3, <4>1
      <4>3. change[a].exists /\ change[a].effective_on <= time
        BY <4>2 DEF Effective
      <4>4. account[a] \in AccountObject
        BY <2>1
      <4>5. account'[a].recovery_account = change[a].recovery_account
        BY <4>1, <4>2, <4>4 DEF AccountObject
      <4>6. change[a] \in Change \cup {NoRequest} /\ change[a] # NoRequest
        BY <2>1, <4>3 DEF RecoveryTypeOK, NoRequest
      <4>7. change[a].asked \in Nat
        BY <4>6, Zenon DEF Change
      <4>8. change[a].effective_on = change[a].asked + RecoveryPeriod
        BY <1>1, <4>3 DEF RecoveryInv, ChangeSound
      <4> QED
        BY <3>1, <3>2, <4>3, <4>5, <4>7, <4>8, RecoveryAssumption
    <3> QED
      BY <3>3 DEF Delayed
  <2> QED
    BY <2>4, <2>5, <2>6, <2>7, <2>8, <2>9, <2>10 DEF RecoveryNext
<1> QED
  BY <1>1, AlwaysRecoveryInv, PTL DEF RecoverySpec, ChangeIsDelayed

-----------------------------------------------------------------------------
\* Escrows.

\* No escrow, or one that is approved or still has time.
InTime(e, t) == e.exists => is_approved(e) \/ t < e.ratification_deadline

\* The inductive invariant.
Inv ==
  /\ escrow \in [Keys -> Escrows \cup {None}]
  /\ now \in Nat
  /\ paid \in [Keys -> Payments]
  /\ \A k \in Keys : Balanced(escrow[k], paid[k]) /\ InTime(escrow[k], now)

LEMMA InitInv == Init => Inv
<1> SUFFICES ASSUME Init PROVE Inv
  OBVIOUS
<1>1. escrow = [k \in Keys |-> None] /\ paid = [k \in Keys |-> NothingPaid(0, 0)] /\ now = 0
  BY DEF Init
<1>2. NothingPaid(0, 0) \in Payments /\ Balanced(None, NothingPaid(0, 0)) /\ InTime(None, 0)
  BY DEF NothingPaid, Payments, Balanced, None, InTime
<1> QED
  BY <1>1, <1>2 DEF Inv

\* An operation replaces one escrow and what was paid for it.
LEMMA OneEscrow ==
  ASSUME Inv, NEW k \in Keys, NEW e \in Escrows \cup {None}, NEW p \in Payments,
         Balanced(e, p), InTime(e, now),
         escrow' = [escrow EXCEPT ![k] = e], paid' = [paid EXCEPT ![k] = p], now' = now
  PROVE  Inv'
<1>1. /\ escrow' \in [Keys -> Escrows \cup {None}] /\ paid' \in [Keys -> Payments]
      /\ now' \in Nat
  BY DEF Inv
<1>2. ASSUME NEW j \in Keys
      PROVE  Balanced(escrow'[j], paid'[j]) /\ InTime(escrow'[j], now')
  <2>1. CASE j = k
    BY <2>1 DEF Inv
  <2>2. CASE j # k
    <3>1. escrow'[j] = escrow[j] /\ paid'[j] = paid[j]
      BY <2>2 DEF Inv
    <3> QED
      BY <3>1 DEF Inv
  <2> QED
    BY <2>1, <2>2
<1> QED
  BY <1>1, <1>2 DEF Inv

\* What the invariant says of an escrow that exists.
LEMMA Existing ==
  ASSUME Inv, NEW k \in Keys, escrow[k].exists
  PROVE  /\ escrow[k] \in Escrows /\ paid[k] \in Payments
         /\ Balanced(escrow[k], paid[k]) /\ InTime(escrow[k], now)
<1>1. escrow[k] # None
  BY DEF None
<1> QED
  BY <1>1 DEF Inv

LEMMA TransferInv ==
  ASSUME Inv, NEW k \in Keys, NEW o \in Terms, escrow_transfer(k, o)
  PROVE  Inv'
<1> DEFINE e == [exists |-> TRUE, to |-> o.to, agent |-> o.agent,
                 ratification_deadline |-> o.ratification_deadline,
                 escrow_expiration |-> o.escrow_expiration,
                 sophiatx_balance |-> o.sophiatx_amount, pending_fee |-> o.escrow_fee,
                 to_approved |-> FALSE, agent_approved |-> FALSE, disputed |-> FALSE]
           p == NothingPaid(o.sophiatx_amount, o.escrow_fee)
<1>1. /\ o.to \in Accounts /\ o.agent \in Accounts
      /\ o.sophiatx_amount \in Nat /\ o.escrow_fee \in Nat
      /\ o.ratification_deadline \in Nat /\ o.escrow_expiration \in Nat
  BY EscrowAssumption
<1>2. e \in Escrows /\ p \in Payments
  BY <1>1 DEF Escrows, Payments, NothingPaid
<1>3. Balanced(e, p)
  BY <1>1 DEF Balanced, NothingPaid, is_approved
<1>4. InTime(e, now)
  BY DEF InTime, escrow_transfer
<1>5. /\ escrow' = [escrow EXCEPT ![k] = e] /\ paid' = [paid EXCEPT ![k] = p]
      /\ now' = now
  BY DEF escrow_transfer
<1> HIDE DEF e, p
<1> QED
  BY <1>2, <1>3, <1>4, <1>5, OneEscrow, Zenon

LEMMA ApproveInv ==
  ASSUME Inv, NEW k \in Keys, NEW who \in Accounts, escrow_approve(k, who)
  PROVE  Inv'
<1> DEFINE e == Approved(escrow[k], who)
<1>1. escrow[k].exists /\ ~ is_approved(escrow[k]) /\ escrow[k].ratification_deadline >= now
  BY DEF escrow_approve, MayRatify, is_approved
<1>2. /\ escrow[k] \in Escrows /\ paid[k] \in Payments
      /\ Balanced(escrow[k], paid[k]) /\ InTime(escrow[k], now)
  BY <1>1, Existing
<1>3. /\ e \in Escrows /\ e.exists
      /\ e.sophiatx_balance = escrow[k].sophiatx_balance
      /\ e.pending_fee = escrow[k].pending_fee
      /\ e.disputed = escrow[k].disputed
      /\ e.ratification_deadline = escrow[k].ratification_deadline
  BY <1>2, Zenon DEF Escrows, Approved
<1> HIDE DEF e
<1>4. CASE is_approved(e)
  <2> DEFINE f == [e EXCEPT !.pending_fee = 0]
             p == [paid[k] EXCEPT !.agent_fee = @ + e.pending_fee]
  <2>0. paid[k].agent_fee + e.pending_fee \in Nat
    BY <1>2, <1>3 DEF Escrows, Payments
  <2>1. f \in Escrows /\ p \in Payments
    <3>1. f \in Escrows
      BY <1>3, Zenon DEF Escrows
    <3>2. ASSUME NEW x \in Nat
          PROVE  [paid[k] EXCEPT !.agent_fee = x] \in Payments
      BY <1>2 DEF Payments
    <3> QED
      BY <2>0, <3>1, <3>2
  <2>2. Balanced(f, p)
    BY <1>1, <1>2, <1>3, <1>4 DEF Escrows, Payments, Balanced, is_approved
  <2>3. InTime(f, now)
    BY <1>3, <1>4 DEF InTime, Escrows, is_approved
  <2>4. /\ escrow' = [escrow EXCEPT ![k] = f] /\ now' = now
        /\ paid' = [paid EXCEPT ![k] = p]
    BY <1>4 DEF escrow_approve, e
  <2> HIDE DEF f, p
  <2> QED
    BY <2>1, <2>2, <2>3, <2>4, OneEscrow, Zenon
<1>5. CASE ~ is_approved(e)
  <2>1. Balanced(e, paid[k])
    BY <1>1, <1>2, <1>3, <1>5 DEF Balanced
  <2>2. InTime(e, now)
    BY <1>1, <1>2, <1>3 DEF InTime
  <2>3. /\ escrow' = [escrow EXCEPT ![k] = e] /\ now' = now
        /\ paid' = [paid EXCEPT ![k] = paid[k]]
    BY <1>5 DEF escrow_approve, e, Inv
  <2> QED
    BY <1>2, <1>3, <2>1, <2>2, <2>3, OneEscrow, ZenonT(30)
<1> QED
  BY <1>4, <1>5

\* The sender gets everything back: escrow_reject and expire_escrow_ratification.
LEMMA Refund ==
  ASSUME Inv, NEW k \in Keys, escrow[k].exists, ~ is_approved(escrow[k])
  PROVE  LET p == [paid[k] EXCEPT !.refunded = @ + Held(k)]
         IN p \in Payments /\ Balanced(None, p)
<1> DEFINE p == [paid[k] EXCEPT !.refunded = @ + Held(k)]
<1>1. /\ escrow[k] \in Escrows /\ paid[k] \in Payments /\ Balanced(escrow[k], paid[k])
  BY Existing
<1>2. /\ Held(k) \in Nat /\ paid[k].refunded = 0 /\ paid[k].released = 0
      /\ paid[k].agent_fee = 0 /\ Held(k) = paid[k].amount + paid[k].fee
  <2>1. escrow[k].sophiatx_balance \in Nat /\ escrow[k].pending_fee \in Nat
    BY <1>1, Zenon DEF Escrows
  <2>2. paid[k].amount \in Nat /\ paid[k].fee \in Nat
    BY <1>1 DEF Payments
  <2>3. /\ paid[k].refunded = 0 /\ paid[k].released = 0 /\ paid[k].agent_fee = 0
        /\ paid[k].released + escrow[k].sophiatx_balance = paid[k].amount
        /\ paid[k].agent_fee + escrow[k].pending_fee = paid[k].fee
    BY <1>1 DEF Balanced
  <2> QED
    BY <2>1, <2>2, <2>3 DEF Held
<1>3. paid[k].refunded + Held(k) \in Nat
  BY <1>2
<1> HIDE DEF Held
<1>4. p \in Payments
  <2>1. ASSUME NEW x \in Nat
        PROVE  [paid[k] EXCEPT !.refunded = x] \in Payments
    BY <1>1 DEF Payments
  <2> QED
    BY <1>3, <2>1
<1>5. /\ p.refunded = paid[k].amount + paid[k].fee /\ p.released = 0 /\ p.agent_fee = 0
      /\ p.amount = paid[k].amount /\ p.fee = paid[k].fee
  BY <1>1, <1>2 DEF Payments
<1>6. Balanced(None, p)
  BY <1>5 DEF Balanced, None
<1> QED
  BY <1>4, <1>6

LEMMA RejectInv ==
  ASSUME Inv, NEW k \in Keys, NEW who \in Accounts, escrow_reject(k, who)
  PROVE  Inv'
<1> DEFINE p == [paid[k] EXCEPT !.refunded = @ + Held(k)]
<1>1. escrow[k].exists /\ ~ is_approved(escrow[k])
  BY DEF escrow_reject, MayRatify, is_approved
<1>2. p \in Payments /\ Balanced(None, p)
  BY <1>1, Refund
<1>3. InTime(None, now)
  BY DEF InTime, None
<1>4. /\ escrow' = [escrow EXCEPT ![k] = None] /\ paid' = [paid EXCEPT ![k] = p]
      /\ now' = now
  BY DEF escrow_reject
<1> HIDE DEF p
<1> QED
  BY <1>2, <1>3, <1>4, OneEscrow, Zenon

LEMMA DisputeInv ==
  ASSUME Inv, NEW k \in Keys, escrow_dispute(k)
  PROVE  Inv'
<1> DEFINE e == [escrow[k] EXCEPT !.disputed = TRUE]
<1>1. escrow[k].exists /\ is_approved(escrow[k])
  BY DEF escrow_dispute
<1>2. /\ escrow[k] \in Escrows /\ paid[k] \in Payments
      /\ Balanced(escrow[k], paid[k]) /\ InTime(escrow[k], now)
  BY <1>1, Existing
<1>3. /\ e \in Escrows /\ e.exists /\ is_approved(e)
      /\ e.sophiatx_balance = escrow[k].sophiatx_balance
      /\ e.pending_fee = escrow[k].pending_fee
  BY <1>1, <1>2, Zenon DEF Escrows, is_approved
<1>4. /\ escrow' = [escrow EXCEPT ![k] = e] /\ paid' = [paid EXCEPT ![k] = paid[k]]
      /\ now' = now
  BY DEF escrow_dispute, Inv
<1> HIDE DEF e
<1>5. Balanced(e, paid[k]) /\ InTime(e, now)
  BY <1>1, <1>2, <1>3 DEF Balanced, InTime
<1> QED
  BY <1>2, <1>3, <1>4, <1>5, OneEscrow, Zenon

LEMMA ReleaseInv ==
  ASSUME Inv, NEW k \in Keys, NEW who \in Accounts, NEW receiver \in Accounts,
         NEW amount \in Amounts, escrow_release(k, who, receiver, amount)
  PROVE  Inv'
<1> DEFINE e == IF escrow[k].sophiatx_balance = amount THEN None
                ELSE [escrow[k] EXCEPT !.sophiatx_balance = @ - amount]
           p == [paid[k] EXCEPT !.released = @ + amount]
<1>1. /\ escrow[k].exists /\ is_approved(escrow[k])
      /\ escrow[k].sophiatx_balance >= amount /\ amount \in Nat
  BY EscrowAssumption DEF escrow_release
<1>2. /\ escrow[k] \in Escrows /\ paid[k] \in Payments
      /\ Balanced(escrow[k], paid[k]) /\ InTime(escrow[k], now)
  BY <1>1, Existing
<1>3. /\ paid[k].released + amount \in Nat /\ escrow[k].sophiatx_balance - amount \in Nat
      /\ escrow[k].sophiatx_balance \in Nat /\ escrow[k].pending_fee = 0
      /\ paid[k].released \in Nat /\ paid[k].agent_fee \in Nat
      /\ paid[k].refunded = 0 /\ paid[k].agent_fee = paid[k].fee
      /\ paid[k].released + escrow[k].sophiatx_balance = paid[k].amount
  <2>1. escrow[k].sophiatx_balance \in Nat /\ escrow[k].pending_fee \in Nat
    BY <1>2, Zenon DEF Escrows
  <2>2. /\ paid[k].released \in Nat /\ paid[k].agent_fee \in Nat /\ paid[k].fee \in Nat
        /\ paid[k].amount \in Nat
    BY <1>2 DEF Payments
  <2>3. /\ paid[k].refunded = 0 /\ escrow[k].pending_fee = 0
        /\ paid[k].released + escrow[k].sophiatx_balance = paid[k].amount
        /\ paid[k].agent_fee + escrow[k].pending_fee = paid[k].fee
    BY <1>1, <1>2 DEF Balanced
  <2> QED
    BY <1>1, <2>1, <2>2, <2>3
<1>4. /\ p \in Payments /\ p.released = paid[k].released + amount
      /\ p.refunded = 0 /\ p.agent_fee = p.fee /\ p.amount = paid[k].amount
  <2>1. ASSUME NEW x \in Nat
        PROVE  LET q == [paid[k] EXCEPT !.released = x]
               IN q \in Payments /\ q.released = x /\ q.refunded = paid[k].refunded
                  /\ q.agent_fee = paid[k].agent_fee /\ q.fee = paid[k].fee
                  /\ q.amount = paid[k].amount
    BY <1>2 DEF Payments
  <2> QED
    BY <1>3, <2>1
<1>5. /\ escrow' = [escrow EXCEPT ![k] = e] /\ paid' = [paid EXCEPT ![k] = p]
      /\ now' = now
  BY DEF escrow_release
<1> HIDE DEF p
<1>6. CASE escrow[k].sophiatx_balance = amount
  <2>1. e = None
    BY <1>6
  <2>2. Balanced(None, p) /\ InTime(None, now)
    BY <1>3, <1>4, <1>6 DEF Balanced, InTime, None
  <2> QED
    BY <1>4, <1>5, <2>1, <2>2, OneEscrow, Zenon
<1>7. CASE escrow[k].sophiatx_balance # amount
  <2>1. e = [escrow[k] EXCEPT !.sophiatx_balance = @ - amount]
    BY <1>7
  <2>2. ASSUME NEW x \in Nat
        PROVE  LET f == [escrow[k] EXCEPT !.sophiatx_balance = x]
               IN f \in Escrows /\ f.exists /\ is_approved(f) /\ f.sophiatx_balance = x
                  /\ f.pending_fee = escrow[k].pending_fee
    BY <1>1, <1>2, Zenon DEF Escrows, is_approved
  <2>3. /\ e \in Escrows /\ e.exists /\ is_approved(e) /\ e.pending_fee = 0
        /\ e.sophiatx_balance = escrow[k].sophiatx_balance - amount
    BY <1>3, <2>1, <2>2, Zenon
  <2> HIDE DEF e
  <2>4. Balanced(e, p) /\ InTime(e, now)
    BY <1>1, <1>3, <1>4, <2>3, EscrowAssumption DEF Balanced, InTime, Payments
  <2> QED
    BY <1>4, <1>5, <2>3, <2>4, OneEscrow, Zenon
<1> QED
  BY <1>6, <1>7

LEMMA BlockInv ==
  ASSUME Inv, apply_block
  PROVE  Inv'
<1> DEFINE old == Expired(now + 1)
<1>1. /\ now' = now + 1 /\ now \in Nat
      /\ escrow' = [k \in Keys |-> IF k \in old THEN None ELSE escrow[k]]
      /\ paid' = [k \in Keys |->
           IF k \in old THEN [paid[k] EXCEPT !.refunded = @ + Held(k)] ELSE paid[k]]
  BY DEF apply_block, expire_escrow_ratification, Inv
<1>2. ASSUME NEW k \in Keys
      PROVE  /\ escrow'[k] \in Escrows \cup {None} /\ paid'[k] \in Payments
             /\ Balanced(escrow'[k], paid'[k]) /\ InTime(escrow'[k], now')
  <2>1. CASE k \in old
    <3>1. escrow[k].exists /\ ~ is_approved(escrow[k])
      BY <2>1 DEF Expired
    <3>2. escrow'[k] = None /\ paid'[k] = [paid[k] EXCEPT !.refunded = @ + Held(k)]
      BY <1>1, <2>1
    <3>3. paid'[k] \in Payments /\ Balanced(escrow'[k], paid'[k])
      BY <3>1, <3>2, Refund
    <3> QED
      BY <3>2, <3>3 DEF InTime, None
  <2>2. CASE k \notin old
    <3>1. escrow'[k] = escrow[k] /\ paid'[k] = paid[k]
      BY <1>1, <2>2
    <3>2. escrow[k] \in Escrows \cup {None} /\ paid[k] \in Payments
          /\ Balanced(escrow[k], paid[k])
      BY DEF Inv
    <3>3. InTime(escrow[k], now + 1)
      <4> SUFFICES ASSUME escrow[k].exists, ~ is_approved(escrow[k])
                   PROVE  now + 1 < escrow[k].ratification_deadline
        BY DEF InTime
      <4>1. ~ (escrow[k].ratification_deadline <= now + 1)
        BY <2>2 DEF Expired
      <4>2. escrow[k] \in Escrows
        BY Existing
      <4>3. escrow[k].ratification_deadline \in Nat
        BY <4>2, Zenon DEF Escrows
      <4> QED
        BY <1>1, <4>1, <4>3
    <3> QED
      BY <1>1, <3>1, <3>2, <3>3
  <2> QED
    BY <2>1, <2>2
<1>3. /\ escrow' \in [Keys -> Escrows \cup {None}] /\ paid' \in [Keys -> Payments]
  BY <1>1, <1>2, Zenon
<1>4. now' \in Nat
  BY <1>1
<1> QED
  BY <1>2, <1>3, <1>4 DEF Inv

LEMMA NextInv == Inv /\ [Next]_vars => Inv'
<1> SUFFICES ASSUME Inv, [Next]_vars PROVE Inv'
  OBVIOUS
<1>1. CASE \E k \in Keys, o \in Terms : escrow_transfer(k, o)
  BY <1>1, TransferInv
<1>2. CASE \E k \in Keys, who \in Accounts : escrow_approve(k, who) \/ escrow_reject(k, who)
  BY <1>2, ApproveInv, RejectInv
<1>3. CASE \E k \in Keys : escrow_dispute(k)
  BY <1>3, DisputeInv
<1>4. CASE \E k \in Keys, who \in Accounts, receiver \in Accounts, amount \in Amounts :
             escrow_release(k, who, receiver, amount)
  BY <1>4, ReleaseInv
<1>5. CASE apply_block
  BY <1>5, BlockInv
<1>6. CASE UNCHANGED vars
  BY <1>6 DEF vars, Inv, InTime, Balanced, is_approved
<1> QED
  BY <1>1, <1>2, <1>3, <1>4, <1>5, <1>6 DEF Next

\* The inductive invariant holds always.
LEMMA Invariance == Spec => []Inv
BY InitInv, NextInv, PTL DEF Spec

\* An escrow is either refunded to its sender in full, or its amount goes to the
\* parties and its fee to the agent, whatever the evaluators are called with.
THEOREM AlwaysAllOrNothing == Spec => []AllOrNothing
<1>1. Inv => AllOrNothing
  BY DEF Inv, AllOrNothing
<1> QED
  BY <1>1, Invariance, PTL

\* expire_escrow_ratification leaves no escrow beyond its deadline that is not
\* approved by both.
THEOREM AlwaysRatifiedInTime == Spec => []RatifiedInTime
<1>1. Inv => RatifiedInTime
  BY DEF Inv, RatifiedInTime, InTime
<1> QED
  BY <1>1, Invariance, PTL

\* An operation on one escrow keeps all the others.
LEMMA OthersKept ==
  ASSUME Inv, NEW k \in Keys, NEW e, NEW p,
         escrow' = [escrow EXCEPT ![k] = e], paid' = [paid EXCEPT ![k] = p]
  PROVE  /\ \A j \in Keys \ {k} : Kept(j)
         /\ escrow'[k] = e /\ paid'[k] = p
BY DEF Inv, Kept, is_approved

\* Nobody takes back an approval or a dispute, and an approved escrow is never
\* returned to its sender.
THEOREM AlwaysApprovalIsFinal == Spec => ApprovalIsFinal
<1>1. ASSUME Inv, [Next]_vars
      PROVE  [\A k \in Keys : Kept(k)]_vars
  <2> SUFFICES ASSUME Next PROVE \A k \in Keys : Kept(k)
    BY <1>1
  <2> USE <1>1
  <2>1. ASSUME NEW k \in Keys, NEW o \in Terms, escrow_transfer(k, o)
        PROVE  \A j \in Keys : Kept(j)
    <3>1. ~ escrow[k].exists
      BY <2>1 DEF escrow_transfer
    <3>2. Kept(k)
      BY <3>1 DEF Kept
    <3>3. \A j \in Keys \ {k} : Kept(j)
      BY <2>1, OthersKept, Zenon DEF escrow_transfer
    <3> QED
      BY <3>2, <3>3
  <2>2. ASSUME NEW k \in Keys, NEW who \in Accounts, escrow_approve(k, who)
        PROVE  \A j \in Keys : Kept(j)
    <3> DEFINE e == Approved(escrow[k], who)
    <3>1. escrow[k].exists /\ ~ is_approved(escrow[k])
      BY <2>2 DEF escrow_approve, MayRatify, is_approved
    <3>2. escrow[k] \in Escrows
      BY <3>1, Existing
    <3>3. ASSUME NEW f, NEW p, f = e \/ f = [e EXCEPT !.pending_fee = 0],
                 escrow' = [escrow EXCEPT ![k] = f], paid' = [paid EXCEPT ![k] = p]
          PROVE  \A j \in Keys : Kept(j)
      <4>1. (\A j \in Keys \ {k} : Kept(j)) /\ escrow'[k] = f
        BY <3>3, OthersKept, Zenon
      <4>2. /\ escrow[k].to_approved => f.to_approved
            /\ escrow[k].agent_approved => f.agent_approved
            /\ escrow[k].disputed => f.disputed
        BY <3>2, <3>3, ZenonT(30) DEF Escrows, Approved
      <4>3. Kept(k)
        BY <3>1, <4>1, <4>2 DEF Kept
      <4> QED
        BY <4>1, <4>3
    <3>4. CASE is_approved(e)
      <4>1. /\ paid' = [paid EXCEPT ![k] = [paid[k] EXCEPT !.agent_fee = @ + e.pending_fee]]
            /\ escrow' = [escrow EXCEPT ![k] = [e EXCEPT !.pending_fee = 0]]
        BY <2>2, <3>4 DEF escrow_approve
      <4> HIDE DEF e
      <4> QED
        BY <3>3, <4>1, Zenon
    <3>5. CASE ~ is_approved(e)
      <4>1. paid' = [paid EXCEPT ![k] = paid[k]] /\ escrow' = [escrow EXCEPT ![k] = e]
        BY <2>2, <3>5 DEF escrow_approve, Inv
      <4> HIDE DEF e
      <4> QED
        BY <3>3, <4>1, Zenon
    <3> QED
      BY <3>4, <3>5
  <2>3. ASSUME NEW k \in Keys, NEW who \in Accounts, escrow_reject(k, who)
        PROVE  \A j \in Keys : Kept(j)
    <3>1. ~ is_approved(escrow[k])
      BY <2>3 DEF escrow_reject, MayRatify, is_approved
    <3>2. escrow' = [escrow EXCEPT ![k] = None]
          /\ paid' = [paid EXCEPT ![k] = [paid[k] EXCEPT !.refunded = @ + Held(k)]]
      BY <2>3 DEF escrow_reject
    <3>3. /\ \A j \in Keys \ {k} : Kept(j)
          /\ escrow'[k] = None
      BY <3>2, OthersKept, Zenon
    <3>4. Kept(k)
      BY <3>1, <3>3 DEF Kept, None
    <3> QED
      BY <3>3, <3>4
  <2>4. ASSUME NEW k \in Keys, escrow_dispute(k)
        PROVE  \A j \in Keys : Kept(j)
    <3>1. escrow[k].exists /\ paid' = paid
          /\ escrow' = [escrow EXCEPT ![k] = [escrow[k] EXCEPT !.disputed = TRUE]]
      BY <2>4 DEF escrow_dispute
    <3>2. escrow[k] \in Escrows
      BY <3>1, Existing
    <3>3. paid' = [paid EXCEPT ![k] = paid[k]]
      BY <3>1 DEF Inv
    <3>4. /\ \A j \in Keys \ {k} : Kept(j)
          /\ escrow'[k] = [escrow[k] EXCEPT !.disputed = TRUE] /\ paid'[k] = paid[k]
      BY <3>1, <3>3, OthersKept, Zenon
    <3>5. Kept(k)
      BY <3>2, <3>4 DEF Kept, Escrows
    <3> QED
      BY <3>4, <3>5
  <2>5. ASSUME NEW k \in Keys, NEW who \in Accounts, NEW receiver \in Accounts,
               NEW amount \in Amounts, escrow_release(k, who, receiver, amount)
        PROVE  \A j \in Keys : Kept(j)
    <3> DEFINE f == IF escrow[k].sophiatx_balance = amount THEN None
                    ELSE [escrow[k] EXCEPT !.sophiatx_balance = @ - amount]
    <3>1. escrow' = [escrow EXCEPT ![k] = f]
      BY <2>5 DEF escrow_release
    <3>2. escrow[k].exists
          /\ paid' = [paid EXCEPT ![k] = [paid[k] EXCEPT !.released = @ + amount]]
      BY <2>5 DEF escrow_release
    <3>3. escrow[k] \in Escrows /\ paid[k] \in Payments
      BY <3>2, Existing
    <3>4. /\ \A j \in Keys \ {k} : Kept(j) /\ escrow'[k] = f
          /\ paid'[k] = [paid[k] EXCEPT !.released = @ + amount]
      BY <3>1, <3>2, OthersKept, Zenon
    <3>5. paid'[k].refunded = paid[k].refunded
      BY <3>3, <3>4 DEF Payments
    <3>6. f.exists => /\ f.to_approved = escrow[k].to_approved
                      /\ f.agent_approved = escrow[k].agent_approved
                      /\ f.disputed = escrow[k].disputed
      <4>1. CASE f = None
        BY <4>1 DEF None
      <4>2. CASE f = [escrow[k] EXCEPT !.sophiatx_balance = @ - amount]
        BY <3>3, <4>2, Zenon DEF Escrows
      <4> QED
        BY <4>1, <4>2
    <3> HIDE DEF f
    <3>7. escrow'[k] = f
      BY <3>1, <3>2, OthersKept, Zenon
    <3>8. Kept(k)
      BY <3>5, <3>6, <3>7 DEF Kept
    <3> QED
      BY <3>4, <3>8
  <2>6. ASSUME apply_block, NEW k \in Keys
        PROVE  Kept(k)
    <3>1. escrow'[k] = (IF k \in Expired(now + 1) THEN None ELSE escrow[k])
          /\ (k \notin Expired(now + 1) => paid'[k] = paid[k])
      BY <2>6 DEF apply_block, expire_escrow_ratification
    <3>2. CASE k \in Expired(now + 1)
      <4>1. escrow'[k] = None /\ None.exists = FALSE
        BY <3>1, <3>2 DEF None
      <4>2. ~ is_approved(escrow[k])
        BY <3>2 DEF Expired
      <4> QED
        BY <4>1, <4>2 DEF Kept
    <3>3. CASE k \notin Expired(now + 1)
      BY <3>1, <3>3 DEF Kept
    <3> QED
      BY <3>2, <3>3
  <2> QED
    BY <2>1, <2>2, <2>3, <2>4, <2>5, <2>6 DEF Next
<1> QED
  BY <1>1, Invariance, PTL DEF Spec, ApprovalIsFinal

-----------------------------------------------------------------------------
\* What is held for an escrow, and for all of them.
HeldOf(e) == IF e.exists THEN e.sophiatx_balance + e.pending_fee ELSE 0

AllHeld == [k \in Keys |-> HeldOf(escrow[k])]

\* The inductive invariant of the coins.
Funds ==
  /\ balance \in [Accounts -> Nat]
  /\ SumFunctionOnSet(balance, Accounts) + SumFunctionOnSet(AllHeld, Keys)
       = SumFunctionOnSet(InitBalance, Accounts)

LEMMA HeldType ==
  ASSUME NEW e \in Escrows \cup {None}
  PROVE  HeldOf(e) \in Nat
<1>1. HeldOf(None) = 0
  BY DEF HeldOf, None
<1>2. CASE e \in Escrows
  BY <1>2 DEF HeldOf, Escrows
<1> QED
  BY <1>1, <1>2

\* An operation moves x coins from one escrow to one account.
Moved(a, k, x) ==
  /\ balance' \in [Accounts -> Nat]
  /\ balance'[a] = balance[a] + x
  /\ \A b \in Accounts \ {a} : balance'[b] = balance[b]
  /\ HeldOf(escrow'[k]) = HeldOf(escrow[k]) - x
  /\ \A j \in Keys \ {k} : escrow'[j] = escrow[j]

LEMMA OneMoved ==
  ASSUME Inv, Inv', Funds, NEW a \in Accounts, NEW k \in Keys, NEW x \in Int,
         Moved(a, k, x)
  PROVE  Funds'
<1>1. SumFunctionOnSet(balance', Accounts) = SumFunctionOnSet(balance, Accounts) + x
      /\ SumFunctionOnSet(balance, Accounts) \in Int
  <2>1. IsFiniteSet(Accounts)
    BY EscrowAssumption
  <2>2. \A b \in Accounts : balance[b] \in Int /\ balance'[b] \in Int
    BY DEF Funds, Moved
  <2>3. \A b \in Accounts \ {a} : balance[b] = balance'[b]
    BY DEF Moved
  <2>4. SumFunctionOnSet(balance', Accounts)
          = SumFunctionOnSet(balance, Accounts) + balance'[a] - balance[a]
    BY <2>1, <2>2, <2>3, SumChange
  <2>5. \A b \in Accounts : balance[b] \in Int
    BY <2>2
  <2>6. SumFunctionOnSet(balance, Accounts) \in Int
    BY <2>1, <2>5, SumType
  <2>7. balance'[a] = balance[a] + x
    BY DEF Moved
  <2> QED
    BY <2>4, <2>5, <2>6, <2>7
<1>2. SumFunctionOnSet(AllHeld', Keys) = SumFunctionOnSet(AllHeld, Keys) - x
      /\ SumFunctionOnSet(AllHeld, Keys) \in Int
  <2>1. IsFiniteSet(Keys)
    BY EscrowAssumption
  <2>2. \A j \in Keys : /\ AllHeld[j] \in Int /\ AllHeld[j] = HeldOf(escrow[j])
                        /\ AllHeld'[j] \in Int /\ AllHeld'[j] = HeldOf(escrow'[j])
    BY HeldType DEF Inv, AllHeld
  <2>3. AllHeld'[k] = AllHeld[k] - x /\ \A j \in Keys \ {k} : AllHeld[j] = AllHeld'[j]
    BY <2>2 DEF Moved
  <2>4. SumFunctionOnSet(AllHeld', Keys)
          = SumFunctionOnSet(AllHeld, Keys) + AllHeld'[k] - AllHeld[k]
    BY <2>1, <2>2, <2>3, SumChange
  <2>5. \A j \in Keys : AllHeld[j] \in Int
    BY <2>2
  <2>6. SumFunctionOnSet(AllHeld, Keys) \in Int
    BY <2>1, <2>5, SumType
  <2> QED
    BY <2>3, <2>4, <2>5, <2>6
<1>3. balance' \in [Accounts -> Nat]
  BY DEF Moved
<1> QED
  BY <1>1, <1>2, <1>3 DEF Funds

\* An operation may leave the coins where they are.
LEMMA NoneMoved ==
  ASSUME Inv, Inv', Funds, NEW k \in Keys, balance' = balance,
         HeldOf(escrow'[k]) = HeldOf(escrow[k]),
         \A j \in Keys \ {k} : escrow'[j] = escrow[j]
  PROVE  Funds'
<1>1. k[1] \in Accounts /\ HeldOf(escrow[k]) \in Int
  BY EscrowAssumption, HeldType DEF Inv
<1>2. Moved(k[1], k, 0)
  BY <1>1 DEF Moved, Funds
<1> QED
  BY <1>1, <1>2, OneMoved

LEMMA TransferFunds ==
  ASSUME Inv, Inv', Funds, NEW k \in Keys, NEW o \in Terms, escrow_transfer(k, o)
  PROVE  Funds'
<1> DEFINE e == [exists |-> TRUE, to |-> o.to, agent |-> o.agent,
                 ratification_deadline |-> o.ratification_deadline,
                 escrow_expiration |-> o.escrow_expiration,
                 sophiatx_balance |-> o.sophiatx_amount, pending_fee |-> o.escrow_fee,
                 to_approved |-> FALSE, agent_approved |-> FALSE, disputed |-> FALSE]
           spent == o.sophiatx_amount + o.escrow_fee
<1>1. k[1] \in Accounts /\ o.sophiatx_amount \in Nat /\ o.escrow_fee \in Nat
  BY EscrowAssumption
<1>2. /\ balance[k[1]] >= spent /\ ~ escrow[k].exists
      /\ balance' = [balance EXCEPT ![k[1]] = @ - spent]
      /\ escrow' = [escrow EXCEPT ![k] = e]
  BY DEF escrow_transfer
<1>3. HeldOf(e) = spent /\ HeldOf(escrow[k]) = 0
  BY <1>2 DEF HeldOf
<1>4. spent \in Nat /\ balance[k[1]] \in Nat
  BY <1>1 DEF Funds
<1> HIDE DEF e, spent
<1>5. Moved(k[1], k, - spent)
  <2>1. balance[k[1]] - spent \in Nat
    BY <1>2, <1>4
  <2>2. balance' \in [Accounts -> Nat] /\ balance'[k[1]] = balance[k[1]] + (- spent)
        /\ \A b \in Accounts \ {k[1]} : balance'[b] = balance[b]
    BY <1>1, <1>2, <1>4, <2>1 DEF Funds
  <2>3. escrow'[k] = e /\ \A j \in Keys \ {k} : escrow'[j] = escrow[j]
    BY <1>2 DEF Inv
  <2>4. HeldOf(escrow'[k]) = HeldOf(escrow[k]) - (- spent)
    BY <1>3, <1>4, <2>3
  <2> QED
    BY <2>2, <2>3, <2>4 DEF Moved
<1> QED
  BY <1>1, <1>4, <1>5, OneMoved

LEMMA ApproveFunds ==
  ASSUME Inv, Inv', Funds, NEW k \in Keys, NEW who \in Accounts, escrow_approve(k, who)
  PROVE  Funds'
<1> DEFINE e == Approved(escrow[k], who)
           f == [e EXCEPT !.pending_fee = 0]
<1>1. escrow[k].exists
  BY DEF escrow_approve, MayRatify
<1>2. escrow[k] \in Escrows
  BY <1>1, Existing
<1>3. /\ e \in Escrows /\ e.exists /\ e.agent \in Accounts
      /\ e.sophiatx_balance = escrow[k].sophiatx_balance
      /\ e.pending_fee = escrow[k].pending_fee
  BY <1>2, Zenon DEF Escrows, Approved
<1>4. e.sophiatx_balance \in Nat /\ e.pending_fee \in Nat
  BY <1>3 DEF Escrows
<1>5. HeldOf(escrow[k]) = e.sophiatx_balance + e.pending_fee /\ HeldOf(e) = HeldOf(escrow[k])
  BY <1>1, <1>3 DEF HeldOf
<1>6. HeldOf(f) = e.sophiatx_balance
  BY <1>3, <1>4 DEF HeldOf, Escrows
<1>7. CASE is_approved(e)
  <2>1. /\ balance' = [balance EXCEPT ![e.agent] = @ + e.pending_fee]
        /\ escrow' = [escrow EXCEPT ![k] = f]
    BY <1>7 DEF escrow_approve
  <2> HIDE DEF e, f
  <2>2. balance[e.agent] + e.pending_fee \in Nat
    BY <1>3, <1>4 DEF Funds
  <2>3. balance' \in [Accounts -> Nat] /\ balance'[e.agent] = balance[e.agent] + e.pending_fee
        /\ \A b \in Accounts \ {e.agent} : balance'[b] = balance[b]
    BY <1>3, <2>1, <2>2 DEF Funds
  <2>4. escrow'[k] = f /\ \A j \in Keys \ {k} : escrow'[j] = escrow[j]
    BY <2>1 DEF Inv
  <2>5. HeldOf(escrow'[k]) = HeldOf(escrow[k]) - e.pending_fee
    BY <1>4, <1>5, <1>6, <2>4
  <2>6. Moved(e.agent, k, e.pending_fee)
    BY <2>3, <2>4, <2>5 DEF Moved
  <2> QED
    BY <1>3, <1>4, <2>6, OneMoved
<1>8. CASE ~ is_approved(e)
  <2>1. balance' = balance /\ escrow' = [escrow EXCEPT ![k] = e]
    BY <1>8 DEF escrow_approve
  <2> HIDE DEF e
  <2>2. escrow'[k] = e /\ \A j \in Keys \ {k} : escrow'[j] = escrow[j]
    BY <2>1 DEF Inv
  <2> QED
    BY <1>5, <2>1, <2>2, NoneMoved
<1> QED
  BY <1>7, <1>8

LEMMA RejectFunds ==
  ASSUME Inv, Inv', Funds, NEW k \in Keys, NEW who \in Accounts, escrow_reject(k, who)
  PROVE  Funds'
<1>1. /\ escrow[k].exists
      /\ balance' = [balance EXCEPT ![k[1]] = @ + Held(k)]
      /\ escrow' = [escrow EXCEPT ![k] = None]
  BY DEF escrow_reject, MayRatify
<1>2. k[1] \in Accounts /\ Held(k) = HeldOf(escrow[k]) /\ Held(k) \in Nat
  BY <1>1, EscrowAssumption, HeldType DEF Inv, Held, HeldOf
<1>3. balance' \in [Accounts -> Nat] /\ balance'[k[1]] = balance[k[1]] + Held(k)
      /\ \A b \in Accounts \ {k[1]} : balance'[b] = balance[b]
  BY <1>1, <1>2 DEF Funds
<1>4. escrow'[k] = None /\ \A j \in Keys \ {k} : escrow'[j] = escrow[j]
  BY <1>1 DEF Inv
<1>5. HeldOf(escrow'[k]) = HeldOf(escrow[k]) - Held(k)
  BY <1>2, <1>4 DEF HeldOf, None
<1>6. Moved(k[1], k, Held(k))
  BY <1>3, <1>4, <1>5 DEF Moved
<1> QED
  BY <1>2, <1>6, OneMoved

LEMMA DisputeFunds ==
  ASSUME Inv, Inv', Funds, NEW k \in Keys, escrow_dispute(k)
  PROVE  Funds'
<1>1. /\ escrow[k].exists /\ balance' = balance
      /\ escrow' = [escrow EXCEPT ![k] = [escrow[k] EXCEPT !.disputed = TRUE]]
  BY DEF escrow_dispute
<1>2. escrow[k] \in Escrows
  BY <1>1, Existing
<1>3. /\ escrow'[k] = [escrow[k] EXCEPT !.disputed = TRUE]
      /\ \A j \in Keys \ {k} : escrow'[j] = escrow[j]
  BY <1>1 DEF Inv
<1>4. HeldOf(escrow'[k]) = HeldOf(escrow[k])
  BY <1>2, <1>3 DEF HeldOf, Escrows
<1> QED
  BY <1>1, <1>3, <1>4, NoneMoved, Zenon

LEMMA ReleaseFunds ==
  ASSUME Inv, Inv', Funds, NEW k \in Keys, NEW who \in Accounts, NEW receiver \in Accounts,
         NEW amount \in Amounts, escrow_release(k, who, receiver, amount)
  PROVE  Funds'
<1> DEFINE e == IF escrow[k].sophiatx_balance = amount THEN None
                ELSE [escrow[k] EXCEPT !.sophiatx_balance = @ - amount]
<1>1. /\ escrow[k].exists /\ is_approved(escrow[k])
      /\ escrow[k].sophiatx_balance >= amount /\ amount \in Nat
      /\ balance' = [balance EXCEPT ![receiver] = @ + amount]
      /\ escrow' = [escrow EXCEPT ![k] = e]
  BY EscrowAssumption DEF escrow_release
<1>2. escrow[k] \in Escrows /\ Balanced(escrow[k], paid[k])
  BY <1>1, Existing
<1>3. escrow[k].pending_fee = 0 /\ escrow[k].sophiatx_balance \in Nat
  BY <1>1, <1>2, Zenon DEF Balanced, Escrows
<1>4. HeldOf(escrow[k]) = escrow[k].sophiatx_balance
  BY <1>1, <1>3 DEF HeldOf
<1>5. HeldOf(e) = escrow[k].sophiatx_balance - amount
  <2>1. CASE escrow[k].sophiatx_balance = amount
    BY <1>3, <2>1 DEF HeldOf, None
  <2>2. CASE escrow[k].sophiatx_balance # amount
    <3>1. /\ e.exists /\ e.pending_fee = 0
          /\ e.sophiatx_balance = escrow[k].sophiatx_balance - amount
      BY <1>1, <1>2, <1>3, <2>2 DEF Escrows
    <3> HIDE DEF e
    <3> QED
      BY <1>1, <1>3, <3>1 DEF HeldOf
  <2> QED
    BY <2>1, <2>2
<1> HIDE DEF e
<1>6. balance' \in [Accounts -> Nat] /\ balance'[receiver] = balance[receiver] + amount
      /\ \A b \in Accounts \ {receiver} : balance'[b] = balance[b]
  BY <1>1 DEF Funds
<1>7. escrow'[k] = e /\ \A j \in Keys \ {k} : escrow'[j] = escrow[j]
  BY <1>1 DEF Inv
<1>8. Moved(receiver, k, amount)
  BY <1>4, <1>5, <1>6, <1>7 DEF Moved
<1> QED
  BY <1>1, <1>8, OneMoved

\* Each of the expired escrows goes back to its sender.
LEMMA BlockFunds ==
  ASSUME Inv, Inv', Funds, apply_block
  PROVE  Funds'
<1> DEFINE old == Expired(now + 1)
           returned == [k \in Keys |-> IF k \in old THEN Held(k) ELSE 0]
           sender == [k \in Keys |-> k[1]]
           refund == [a \in Accounts |->
                        SumFunctionOnSet(returned, {k \in Keys : sender[k] = a})]
<1>1. /\ balance' = [a \in Accounts |->
            balance[a] + SumFunction([k \in {k \in old : k[1] = a} |-> Held(k)])]
      /\ escrow' = [k \in Keys |-> IF k \in old THEN None ELSE escrow[k]]
  BY DEF apply_block, expire_escrow_ratification
<1>2. IsFiniteSet(Keys) /\ IsFiniteSet(Accounts) /\ old \subseteq Keys
      /\ \A k \in Keys : k[1] \in Accounts
  BY EscrowAssumption DEF Expired
<1>3. \A k \in old : Held(k) \in Nat /\ Held(k) = HeldOf(escrow[k])
  BY HeldType, <1>2 DEF Expired, Held, HeldOf, Inv
<1>4. \A k \in Keys : returned[k] \in Nat
  BY <1>3
<1>5. ASSUME NEW a \in Accounts
      PROVE  balance'[a] = balance[a] + refund[a] /\ refund[a] \in Nat
  <2> DEFINE R == {k \in old : k[1] = a}
             S == {k \in Keys : sender[k] = a}
             g == [k \in R |-> Held(k)]
  <2>1. SumFunction(g) = SumFunctionOnSet(g, R)
    BY DEF SumFunction
  <2>2. IsFiniteSet(S) /\ R \in SUBSET S
    BY <1>2, FS_Subset, Zenon
  <2>3. /\ \A k \in R : returned[k] = g[k] /\ g[k] \in Int
        /\ \A k \in S \ R : returned[k] = 0
        /\ \A k \in S : returned[k] \in Nat
    BY <1>2, <1>3, <1>4
  <2>4. balance'[a] = balance[a] + SumFunction(g) /\ refund[a] = SumFunctionOnSet(returned, S)
    BY <1>1
  <2> HIDE DEF R, S, g, returned, refund
  <2>5. SumFunctionOnSet(returned, S) = SumFunctionOnSet(g, R)
    BY <2>2, <2>3, SumRestrict
  <2>6. SumFunctionOnSet(returned, S) \in Nat
    BY <2>2, <2>3, SumType
  <2> QED
    BY <2>1, <2>4, <2>5, <2>6, Zenon
<1>6. SumFunctionOnSet(refund, Accounts) = SumFunctionOnSet(returned, Keys)
  <2>1. \A k \in Keys : sender[k] \in Accounts /\ returned[k] \in Int
    BY <1>2, <1>4
  <2> HIDE DEF returned, sender
  <2> QED
    BY <1>2, <2>1, SumGroups
<1>7. \A k \in Keys : /\ AllHeld'[k] \in Int
                      /\ AllHeld[k] = AllHeld'[k] + returned[k]
  <2> TAKE k \in Keys
  <2>1. AllHeld[k] = HeldOf(escrow[k]) /\ AllHeld'[k] = HeldOf(escrow'[k])
    BY DEF AllHeld
  <2>2. HeldOf(escrow[k]) \in Nat /\ HeldOf(None) = 0
    BY HeldType DEF Inv, HeldOf, None
  <2>3. CASE k \in old
    BY <1>1, <1>3, <2>1, <2>2, <2>3
  <2>4. CASE k \notin old
    BY <1>1, <2>1, <2>2, <2>4
  <2> QED
    BY <2>3, <2>4
<1> HIDE DEF returned, refund, old, sender
<1>8. SumFunctionOnSet(AllHeld, Keys)
        = SumFunctionOnSet(AllHeld', Keys) + SumFunctionOnSet(returned, Keys)
  <2>1. \A k \in Keys : /\ AllHeld'[k] \in Int /\ returned[k] \in Int
                        /\ AllHeld[k] = AllHeld'[k] + returned[k]
    BY <1>4, <1>7
  <2> QED
    BY <1>2, <2>1, SumAdd
<1>9. SumFunctionOnSet(balance', Accounts)
        = SumFunctionOnSet(balance, Accounts) + SumFunctionOnSet(refund, Accounts)
  <2>1. \A a \in Accounts : /\ balance[a] \in Int /\ refund[a] \in Int
                            /\ balance'[a] = balance[a] + refund[a]
    BY <1>5 DEF Funds
  <2> QED
    BY <1>2, <2>1, SumAdd
<1>10. /\ SumFunctionOnSet(AllHeld', Keys) \in Int
       /\ SumFunctionOnSet(returned, Keys) \in Int
       /\ SumFunctionOnSet(balance, Accounts) \in Int
  <2>1. \A k \in Keys : AllHeld'[k] \in Int
    BY <1>7
  <2>2. \A k \in Keys : returned[k] \in Int
    BY <1>4
  <2>3. \A a \in Accounts : balance[a] \in Int
    BY DEF Funds
  <2> QED
    BY <1>2, <2>1, <2>2, <2>3, SumType
<1>11. balance' \in [Accounts -> Nat]
  BY <1>1, <1>5 DEF Funds
<1> QED
  BY <1>6, <1>8, <1>9, <1>10, <1>11 DEF Funds

LEMMA NextFunds == Inv /\ Inv' /\ Funds /\ [Next]_vars => Funds'
<1> SUFFICES ASSUME Inv, Inv', Funds, [Next]_vars PROVE Funds'
  OBVIOUS
<1>1. CASE \E k \in Keys, o \in Terms : escrow_transfer(k, o)
  BY <1>1, TransferFunds
<1>2. CASE \E k \in Keys, who \in Accounts : escrow_approve(k, who) \/ escrow_reject(k, who)
  BY <1>2, ApproveFunds, RejectFunds
<1>3. CASE \E k \in Keys : escrow_dispute(k)
  BY <1>3, DisputeFunds
<1>4. CASE \E k \in Keys, who \in Accounts, receiver \in Accounts, amount \in Amounts :
             escrow_release(k, who, receiver, amount)
  BY <1>4, ReleaseFunds
<1>5. CASE apply_block
  BY <1>5, BlockFunds
<1>6. CASE UNCHANGED vars
  BY <1>6 DEF vars, Funds, AllHeld, HeldOf
<1> QED
  BY <1>1, <1>2, <1>3, <1>4, <1>5, <1>6 DEF Next

LEMMA InitFunds == Init => Funds
<1> SUFFICES ASSUME Init PROVE Funds
  OBVIOUS
<1>1. balance = InitBalance /\ escrow = [k \in Keys |-> None]
  BY DEF Init
<1>2. \A k \in Keys : AllHeld[k] = 0
  BY <1>1 DEF AllHeld, HeldOf, None
<1>3. SumFunctionOnSet(AllHeld, Keys) = SumFunctionOnSet(AllHeld, {})
  BY <1>2, EscrowAssumption, SumRestrict
<1>4. SumFunctionOnSet(AllHeld, {}) = 0
  BY SumEmpty
<1>5. \A a \in Accounts : InitBalance[a] \in Int
  BY EscrowAssumption
<1>6. SumFunctionOnSet(InitBalance, Accounts) \in Int
  BY <1>5, EscrowAssumption, SumType
<1> QED
  BY <1>1, <1>3, <1>4, <1>6, EscrowAssumption DEF Funds

\* validate_invariants: whatever is paid, released, returned or expires, the accounts
\* and the open escrows hold together the coins that there were in the beginning.
THEOREM AlwaysNothingLost == Spec => []NothingLost
<1>1. Inv /\ Funds => NothingLost
  <2> SUFFICES ASSUME Inv, Funds PROVE NothingLost
    OBVIOUS
  <2> DEFINE R == {k \in Keys : escrow[k].exists}
             g == [k \in R |-> Held(k)]
  <2>1. IsFiniteSet(Keys) /\ R \in SUBSET Keys
    BY EscrowAssumption
  <2>2. \A k \in R : AllHeld[k] = g[k] /\ g[k] \in Int
    BY HeldType DEF AllHeld, HeldOf, Held, Inv
  <2>3. \A k \in Keys \ R : AllHeld[k] = 0
    BY DEF AllHeld, HeldOf
  <2>4. /\ SumFunction(g) = SumFunctionOnSet(g, R)
        /\ SumFunction(balance) = SumFunctionOnSet(balance, Accounts)
        /\ SumFunction(InitBalance) = SumFunctionOnSet(InitBalance, Accounts)
    BY EscrowAssumption DEF SumFunction, Funds
  <2>5. NothingLost <=> SumFunction(balance) + SumFunction(g) = SumFunction(InitBalance)
    BY DEF NothingLost
  <2> HIDE DEF R, g
  <2>6. SumFunctionOnSet(AllHeld, Keys) = SumFunctionOnSet(g, R)
    BY <2>1, <2>2, <2>3, SumRestrict
  <2> QED
    BY <2>4, <2>5, <2>6 DEF Funds
<1> QED
  BY <1>1, InitFunds, NextFunds, Invariance, PTL DEF Spec
=============================================================================
