-------------------------- MODULE AccountRecovery ---------------------------
(***************************************************************************)
(* Owner authorities and their recovery: who may replace the owner         *)
(* authority of an account, and when.  The evaluators of account_update,   *)
(* account_delete, request_account_recovery, recover_account,              *)
(* change_recovery_account, reset_account and set_reset_account, and       *)
(* account_recovery_processing at the end of every block.  Authorities     *)
(* are opaque; signatures are checked before an evaluator runs.            *)
(***************************************************************************)
EXTENDS Integers, Sequences, FiniteSets

CONSTANTS
  Owners,          \* the accounts that are updated and recovered
  Partners,        \* the accounts that may help
  Witnesses,       \* those of them that may be the top witness
  Authorities,     \* satisfiable owner authorities
  Impossible,      \* an authority whose keys do not reach its threshold
  Deleted,         \* the authority of a deleted account
  NoPartner,       \* the empty recovery account
  NoReset,         \* the reset account of a new account, which nobody controls
  RecoveryPeriod,  \* SOPHIATX_OWNER_AUTH_RECOVERY_PERIOD
  RequestPeriod,   \* SOPHIATX_ACCOUNT_RECOVERY_REQUEST_EXPIRATION_PERIOD
  UpdateLimit,     \* SOPHIATX_OWNER_UPDATE_LIMIT
  Start,           \* the time of the first block,
  MaxHeadTime,     \* bounds: that of the last one,
  MaxHistory       \* and the replaced authorities that are remembered

ASSUME RecoveryAssumption ==
  /\ Impossible \notin Authorities
  /\ Witnesses \subseteq Partners /\ NoPartner \notin Partners /\ NoReset \notin Partners
  /\ RecoveryPeriod \in Nat \ {0} /\ RequestPeriod \in Nat \ {0} /\ UpdateLimit \in Nat
  /\ Start \in Nat /\ MaxHeadTime \in Nat /\ Start > UpdateLimit /\ MaxHistory \in Nat

VARIABLES
  head_time, \* head_block_time()
  account,   \* of each account: owner, last_owner_update, last_account_recovery,
             \* recovery_account and reset_account
  request,   \* account_recovery_request_object, or NoRequest
  change,    \* change_recovery_account_request_object, or NoRequest
  history,   \* owner_authority_history_objects in the order of their ids
  replaced,  \* history variable: every authority that was replaced, and when
  since      \* history variable: when the recovery account of an account changed

recovery_vars == <<head_time, account, request, change, history, replaced, since>>

NoRequest == [exists |-> FALSE]

AccountObject ==
  [owner : Authorities \cup {Deleted}, last_owner_update : Nat, last_account_recovery : Nat,
   recovery_account : Partners \cup {NoPartner}, reset_account : Partners \cup {NoReset}]

Request ==
  [exists : {TRUE}, new_owner_authority : Authorities, expires : Nat, by : Partners]

Change ==
  [exists : {TRUE}, recovery_account : Partners, effective_on : Nat, asked : Nat]

HistoryObject ==
  [account : Owners, previous_owner_authority : Authorities \cup {Deleted},
   last_valid_time : Nat]

\* The recovery account is the creator of the account; accounts of genesis have none.
RecoveryInit ==
  /\ head_time = Start
  /\ account \in [Owners ->
       [owner : Authorities, last_owner_update : {0}, last_account_recovery : {0},
        recovery_account : Partners \cup {NoPartner}, reset_account : {NoReset}]]
  /\ request = [a \in Owners |-> NoRequest]
  /\ change = [a \in Owners |-> NoRequest]
  /\ history = <<>> /\ replaced = {}
  /\ since = [a \in Owners |-> 0]

\* acc is the account with what else the caller changes in it.
update_owner_authority(a, acc, authority) ==
  /\ Len(history) < MaxHistory
  /\ LET old == [account |-> a, previous_owner_authority |-> account[a].owner,
                 last_valid_time |-> head_time]
     IN history' = Append(history, old) /\ replaced' = replaced \cup {old}
  /\ account' = [account EXCEPT ![a] =
                   [acc EXCEPT !.owner = authority, !.last_owner_update = head_time]]

\* account_update with a new owner authority; account_delete with one that nobody
\* can satisfy.
account_update(a, authority) ==
  /\ head_time - account[a].last_owner_update > UpdateLimit
  /\ update_owner_authority(a, account[a], authority)
  /\ UNCHANGED <<head_time, request, change, since>>

account_delete(a) == account_update(a, Deleted)

\* Only the recovery account, or the top witness for an account without one.
MayRequest(a, by) ==
  IF account[a].recovery_account = NoPartner THEN by \in Witnesses
  ELSE by = account[a].recovery_account

\* A new or a changed request.  The record keeps who made it, as a history variable.
request_account_recovery(a, by, authority) ==
  /\ MayRequest(a, by) /\ authority # Impossible
  /\ request' = [request EXCEPT ![a] =
       [exists |-> TRUE, new_owner_authority |-> authority,
        expires |-> head_time + RequestPeriod, by |-> by]]
  /\ UNCHANGED <<head_time, account, change, history, replaced, since>>

\* With an open authority.
cancel_account_recovery(a, by) ==
  /\ MayRequest(a, by) /\ request[a].exists
  /\ request' = [request EXCEPT ![a] = NoRequest]
  /\ UNCHANGED <<head_time, account, change, history, replaced, since>>

WasOwner(a, authority) ==
  \E i \in 1 .. Len(history) :
     history[i].account = a /\ history[i].previous_owner_authority = authority

recover_account(a, recent) ==
  /\ head_time - account[a].last_account_recovery > UpdateLimit
  /\ request[a].exists /\ request[a].new_owner_authority # recent
  /\ WasOwner(a, recent)
  /\ request' = [request EXCEPT ![a] = NoRequest]
  /\ update_owner_authority(a, [account[a] EXCEPT !.last_account_recovery = head_time],
                            request[a].new_owner_authority)
  /\ UNCHANGED <<head_time, change, since>>

\* Mutant: a changed request keeps the date of the first one.
change_recovery_account_KeepsDate(a, new) ==
  /\ change' = [change EXCEPT ![a] =
       CASE ~ change[a].exists ->
              [exists |-> TRUE, recovery_account |-> new,
               effective_on |-> head_time + RecoveryPeriod, asked |-> head_time]
         [] change[a].exists /\ account[a].recovery_account # new ->
              [change[a] EXCEPT !.recovery_account = new, !.asked = head_time]
         [] OTHER -> NoRequest]
  /\ UNCHANGED <<head_time, account, request, history, replaced, since>>

\* A new or a changed request, or one that is taken back by asking for the current
\* recovery account.  The record keeps when it was made, as a history variable.
change_recovery_account(a, new) ==
  /\ change' = [change EXCEPT ![a] =
       IF change[a].exists /\ account[a].recovery_account = new THEN NoRequest
       ELSE [exists |-> TRUE, recovery_account |-> new,
             effective_on |-> head_time + RecoveryPeriod, asked |-> head_time]]
  /\ UNCHANGED <<head_time, account, request, history, replaced, since>>

\* Without any delay.
reset_account(a, by, authority) ==
  /\ account[a].reset_account = by
  /\ update_owner_authority(a, account[a], authority)
  /\ UNCHANGED <<head_time, request, change, since>>

set_reset_account(a, new) ==
  /\ account[a].reset_account # new
  /\ account' = [account EXCEPT ![a].reset_account = new]
  /\ UNCHANGED <<head_time, request, change, history, replaced, since>>

-----------------------------------------------------------------------------
\* account_recovery_processing

\* Mutant: a request is kept for longer.
Outdated_Late(time) == {a \in Owners : request[a].exists /\ request[a].expires < time - 1}

Outdated(time) == {a \in Owners : request[a].exists /\ request[a].expires <= time}

\* Mutant: authorities are kept as long as a request.
StillValid_WrongPeriod(h, time) == ~ (h.last_valid_time + RequestPeriod < time)

StillValid(h, time) == ~ (h.last_valid_time + RecoveryPeriod < time)

FirstValid(time) ==
  CHOOSE n \in 1 .. Len(history) + 1 :
     /\ \A i \in 1 .. n - 1 : ~ StillValid(history[i], time)
     /\ n <= Len(history) => StillValid(history[n], time)

\* The history is cleared from its beginning up to the first valid entry.
Remaining(time) == SubSeq(history, FirstValid(time), Len(history))

Effective(time) == {a \in Owners : change[a].exists /\ change[a].effective_on <= time}

account_recovery_processing(time) ==
  LET changed == Effective(time)
  IN /\ request' = [a \in Owners |-> IF a \in Outdated(time) THEN NoRequest ELSE request[a]]
     /\ history' = Remaining(time)
     /\ account' = [a \in Owners |->
          IF a \in changed
          THEN [account[a] EXCEPT !.recovery_account = change[a].recovery_account]
          ELSE account[a]]
     /\ change' = [a \in Owners |-> IF a \in changed THEN NoRequest ELSE change[a]]
     /\ since' = [a \in Owners |->
          IF a \in changed /\ change[a].recovery_account # account[a].recovery_account
          THEN time ELSE since[a]]
     /\ UNCHANGED replaced

\* The next block, after any number of missed slots.
apply_recovery_block ==
  \E time \in head_time + 1 .. MaxHeadTime :
    head_time' = time /\ account_recovery_processing(time)

RecoveryNext ==
  \/ \E a \in Owners :
       \/ account_delete(a)
       \/ \E x \in Authorities : account_update(a, x) \/ recover_account(a, x)
       \/ \E p \in Partners, x \in Authorities : reset_account(a, p, x)
       \/ \E p \in Partners, x \in Authorities \cup {Impossible} : request_account_recovery(a, p, x)
       \/ \E p \in Partners :
            \/ cancel_account_recovery(a, p)
            \/ change_recovery_account(a, p)
            \/ set_reset_account(a, p)
  \/ apply_recovery_block

RecoverySpec == RecoveryInit /\ [][RecoveryNext]_recovery_vars

-----------------------------------------------------------------------------
(***************************************************************************)
(* Properties.                                                             *)
(***************************************************************************)

\* Type invariant.
RecoveryTypeOK ==
  /\ head_time \in Nat
  /\ account \in [Owners -> AccountObject]
  /\ request \in [Owners -> Request \cup {NoRequest}]
  /\ change \in [Owners -> Change \cup {NoRequest}]
  /\ history \in Seq(HistoryObject) /\ replaced \subseteq HistoryObject
  /\ since \in [Owners -> Nat]

\* "Being able to satisfy an owner authority that was used in the past 30 days is
\* sufficient": the history that recover_account searches has exactly the authorities
\* that were replaced within the recovery period, of all accounts, although it is
\* cleared only up to the first one that is still valid.
HistoryIsRecent ==
  {history[i] : i \in 1 .. Len(history)}
    = {h \in replaced : h.last_valid_time + RecoveryPeriod >= head_time}

\* request_account_recovery: a request that can still be used comes from the current
\* recovery account, or from one that lost this role less than a request period ago.
EndorserIsRecent ==
  \A a \in Owners : request[a].exists =>
     \/ account[a].recovery_account = request[a].by
     \/ account[a].recovery_account = NoPartner
     \/ head_time - since[a] < RequestPeriod

\* A step that gives a another recovery account does what was asked for a whole
\* period before.
Delayed(a) ==
  account'[a].recovery_account # account[a].recovery_account =>
    /\ change[a].exists /\ change[a].recovery_account = account'[a].recovery_account
    /\ head_time' - change[a].asked >= RecoveryPeriod

\* "An account can change their recovery account at any time with a 30 day delay": a
\* recovery account that takes office was asked for a whole period earlier, and
\* this wish was not changed since.
ChangeIsDelayed == [][\A a \in Owners : Delayed(a)]_recovery_vars

\* "an account cannot be permanently recovered to the wrong account": whoever was
\* the owner when the change of the recovery account was asked for, or later, can
\* still prove it as long as the old recovery account is in office.
OwnerCanReturn ==
  \A a \in Owners : change[a].exists =>
     \A h \in replaced :
        (h.account = a /\ h.last_valid_time >= change[a].asked)
           => WasOwner(a, h.previous_owner_authority)
=============================================================================
