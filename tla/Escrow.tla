------------------------------- MODULE Escrow -------------------------------
(***************************************************************************)
(* Escrows: the evaluators of escrow_transfer, escrow_approve,             *)
(* escrow_dispute and escrow_release with the checks of their operations'  *)
(* validate(), and expire_escrow_ratification at the end of every block.   *)
(* An escrow is identified by the account that pays for it and an id that  *)
(* this account chooses.  Time is counted in blocks.                       *)
(***************************************************************************)
EXTENDS Integers, FiniteSets, Functions

CONSTANTS
  Accounts,
  Keys,         \* the senders of escrows, with the ids they choose from
  InitBalance,
  Terms,        \* bounds: the terms of the escrows that are proposed,
  Amounts,      \* the amounts that are released,
  MaxTime       \* and the blocks

ASSUME EscrowAssumption ==
  /\ IsFiniteSet(Accounts) /\ IsFiniteSet(Keys) /\ Keys \subseteq Accounts \X Nat
  /\ InitBalance \in [Accounts -> Nat]
  /\ Terms \subseteq [to : Accounts, agent : Accounts, sophiatx_amount : Nat \ {0},
                      escrow_fee : Nat, ratification_deadline : Nat, escrow_expiration : Nat]
  /\ Amounts \subseteq Nat \ {0}
  /\ MaxTime \in Nat

VARIABLES
  balance,  \* account_object::balance
  escrow,   \* the escrow_objects, by sender and id
  now,      \* head_block_time()
  paid      \* history variable: what the last escrow of a key took and paid

vars == <<balance, escrow, now, paid>>

None == [exists |-> FALSE]

Escrows ==
  [exists : {TRUE}, to : Accounts, agent : Accounts,
   ratification_deadline : Nat, escrow_expiration : Nat,
   sophiatx_balance : Nat, pending_fee : Nat,
   to_approved : BOOLEAN, agent_approved : BOOLEAN, disputed : BOOLEAN]

is_approved(e) == e.to_approved /\ e.agent_approved

Payments == [amount : Nat, fee : Nat, refunded : Nat, released : Nat, agent_fee : Nat]

NothingPaid(amount, fee) ==
  [amount |-> amount, fee |-> fee, refunded |-> 0, released |-> 0, agent_fee |-> 0]

Init ==
  /\ balance = InitBalance
  /\ escrow = [k \in Keys |-> None]
  /\ now = 0
  /\ paid = [k \in Keys |-> NothingPaid(0, 0)]

escrow_transfer(k, o) ==
  LET from == k[1]
      spent == o.sophiatx_amount + o.escrow_fee
  IN /\ from # o.agent /\ o.to # o.agent
     /\ o.ratification_deadline < o.escrow_expiration
     /\ o.ratification_deadline > now /\ o.escrow_expiration > now
     /\ balance[from] >= spent
     /\ ~ escrow[k].exists
     /\ balance' = [balance EXCEPT ![from] = @ - spent]
     /\ escrow' = [escrow EXCEPT ![k] =
          [exists |-> TRUE, to |-> o.to, agent |-> o.agent,
           ratification_deadline |-> o.ratification_deadline,
           escrow_expiration |-> o.escrow_expiration,
           sophiatx_balance |-> o.sophiatx_amount, pending_fee |-> o.escrow_fee,
           to_approved |-> FALSE, agent_approved |-> FALSE, disputed |-> FALSE]]
     /\ paid' = [paid EXCEPT ![k] = NothingPaid(o.sophiatx_amount, o.escrow_fee)]
     /\ UNCHANGED now

\* One of the two that have to agree, who has not done so yet, in time.
MayRatify(k, who) ==
  /\ escrow[k].exists
  /\ escrow[k].ratification_deadline >= now
  /\ \/ who = escrow[k].to /\ ~ escrow[k].to_approved
     \/ who = escrow[k].agent /\ ~ escrow[k].agent_approved

Approved(e, who) ==
  [e EXCEPT !.to_approved = @ \/ who = e.to, !.agent_approved = @ \/ who = e.agent]

\* escrow_approve with approve = true: the second approval pays the agent.
escrow_approve(k, who) ==
  LET e == Approved(escrow[k], who)
  IN /\ MayRatify(k, who)
     /\ IF is_approved(e)
        THEN /\ balance' = [balance EXCEPT ![e.agent] = @ + e.pending_fee]
             /\ escrow' = [escrow EXCEPT ![k] = [e EXCEPT !.pending_fee = 0]]
             /\ paid' = [paid EXCEPT ![k].agent_fee = @ + e.pending_fee]
        ELSE escrow' = [escrow EXCEPT ![k] = e] /\ UNCHANGED <<balance, paid>>
     /\ UNCHANGED now

Held(k) == escrow[k].sophiatx_balance + escrow[k].pending_fee

\* escrow_approve with approve = false: everything goes back.
escrow_reject(k, who) ==
  /\ MayRatify(k, who)
  /\ balance' = [balance EXCEPT ![k[1]] = @ + Held(k)]
  /\ escrow' = [escrow EXCEPT ![k] = None]
  /\ paid' = [paid EXCEPT ![k].refunded = @ + Held(k)]
  /\ UNCHANGED now

escrow_dispute(k) ==
  /\ escrow[k].exists
  /\ now < escrow[k].escrow_expiration
  /\ is_approved(escrow[k]) /\ ~ escrow[k].disputed
  /\ escrow' = [escrow EXCEPT ![k].disputed = TRUE]
  /\ UNCHANGED <<balance, now, paid>>

\* Who may release to whom.
MayRelease(k, who, receiver) ==
  LET e == escrow[k]
  IN IF e.disputed THEN who = e.agent
     ELSE /\ who \in {k[1], e.to}
          /\ e.escrow_expiration > now =>
                IF who = k[1] THEN receiver = e.to ELSE receiver = k[1]

\* Mutant: funds can be released before both parties have agreed.
escrow_release_Unapproved(k, who, receiver, amount) ==
  LET e == escrow[k]
  IN /\ e.exists
     /\ e.sophiatx_balance >= amount
     /\ receiver \in {k[1], e.to}
     /\ MayRelease(k, who, receiver)
     /\ balance' = [balance EXCEPT ![receiver] = @ + amount]
     /\ escrow' = [escrow EXCEPT ![k] =
                     IF e.sophiatx_balance = amount THEN None
                     ELSE [e EXCEPT !.sophiatx_balance = @ - amount]]
     /\ paid' = [paid EXCEPT ![k].released = @ + amount]
     /\ UNCHANGED now

escrow_release(k, who, receiver, amount) ==
  LET e == escrow[k]
  IN /\ e.exists
     /\ e.sophiatx_balance >= amount
     /\ receiver \in {k[1], e.to}
     /\ is_approved(e)
     /\ MayRelease(k, who, receiver)
     /\ balance' = [balance EXCEPT ![receiver] = @ + amount]
     /\ escrow' = [escrow EXCEPT ![k] =
                     IF e.sophiatx_balance = amount THEN None
                     ELSE [e EXCEPT !.sophiatx_balance = @ - amount]]
     /\ paid' = [paid EXCEPT ![k].released = @ + amount]
     /\ UNCHANGED now

\* Mutant: an escrow that one of the two has approved is not looked at.
Expired_NoneApproved(time) ==
  {k \in Keys : /\ escrow[k].exists
                /\ ~ escrow[k].to_approved /\ ~ escrow[k].agent_approved
                /\ escrow[k].ratification_deadline <= time}

Expired(time) ==
  {k \in Keys : /\ escrow[k].exists
                /\ ~ is_approved(escrow[k])
                /\ escrow[k].ratification_deadline <= time}

\* Mutant: the fee of the agent stays with the escrow.
expire_escrow_ratification_KeepsFee(time) ==
  LET old == Expired(time)
  IN /\ balance' = [a \in Accounts |->
          balance[a] + SumFunction([k \in {k \in old : k[1] = a} |->
                                      escrow[k].sophiatx_balance])]
     /\ escrow' = [k \in Keys |-> IF k \in old THEN None ELSE escrow[k]]
     /\ paid' = [k \in Keys |->
          IF k \in old THEN [paid[k] EXCEPT !.refunded = @ + Held(k)] ELSE paid[k]]

expire_escrow_ratification(time) ==
  LET old == Expired(time)
  IN /\ balance' = [a \in Accounts |->
          balance[a] + SumFunction([k \in {k \in old : k[1] = a} |-> Held(k)])]
     /\ escrow' = [k \in Keys |-> IF k \in old THEN None ELSE escrow[k]]
     /\ paid' = [k \in Keys |->
          IF k \in old THEN [paid[k] EXCEPT !.refunded = @ + Held(k)] ELSE paid[k]]

\* The end of a block; the operations come before it and see the previous time.
apply_block ==
  /\ now < MaxTime
  /\ now' = now + 1
  /\ expire_escrow_ratification(now + 1)

Next ==
  \/ \E k \in Keys, o \in Terms : escrow_transfer(k, o)
  \/ \E k \in Keys, who \in Accounts : escrow_approve(k, who) \/ escrow_reject(k, who)
  \/ \E k \in Keys : escrow_dispute(k)
  \/ \E k \in Keys, who \in Accounts, receiver \in Accounts, amount \in Amounts :
        escrow_release(k, who, receiver, amount)
  \/ apply_block

Spec == Init /\ [][Next]_vars

\* Blocks keep coming.
FairSpec == Spec /\ WF_vars(apply_block)

-----------------------------------------------------------------------------
(***************************************************************************)
(* Properties.                                                             *)
(***************************************************************************)

\* Type invariant; no account is overdrawn.
TypeOK ==
  /\ balance \in [Accounts -> Nat]
  /\ escrow \in [Keys -> Escrows \cup {None}]
  /\ now \in 0 .. MaxTime
  /\ paid \in [Keys -> Payments]

\* What an escrow, or its absence, has to do with what was paid.
Balanced(e, p) ==
  IF e.exists
  THEN /\ p.refunded = 0
       /\ p.released + e.sophiatx_balance = p.amount
       /\ p.agent_fee + e.pending_fee = p.fee
       /\ IF is_approved(e) THEN e.pending_fee = 0
          ELSE p.released = 0 /\ p.agent_fee = 0 /\ ~ e.disputed
  ELSE \/ p.refunded = p.amount + p.fee /\ p.released = 0 /\ p.agent_fee = 0
       \/ p.refunded = 0 /\ p.released = p.amount /\ p.agent_fee = p.fee

\* escrow_approve, escrow_release and expire_escrow_ratification together: before both
\* have agreed nothing is paid; after that the agent has the whole fee, and what is
\* not held any more was released; and in the end either all was returned to the
\* sender and nobody else got anything, or the parties got the amount and the agent
\* the fee.
AllOrNothing == \A k \in Keys : Balanced(escrow[k], paid[k])

\* expire_escrow_ratification: no escrow outlives its deadline without the agreement
\* of both, so that the funds of the sender are not held for nothing.
RatifiedInTime ==
  \A k \in Keys : escrow[k].exists =>
     is_approved(escrow[k]) \/ now < escrow[k].ratification_deadline

\* validate_invariants: the accounts and the escrows hold all coins.
NothingLost ==
  SumFunction(balance) + SumFunction([k \in {k \in Keys : escrow[k].exists} |-> Held(k)])
    = SumFunction(InitBalance)

\* A step keeps the approvals and the dispute of an escrow, and returns nothing of an
\* approved one to the sender.
Kept(k) ==
  escrow[k].exists =>
    /\ escrow'[k].exists =>
         /\ escrow[k].to_approved => escrow'[k].to_approved
         /\ escrow[k].agent_approved => escrow'[k].agent_approved
         /\ escrow[k].disputed => escrow'[k].disputed
    /\ is_approved(escrow[k]) => paid'[k].refunded = paid[k].refunded

\* "Once a part approves the escrow, the cannot revoke their approval": an approval
\* ends only with the escrow, and an approved escrow is never returned to the sender.
ApprovalIsFinal == [][\A k \in Keys : Kept(k)]_vars

\* An escrow that is not ratified is eventually over.
EventuallySettled ==
  \A k \in Keys : (escrow[k].exists /\ ~ is_approved(escrow[k]))
                    ~> (~ escrow[k].exists \/ is_approved(escrow[k]))

\* "Disputes can be raised any time before or on the dispute deadline time, after the
\* escrow has been approved by all parties."
DisputedOnDeadline ==
  \A k \in Keys :
     (escrow[k].exists /\ is_approved(escrow[k]) /\ ~ escrow[k].disputed
        /\ now <= escrow[k].escrow_expiration)
     => ENABLED escrow_dispute(k)
=============================================================================
