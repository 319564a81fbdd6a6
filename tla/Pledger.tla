-------------------------------- MODULE Pledger --------------------------------
(***************************************************************************)
(* The accounts of a solo's pledger (lib/ag-solo/vats/vat-pledger.js).  An *)
(* account keeps a purse for each assay.  depositAll awaits three things   *)
(* in turn, and other calls come in between: the assay of the payment, a   *)
(* new purse if the account has none, and that the purse takes the         *)
(* payment.  Issuers, purses and payments (ERTP) are external; a payment   *)
(* is worth one, and a purse is named for the deposit that asked for it.   *)
(***************************************************************************)
EXTENDS Integers, FiniteSetsExt

CONSTANTS
  Accounts, Assays,
  Deposits,   \* the calls of depositAll
  MaxTaken    \* bound on withdrawals

VARIABLES
  deposit,      \* where each call of depositAll is
  target,       \* its account and the assay of its payment
  assayPurses,  \* account and assay -> the purse, as a set
  purse,        \* deposit -> the purse it sends its payment to, as a set
  balance,      \* purse -> what is in it
  taken,        \* account and assay -> what was withdrawn
  overlapped    \* accounts and assays for which two deposits asked at once

vars == <<deposit, target, assayPurses, purse, balance, taken, overlapped>>

Slots == Accounts \X Assays

Init ==
  /\ deposit = [d \in Deposits |-> "none"]
  /\ target \in [Deposits -> Slots]
  /\ assayPurses = [s \in Slots |-> {}]
  /\ purse = [d \in Deposits |-> {}]
  /\ balance = [d \in Deposits |-> 0]
  /\ taken = [s \in Slots |-> 0]
  /\ overlapped = {}

-----------------------------------------------------------------------------

DepositAll(d) ==
  /\ deposit[d] = "none"
  /\ deposit' = [deposit EXCEPT ![d] = "asks"]
  /\ UNCHANGED <<target, assayPurses, purse, balance, taken, overlapped>>

UsePurse(d) ==
  /\ deposit[d] = "asks" /\ assayPurses[target[d]] # {}
  /\ purse' = [purse EXCEPT ![d] = assayPurses[target[d]]]
  /\ deposit' = [deposit EXCEPT ![d] = "sent"]
  /\ UNCHANGED <<target, assayPurses, balance, taken, overlapped>>

Making(s) == {d \in Deposits : deposit[d] = "makes" /\ target[d] = s}

\* Mutant: has is not asked.
MakeAnotherPurse(d) ==
  /\ deposit[d] = "asks"
  /\ deposit' = [deposit EXCEPT ![d] = "makes"]
  /\ overlapped' = overlapped \cup {s \in {target[d]} : Making(s) # {}}
  /\ UNCHANGED <<target, assayPurses, purse, balance, taken>>

MakeEmptyPurse(d) ==
  /\ deposit[d] = "asks" /\ assayPurses[target[d]] = {}
  /\ deposit' = [deposit EXCEPT ![d] = "makes"]
  /\ overlapped' = overlapped \cup {s \in {target[d]} : Making(s) # {}}
  /\ UNCHANGED <<target, assayPurses, purse, balance, taken>>

(* The new purse is entered whatever the account has by now. *)
SetPurse(d) ==
  /\ deposit[d] = "makes"
  /\ assayPurses' = [assayPurses EXCEPT ![target[d]] = {d}]
  /\ purse' = [purse EXCEPT ![d] = {d}]
  /\ deposit' = [deposit EXCEPT ![d] = "sent"]
  /\ UNCHANGED <<target, balance, taken, overlapped>>

Deposited(d) ==
  /\ deposit[d] = "sent"
  /\ balance' = [p \in Deposits |-> IF p \in purse[d] THEN balance[p] + 1 ELSE balance[p]]
  /\ deposit' = [deposit EXCEPT ![d] = "done"]
  /\ UNCHANGED <<target, assayPurses, purse, taken, overlapped>>

Taken == MapThenSumSet(LAMBDA s : taken[s], Slots)

(* withdrawExactly: of the purse the account has at the time; a purse does *)
(* not give what it does not have.                                         *)
WithdrawExactly(s) ==
  /\ Taken < MaxTaken
  /\ \E p \in assayPurses[s] :
       /\ balance[p] > 0
       /\ balance' = [balance EXCEPT ![p] = @ - 1]
  /\ taken' = [taken EXCEPT ![s] = @ + 1]
  /\ UNCHANGED <<deposit, target, assayPurses, purse, overlapped>>

Next ==
  \/ \E d \in Deposits :
       DepositAll(d) \/ UsePurse(d) \/ MakeEmptyPurse(d) \/ SetPurse(d) \/ Deposited(d)
  \/ \E s \in Slots : WithdrawExactly(s)

Spec == Init /\ [][Next]_vars

-----------------------------------------------------------------------------
(* Properties. *)

(* What getBalance shows of an account and an assay. *)
Shown(s) == IF assayPurses[s] = {} THEN 0 ELSE balance[CHOOSE p \in assayPurses[s] : TRUE]

Paid(s) == Cardinality({d \in Deposits : target[d] = s /\ deposit[d] = "done"})

(* vat-pledger.js l.26: "An account consists of unique per-assay purses".  *)
(* What was deposited in an account and not withdrawn from it is what it   *)
(* shows, for every assay and whatever else goes on, unless two deposits   *)
(* found no purse for it and both asked for one: then the second purse     *)
(* replaces the first, and what is in that one is out of reach.            *)
ShowsWhatIsPaid == \A s \in Slots \ overlapped : Shown(s) + taken[s] = Paid(s)
=============================================================================
