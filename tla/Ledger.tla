------------------------------- MODULE Ledger -------------------------------
(***************************************************************************)
(* What the money handlers promise, as an account book: a deposit, a       *)
(* withdrawal, a purchase and a sale each happen at one moment and whole,  *)
(* and none takes more than there is.                                      *)
(*                                                                         *)
(* Two sets name the exceptions.  The balance or holding of a contested    *)
(* entry need not cover what is taken from it.  A spoilt entry may change  *)
(* in any way; being spoilt is for good, and never touches other entries.  *)
(***************************************************************************)
EXTENDS Integers

CONSTANTS Accounts, Stocks, Amounts, Quantities, Prices

VARIABLES
    cash,        \* [Accounts -> balance]
    deposits,    \* [Accounts -> deposits less withdrawals]
    proceeds,    \* [Accounts -> sales less purchases]
    shares,      \* [Holdings -> shares held]
    traded,      \* [Holdings -> shares bought less shares sold]
    contested, spoilt

vars == <<cash, deposits, proceeds, shares, traded, contested, spoilt>>

Holdings == Accounts \X Stocks
Entries == Accounts \cup Holdings

Init ==
    /\ cash \in [Accounts -> Int] /\ deposits = cash
    /\ proceeds = [a \in Accounts |-> 0]
    /\ shares \in [Holdings -> Int] /\ traded = shares
    /\ contested = {} /\ spoilt = {}

(* Entry e holds at least n, or is excused from doing so. *)
Covers(balance, e, n) == balance >= n \/ e \in contested \cup spoilt

(* x in cash for account a, from or to the client... *)
MoveCash(a, x) ==
    /\ cash' = [cash EXCEPT ![a] = @ + x]
    /\ deposits' = [deposits EXCEPT ![a] = @ + x]
    /\ UNCHANGED <<proceeds, shares, traded, spoilt>>

(* ... or against q shares of holding k. *)
Trade(k, x, q) ==
    /\ cash' = [cash EXCEPT ![k[1]] = @ + x]
    /\ proceeds' = [proceeds EXCEPT ![k[1]] = @ + x]
    /\ shares' = [shares EXCEPT ![k] = @ + q]
    /\ traded' = [traded EXCEPT ![k] = @ + q]
    /\ UNCHANGED <<deposits, spoilt>>

Deposit(a, x) == MoveCash(a, x)
Withdraw(a, x) == Covers(cash[a], a, x) /\ MoveCash(a, -x)
Buy(k, x, q) == Covers(cash[k[1]], k[1], x) /\ Trade(k, -x, q)
Sell(k, x, q) == Covers(shares[k], k, q) /\ Trade(k, x, -q)

(* A failure spoils some entries, and with an account its holdings; of the
   others nothing changes. *)
Fail ==
    /\ spoilt \subseteq spoilt'
    /\ \A k \in Holdings : k[1] \in spoilt' => k \in spoilt'
    /\ \A a \in Accounts \ spoilt' :
           <<cash[a], deposits[a], proceeds[a]>>' = <<cash[a], deposits[a], proceeds[a]>>
    /\ \A k \in Holdings \ spoilt' : <<shares[k], traded[k]>>' = <<shares[k], traded[k]>>

Operate ==
    \/ \E a \in Accounts, x \in Amounts : Deposit(a, x) \/ Withdraw(a, x)
    \/ \E k \in Holdings, q \in Quantities, p \in Prices : Buy(k, p * q, q) \/ Sell(k, p * q, q)

Next == (Fail \/ Operate) /\ contested' \subseteq Entries

Spec == Init /\ [][Next]_vars
=============================================================================
