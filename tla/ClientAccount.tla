----------------------------- MODULE ClientAccount -----------------------------
(****************************************************************************)
(* What the billing ledger promises its clients, with no processes, no      *)
(* retries and no clock: each request identity is charged for once.  The    *)
(* price leaves the client's balance when the request is taken on, and      *)
(* comes back, whole and once, if the request ends without an answer.  An   *)
(* account that takes nothing and still pays back is the shipped server's   *)
(* on Postgres; one that does neither is SQLite's.                          *)
(* ClientBilling implements it.                                             *)
(****************************************************************************)
EXTENDS Integers

CONSTANTS
  Keys,       \* request identities: (principal, client request id)
  Profiles,   \* access profiles
  ProfileOf,  \* request identity -> the profile it is charged to, or None
  Amounts,    \* prices
  Grants,     \* values an operator may give a balance
  Pays,       \* a request that ends without an answer is paid back
  None

VARIABLES
  takes,      \* the price of a request is taken when it is taken on
  charge,     \* request identity -> what became of its charge
  amount,     \* request identity -> the price held for it
  balance     \* profile -> credits, or None when it is not metered

account == <<takes, charge, amount, balance>>

Metered(k) == ProfileOf[k] # None /\ balance[ProfileOf[k]] # None

AccountInit ==
  /\ takes \in BOOLEAN
  /\ charge = [k \in Keys |-> "none"]
  /\ amount = [k \in Keys |-> 0]

Move(k, x) == balance' = [balance EXCEPT ![ProfileOf[k]] = @ + x]

Hold(k, x) ==
  /\ charge[k] = "none"
  /\ charge' = [charge EXCEPT ![k] = "held"]
  /\ amount' = [amount EXCEPT ![k] = x]
  /\ IF takes /\ Metered(k) THEN balance[ProfileOf[k]] >= x /\ Move(k, -x)
                           ELSE UNCHANGED balance
  /\ UNCHANGED takes

Settle(k) ==
  /\ charge[k] = "held"
  /\ charge' = [charge EXCEPT ![k] = "charged"]
  /\ UNCHANGED <<takes, amount, balance>>

Return(k) ==
  /\ charge[k] = "held"
  /\ charge' = [charge EXCEPT ![k] = "returned"]
  /\ IF Pays /\ Metered(k) THEN Move(k, amount[k]) ELSE UNCHANGED balance
  /\ UNCHANGED <<takes, amount>>

\* Where nothing is paid back, a sweep may end any of the requests held.
Sweep(S) ==
  /\ ~Pays
  /\ \A k \in S : charge[k] = "held"
  /\ charge' = [k \in Keys |-> IF k \in S THEN "returned" ELSE charge[k]]
  /\ UNCHANGED <<takes, amount, balance>>

\* The operator sets the balance of a metered profile.
Grant(p, v) ==
  /\ balance[p] # None
  /\ balance' = [balance EXCEPT ![p] = v]
  /\ UNCHANGED <<takes, charge, amount>>

AccountNext ==
  \/ \E k \in Keys, x \in Amounts : Hold(k, x)
  \/ \E k \in Keys : Settle(k) \/ Return(k)
  \/ \E S \in SUBSET Keys : Sweep(S)
  \/ \E p \in Profiles, v \in Grants : Grant(p, v)

AccountSpec == AccountInit /\ [][AccountNext]_account
================================================================================
