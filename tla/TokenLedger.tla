----------------------------- MODULE TokenLedger -----------------------------
(***************************************************************************)
(* What the token bridge promises for one token: a ledger of what accounts *)
(* hold on every chain, whatever contracts they hold it in.  A transfer    *)
(* takes its amount from one chain and pays it once on another, to its     *)
(* recipient or to the one who advanced it.  Nothing is said of escrow,    *)
(* representations or messages: module Bridge implements this.             *)
(***************************************************************************)
EXTENDS Naturals, Bags

CONSTANTS Domains, Accounts, Nobody, Transfers

VARIABLES
    holdings,  \* per chain and account, the amount held
    transit,   \* transfers under way: a bag of [to, recipient, amount]
    advanced   \* per transfer, who has paid its recipient in advance, or Nobody

ledger == <<holdings, transit, advanced>>

\* 5 basis points for the one who advances, rounded up
AfterFee(x) == (x * 9995) \div 10000

Paid(h, d, a, x) == [h EXCEPT ![d][a] = @ + x]

Init ==
    /\ holdings \in [Domains -> [Accounts -> Nat]]
    /\ transit = EmptyBag
    /\ advanced = [t \in Transfers |-> Nobody]

Depart(d, a, t) ==
    /\ UNCHANGED advanced
    /\ transit' = transit (+) SetToBag({t})
    /\ holdings[d][a] >= t.amount
    /\ holdings' = [holdings EXCEPT ![d][a] = @ - t.amount]

\* Whoever advances an amount must hold it, and nobody else has advanced it.
Advance(a, t) ==
    /\ advanced[t] = Nobody
    /\ advanced' = [advanced EXCEPT ![t] = a]
    /\ UNCHANGED transit
    /\ holdings[t.to][a] >= AfterFee(t.amount)
    /\ holdings' = Paid([holdings EXCEPT ![t.to][a] = @ - AfterFee(t.amount)],
                        t.to, t.recipient, AfterFee(t.amount))

Arrive(t) ==
    /\ transit' = transit (-) SetToBag({t})
    /\ IF advanced[t] = Nobody
       THEN holdings' = Paid(holdings, t.to, t.recipient, t.amount)
       ELSE holdings' = Paid(holdings, t.to, advanced[t], t.amount)
    /\ advanced' = [advanced EXCEPT ![t] = Nobody]

\* The message of a transfer is refused: whoever advanced it waits for an equal one.
Perish(t) ==
    /\ transit' = transit (-) SetToBag({t})
    /\ UNCHANGED <<holdings, advanced>>

Next ==
    \/ \E t \in BagToSet(transit'), d \in Domains, a \in Accounts : Depart(d, a, t)
    \/ \E a \in Accounts, t \in {s \in Transfers : s.recipient \in Accounts} : Advance(a, t)
    \/ \E t \in BagToSet(transit) : (t.recipient \in Accounts /\ Arrive(t)) \/ Perish(t)

Spec == Init /\ [][Next]_ledger

=============================================================================
