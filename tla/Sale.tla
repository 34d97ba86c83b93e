-------------------------------- MODULE Sale ---------------------------------
(***************************************************************************)
(* What a paid call promises its buyer, with no middleware, handler, table *)
(* or chain: a call ends sold, given away or refused, in one step.  A sale *)
(* uses up the authorisation it was paid with, a wallet is given one call, *)
(* and a refused call never costs anything afterwards.                     *)
(***************************************************************************)
CONSTANTS Requests, Auths, Payer, NoAuth, FreeFirstCall

VARIABLES
    deal,       \* how each call ended: "open", "sold", "gift" or "refused"
    paidWith    \* the authorisation behind a sale or a gift

saleVars == <<deal, paidWith>>

Conclude(r, outcome, a) ==
    /\ deal[r] = "open"
    /\ deal' = [deal EXCEPT ![r] = outcome]
    /\ paidWith' = [paidWith EXCEPT ![r] = a]

Sell(r, a) ==
    /\ \A s \in Requests : deal[s] = "sold" => paidWith[s] # a
    /\ Conclude(r, "sold", a)

Give(r, a) ==
    /\ FreeFirstCall
    /\ \A s \in Requests : deal[s] = "gift" => Payer[paidWith[s]] # Payer[a]
    /\ Conclude(r, "gift", a)

Decline(r) == Conclude(r, "refused", NoAuth)

SaleInit ==
    /\ deal = [r \in Requests |-> "open"]
    /\ paidWith = [r \in Requests |-> NoAuth]

SaleNext ==
    \E r \in Requests :
        \/ Decline(r)
        \/ \E a \in Auths : Sell(r, a) \/ Give(r, a)

SaleSpec == SaleInit /\ [][SaleNext]_saleVars
=============================================================================
