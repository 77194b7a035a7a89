----------------------------- MODULE IndexToken ------------------------------
(***************************************************************************)
(* What a launch promises of its index tokens, without scripts, blocks and *)
(* contracts: each Set is registered, then opened for issuance; it then    *)
(* holds exactly one basket of components for each token issued, takes the *)
(* basket on issuance and gives it back on redemption; and once its        *)
(* components have been edited by hand it no longer redeems.               *)
(***************************************************************************)
EXTENDS Naturals

CONSTANTS
    SetTokens,      \* the Sets, in any order
    Tokens,         \* the components
    Basket          \* how much of each component, a number, backs one index token

VARIABLES stage, supply, vault

tokenVars == <<stage, supply, vault>>

Init ==
    /\ stage = [s \in SetTokens |-> "absent"]
    /\ supply = [s \in SetTokens |-> 0]
    /\ vault = [s \in SetTokens |-> [c \in Tokens |-> 0]]

Advance(s, from, to) == stage[s] = from /\ stage' = [stage EXCEPT ![s] = to]

Register(s) == Advance(s, "absent", "registered") /\ UNCHANGED <<supply, vault>>

Open(s) == Advance(s, "registered", "open") /\ UNCHANGED <<supply, vault>>

Issue(s) ==
    /\ stage[s] = "open"
    /\ supply' = [supply EXCEPT ![s] = @ + 1]
    /\ vault' = [vault EXCEPT ![s] = [c \in Tokens |-> @[c] + Basket[c]]]
    /\ UNCHANGED stage

Redeem(s) ==
    /\ stage[s] = "open" /\ supply[s] > 0
    /\ supply' = [supply EXCEPT ![s] = @ - 1]
    /\ vault' = [vault EXCEPT ![s] = [c \in Tokens |-> @[c] - Basket[c]]]
    /\ UNCHANGED stage

\* The supply stands still; what the vault then holds is the manager's business.
Edit(s) ==
    /\ stage[s] \in {"open", "edited"}
    /\ stage' = [stage EXCEPT ![s] = "edited"]
    /\ vault' = [vault EXCEPT ![s] = vault'[s]]
    /\ UNCHANGED supply

Next ==
    \E s \in SetTokens : Register(s) \/ Open(s) \/ Issue(s) \/ Redeem(s) \/ Edit(s)

Spec == Init /\ [][Next]_tokenVars
==============================================================================
