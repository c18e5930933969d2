----------------------------- MODULE CodeGrant ------------------------------
(***************************************************************************)
(* What the authorization-code grant promises, without HTTP, clocks or     *)
(* maps: a code is bound to one sign-in when it is minted, is spent by one *)
(* redemption at most, and turns into tokens for that sign-in or is lost   *)
(* (it expired, its signature failed, the process died).                   *)
(***************************************************************************)
CONSTANTS Codes, Bindings, None

VARIABLES
    stage,      \* how far each code has come
    binding,    \* the sign-in each code was minted for
    granted     \* the pairs <<code, sign-in>> tokens were delivered for

vars == <<stage, binding, granted>>

Init ==
    /\ stage = [code \in Codes |-> "fresh"]
    /\ binding = [code \in Codes |-> None]
    /\ granted = {}

Mint(code, signIn) ==
    /\ stage[code] = "fresh"
    /\ stage' = [stage EXCEPT ![code] = "live"]
    /\ binding' = [binding EXCEPT ![code] = signIn]
    /\ UNCHANGED granted

Spend(code) ==
    /\ stage[code] = "live"
    /\ stage' = [stage EXCEPT ![code] = "spent"]
    /\ UNCHANGED <<binding, granted>>

Grant(code) ==
    /\ stage[code] = "spent"
    /\ stage' = [stage EXCEPT ![code] = "granted"]
    /\ granted' = granted \cup {<<code, binding[code]>>}
    /\ UNCHANGED binding

(* Several codes expire at one instant or are lost by one restart.         *)
Lose(lost) ==
    /\ \A code \in lost : stage[code] \in {"live", "spent"}
    /\ stage' = [code \in Codes |-> IF code \in lost THEN "void" ELSE stage[code]]
    /\ UNCHANGED <<binding, granted>>

Next ==
    \/ \E code \in Codes, signIn \in Bindings : Mint(code, signIn)
    \/ \E code \in Codes : Spend(code) \/ Grant(code)
    \/ \E lost \in SUBSET Codes : Lose(lost)

(* A spent code does not hang: it is granted or lost.                      *)
Settle(code) ==
    /\ stage[code] = "spent"
    /\ \/ Grant(code)
       \/ \E lost \in SUBSET Codes : code \in lost /\ Lose(lost)

Safety == Init /\ [][Next]_vars

Spec == Safety /\ \A code \in Codes : WF_vars(Settle(code))
=============================================================================
