--------------------------- MODULE PaymentLedger ---------------------------
(***************************************************************************)
(* What paying for a project promises, whatever the gateway, the handlers  *)
(* and the listener do in between: money comes first, an investment stands *)
(* for money that was paid, and a project is credited with an investment   *)
(* at most once.  `Copies' is how many investments one payment may become; *)
(* the code means it to be 1.                                              *)
(***************************************************************************)
EXTENDS Naturals

CONSTANTS Tx, Copies

VARIABLES
    paid,       \* transactions whose money was taken
    invested,   \* [Tx -> investments recorded for the payment]
    raised      \* [Tx -> times its amount was added to the project]

vars == <<paid, invested, raised>>

Init ==
    /\ paid = {}
    /\ invested = [t \in Tx |-> 0]
    /\ raised = [t \in Tx |-> 0]

Pay(t) ==
    /\ t \notin paid
    /\ paid' = paid \cup {t}
    /\ UNCHANGED <<invested, raised>>

Invest(t) ==
    /\ t \in paid /\ invested[t] < Copies
    /\ invested' = [invested EXCEPT ![t] = @ + 1]
    /\ UNCHANGED <<paid, raised>>

Raise(t) ==
    /\ raised[t] < invested[t]
    /\ raised' = [raised EXCEPT ![t] = @ + 1]
    /\ UNCHANGED <<paid, invested>>

Next == \E t \in Tx : Pay(t) \/ Invest(t) \/ Raise(t)

Spec == Init /\ [][Next]_vars
=============================================================================
