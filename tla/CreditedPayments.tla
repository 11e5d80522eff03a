-------------------------- MODULE CreditedPayments --------------------------
(***************************************************************************)
(* What the billing code promises about money, with nothing of how: every  *)
(* payment the processor collected becomes credit once, and becomes credit *)
(* eventually.                                                             *)
(***************************************************************************)
EXTENDS Integers

CONSTANT Payments                    \* everything that can be paid

VARIABLES received,                  \* the payments that were collected
          credited                   \* the payments that are in the ledger

Init ==
    /\ received = {}
    /\ credited = {}

Receive(p) ==
    /\ p \notin received
    /\ received' = received \cup {p}
    /\ UNCHANGED credited

Credit(p) ==
    /\ p \in received \ credited
    /\ credited' = credited \cup {p}
    /\ UNCHANGED received

Next == \E p \in Payments : Receive(p) \/ Credit(p)

Spec ==
    /\ Init
    /\ [][Next]_<<received, credited>>
    /\ \A p \in Payments : WF_<<received, credited>>(Credit(p))
=============================================================================
