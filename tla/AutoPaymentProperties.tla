------------------------- MODULE AutoPaymentProperties -------------------------
(***************************************************************************)
(* What AutoPayments must satisfy, beside the properties of Obligations.   *)
(***************************************************************************)
EXTENDS AutoPayments, ObligationProperties

(***************************************************************************)
(* A period has an automatic payment exactly when it has a succeeded run,  *)
(* whatever was killed, raised or recorded by the session that writes      *)
(* failures down; and it was paid entirely.                                *)
(***************************************************************************)
RunsMatchPayments ==
    \A o \in Obligations : \A n \in Numbers :
        /\ n \in wins[o] <=>
             \E a \in Accounts :
                LET r == AutoRequest(o, n, a) IN KeyOf(r) \in Keys /\ recorded[KeyOf(r)] = r
        /\ n \in wins[o] => obligation[o].periods[n].status = "paid"

(***************************************************************************)
(* The owner's consent: an automatic payment takes money only from the     *)
(* account of a configuration that is enabled when it commits, for a       *)
(* period that is due, and never before an older one that is open; a       *)
(* configuration disabled or moved to another account is obeyed at once.   *)
(***************************************************************************)
AutoPaysWithConsent ==
    [][\A o \in Obligations : \A n \in Numbers :
         n \in wins'[o] \ wins[o] =>
            /\ Enabled(o)
            /\ \A a \in Accounts : balance'[a] # balance[a] => a = config[o].acct
            /\ DueOf(o, n) <= today
            /\ \A m \in DueOn(o, obligation[o], today) : n <= m]_autoVars

(***************************************************************************)
(* The oldest due period of an obligation with an enabled configuration is *)
(* paid, if its amount is defined and its account can afford it: cron      *)
(* starts a processor every day, and neither other owners' failures, kills *)
(* nor a run that cannot be inserted stop that for ever.                   *)
(***************************************************************************)
CanBePaid(o, n) ==
    /\ Enabled(o) /\ obligation[o].status = "active"
    /\ n \in DueOn(o, obligation[o], today)
    /\ \A m \in DueOn(o, obligation[o], today) : n <= m
    /\ obligation[o].periods[n].status \in Payable
    /\ open[config[o].acct]
    /\ balance[config[o].acct] - Reserve[config[o].acct] >= Remaining(obligation[o], n)

\* The last of the numbers is that of a period ahead of the calendar's last day.
DueIsPaid ==
    \A o \in Obligations : \A n \in 1 .. Horizon \div Length + 1 :
        CanBePaid(o, n) ~> ~CanBePaid(o, n)

=============================================================================
