----------------------------- MODULE FxProperties -----------------------------
(***************************************************************************)
(* What FxQuotes must satisfy.                                             *)
(***************************************************************************)
EXTENDS FxQuotes, FiniteSets

(***************************************************************************)
(* Money changes currency at a price the service answered, no longer ago   *)
(* than an offer is good for, in the direction of the payment, and what is *)
(* debited and what is applied differ by half a minimum unit of each       *)
(* currency, beyond the error of a stored rate: wherever the rounding was  *)
(* made (in the quote, in the settlement, in the transfer), in whichever   *)
(* direction, and although a quote replaces the amount that was asked for. *)
(***************************************************************************)
FollowsPrice(m) ==
    LET from == CurrencyOf[m.from]
        to == CurrencyOf[m.to]
    IN  IF from = Base
        THEN 2 * Distance(m.source * m.price, m.applied) <= Unit[from] * m.price + Unit[to]
        ELSE 2 * Distance(m.source, m.applied * m.price)
               <= 2 * Unit[from] + Unit[to] * m.price + (m.source * m.price) \div Scale

DebitsFollowThePrice ==
    \A m \in Range(moves) : m.at - m.made < Validity /\ FollowsPrice(m)

(***************************************************************************)
(* A payment over several periods debits and applies the sum of its        *)
(* slices, all of them positive and each within a cent per slice of its    *)
(* share of the debit, and no period is paid more than it owes, although   *)
(* the quote that decides may apply more than was asked for.               *)
(***************************************************************************)
SharesFairly(m) ==
    /\ SumFunction(m.slices) = m.applied
    /\ SumFunction(m.sources) = m.source
    /\ \A n \in Paying(m.slices) :
         /\ m.sources[n] > 0
         /\ Distance(m.sources[n] * m.applied, m.source * m.slices[n])
              <= m.applied * Cardinality(Paying(m.slices))

SplitsAddUp ==
    /\ \A m \in Range(moves) : SharesFairly(m)
    /\ \A b \in Bills : \A n \in DOMAIN Owed[b] : paid[b][n] <= Owed[b][n]

-----------------------------------------------------------------------------
(* What the documents say, and a rounded rate breaks *)

(***************************************************************************)
(* A payment that was previewed can be made with the quote of the preview  *)
(* while that is good: the settlement accepts the amount it was made for.  *)
(***************************************************************************)
PreviewedQuoteSettles ==
    \A i \in DOMAIN offers, a \in Accounts, b \in Bills :
        LET o == offers[i] IN
        o.kind = "preview" /\ o.from = CurrencyOf[a] /\ o.to = CurrencyOf[b] /\ now < o.expires
            => Fits(o, Stored(o.rate), a, b, o.target)

=============================================================================
