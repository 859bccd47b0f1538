------------------------------- MODULE FxQuotes -------------------------------
(***************************************************************************)
(* Exchange rates and the payments that use them: snapshots and quotes     *)
(* (app/fx/service.py, app/fx/provider.py), the preview of a payment, the  *)
(* settlement of a payment in another currency                             *)
(* (app/obligations/settlement.py, service_v17.py), payments at the rate   *)
(* of the moment (app/obligations/service.py) and transfers between        *)
(* currencies (app/transfers/service.py).                                  *)
(*                                                                         *)
(* Amounts are counted in cents, rates are fractions.  An offer is a row   *)
(* of exchange_rates or fx_quotes: the table rounds its rate, while the    *)
(* session that inserts it goes on with the rate it computed.  The rate is *)
(* asked of an HTTP service with a timeout of seconds, so that asking and  *)
(* storing are one step; the rate and the time may change between steps.   *)
(* The locks of payments are those of Obligations; nothing here depends on *)
(* their order, and a payment is one step.                                 *)
(***************************************************************************)
EXTENDS Integers, Sequences, Functions

CONSTANTS
    Accounts,
    CurrencyOf,     \* the currency of each account and of each bill
    Opening,        \* the balance of each account
    Bills,          \* obligations
    Owed,           \* the open periods of each bill, oldest first: amounts
    Unit,           \* CURRENCY_MINIMUM_UNITS
    Markets,        \* the prices of a unit of Base the service may answer
    Base,           \* the currency the service prices, in cents of the other
    Scale,          \* the decimals of a stored rate, as a power
    MaxMoney,       \* the largest amount of a column
    Amounts,        \* what clients ask for
    Validity,       \* how long an offer is good for
    PreviewValidity,    \* and the quote of a preview
    Horizon,        \* bounds of a run: the clock,
    MaxOffers,      \* the offers
    MaxMoves        \* and the payments and transfers

Currencies == {CurrencyOf[x] : x \in Accounts \cup Bills}

ASSUME FxAssumption ==
    /\ CurrencyOf \in [Accounts \cup Bills -> Currencies]
    /\ Opening \in [Accounts -> Nat]
    /\ Owed \in [Bills -> Seq(Nat \ {0})]
    /\ Unit \in [Currencies -> Nat \ {0}]
    /\ Markets \subseteq Nat \ {0}
    /\ Base \in Currencies
    /\ \A c, d \in Currencies \ {Base} : c = d
    /\ {Scale, MaxMoney, Validity, PreviewValidity} \subseteq Nat \ {0}
    /\ PreviewValidity <= Validity
    /\ Amounts \subseteq Nat \ {0}
    /\ \A price \in Markets : price <= Scale

VARIABLES
    now,        \* the clock
    market,     \* the price the service answers
    offers,     \* the rows of exchange_rates and fx_quotes, by id
    balance,    \* accounts.balance
    paid,       \* what each period was paid
    moves       \* what was debited and applied, in order, and at which price

fxVars == <<now, market, offers, balance, paid, moves>>

FxInit ==
    /\ now = 0
    /\ market \in Markets
    /\ offers = <<>>
    /\ balance = Opening
    /\ paid = [b \in Bills |-> [n \in DOMAIN Owed[b] |-> 0]]
    /\ moves = <<>>

-----------------------------------------------------------------------------
(* Decimals *)

HalfUp(n, d) == (2 * n + d) \div (2 * d)

HalfEven(n, d) ==
    LET half == HalfUp(n, d) IN
    IF (2 * n) % (2 * d) = d /\ half % 2 = 1 THEN half - 1 ELSE half

Distance(x, y) == IF x < y THEN y - x ELSE x - y

Fraction(n, d) == [num |-> n, den |-> d]

\* round_to_minimum_unit of amount * rate and of amount / rate.
Times(x, rate, c) == HalfUp(x * rate.num, rate.den * Unit[c]) * Unit[c]

Over(x, rate, c) == HalfUp(x * rate.den, rate.num * Unit[c]) * Unit[c]

\* Numeric(18, 8), on the way into the table.
Stored(rate) == Fraction(HalfUp(rate.num * Scale, rate.den), Scale)

-----------------------------------------------------------------------------
(* Rates *)

\* get_fx_rate, of the preview and of the first payments: never rounded.
ExactRate(from) == IF from = Base THEN Fraction(market, 1) ELSE Fraction(1, market)

\* FxRateProvider.get_rate: the inverse is rounded as the table will.
ProviderRate(from) ==
    IF from = Base THEN Fraction(market, 1)
    ELSE Fraction(HalfEven(Scale, market), Scale)

Offer(kind, from, to, rate, source, target, life) ==
    [kind |-> kind, from |-> from, to |-> to, rate |-> rate, source |-> source,
     target |-> target, price |-> market, made |-> now, expires |-> now + life]

AddOffer(o) ==
    /\ Len(offers) < MaxOffers
    /\ offers' = Append(offers, o)
    /\ UNCHANGED <<now, market, balance, paid, moves>>

Snapshot(from, to) ==
    /\ from # to
    /\ AddOffer(Offer("snapshot", from, to, ProviderRate(from), 0, 0, Validity))

\* create_quote: the target is rounded to cents, whatever its currency.
Quote(from, to, x) ==
    LET rate == ProviderRate(from) IN
    /\ from # to
    /\ AddOffer(Offer("quote", from, to, rate, x, HalfUp(x * rate.num, rate.den), Validity))

-----------------------------------------------------------------------------
(* Settlements *)

Settlement(source, applied) == [source |-> source, applied |-> applied]

\* The same, for a currency pair that need not be the offer's: a mutant.
SnapshotFitsAny(o, rate, a, b, x) ==
    /\ o.kind = "snapshot"
    /\ now < o.expires
    /\ Over(x, rate, CurrencyOf[a]) \in 1 .. MaxMoney

SnapshotFits(o, rate, a, b, x) ==
    /\ o.kind = "snapshot"
    /\ now < o.expires
    /\ o.from = CurrencyOf[a] /\ o.to = CurrencyOf[b]
    /\ Over(x, rate, CurrencyOf[a]) \in 1 .. MaxMoney

\* Either end of the pair may have been the one that was rounded.
Consistent(o, rate) ==
    \/ o.target = Times(o.source, rate, o.to)
    \/ o.source = Over(o.target, rate, o.from)

\* A thousandth, or a unit of the obligation's currency.
Tolerated(o, b, x) ==
    \/ 1000 * Distance(o.target, x) <= x
    \/ Distance(o.target, x) <= Unit[CurrencyOf[b]]

QuoteFits(o, rate, a, b, x) ==
    /\ o.kind \in {"quote", "preview"}
    /\ now < o.expires
    /\ o.from = CurrencyOf[a] /\ o.to = CurrencyOf[b]
    /\ rate.num > 0
    /\ o.source \in 1 .. MaxMoney /\ o.target \in 1 .. MaxMoney
    /\ Consistent(o, rate)
    /\ Tolerated(o, b, x)

\* resolve_settlement, with the rate as the session sees it.
Fits(o, rate, a, b, x) == SnapshotFits(o, rate, a, b, x) \/ QuoteFits(o, rate, a, b, x)

Settled(o, rate, a, x) ==
    IF o.kind = "snapshot" THEN Settlement(Over(x, rate, CurrencyOf[a]), x)
    ELSE Settlement(o.source, o.target)

-----------------------------------------------------------------------------
(* Payments *)

Left(b, n) == Owed[b][n] - paid[b][n]

\* The oldest periods first: what each takes of the applied amount.
AppliedSlices(b, x) ==
    [n \in DOMAIN Owed[b] |->
        LET earlier == SumFunction([m \in 1 .. n - 1 |-> Left(b, m)])
            left == IF x > earlier THEN x - earlier ELSE 0
        IN  IF left < Left(b, n) THEN left ELSE Left(b, n)]

Paying(slices) == {n \in DOMAIN slices : slices[n] > 0}

SourceSlicesRounded(source, slices) ==      \* a mutant: every slice is rounded
    [n \in DOMAIN slices |-> HalfUp(source * slices[n], SumFunction(slices))]

\* reconcile_fifo_source_allocations: the last one takes the rest.
SourceSlices(source, slices) ==
    LET part == [n \in DOMAIN slices |-> HalfUp(source * slices[n], SumFunction(slices))]
        last == CHOOSE n \in Paying(slices) : \A m \in Paying(slices) : m <= n
    IN  [part EXCEPT ![last] = source - SumFunction([m \in 1 .. last - 1 |-> part[m]])]

Move(a, b, price, made, s, slices, sources) ==
    [from |-> a, to |-> b, price |-> price, made |-> made, at |-> now,
     source |-> s.source, applied |-> s.applied, slices |-> slices, sources |-> sources]

\* The debit of an account and its record, under a rate made at some time.
Debit(a, b, price, made, s, slices) ==
    LET sources == SourceSlices(s.source, slices) IN
    /\ Len(moves) < MaxMoves
    /\ s.source <= balance[a]
    /\ \A n \in Paying(slices) : sources[n] > 0
    /\ balance' = [balance EXCEPT ![a] = @ - s.source]
    /\ paid' = [paid EXCEPT ![b] = [n \in DOMAIN @ |-> @[n] + slices[n]]]
    /\ moves' = Append(moves, Move(a, b, price, made, s, slices, sources))
    /\ UNCHANGED <<now, market, offers>>

OnlyTo(b, n, x) == [m \in DOMAIN Owed[b] |-> IF m = n THEN x ELSE 0]

\* pay_specific_period, on the row the table kept.
PayPeriod(a, b, n, x, i) ==
    LET o == offers[i]
        s == Settled(o, Stored(o.rate), a, x)
    IN  /\ CurrencyOf[a] # CurrencyOf[b]
        /\ Fits(o, Stored(o.rate), a, b, x)
        /\ s.applied <= Left(b, n)
        /\ Debit(a, b, o.price, o.made, s, OnlyTo(b, n, s.applied))

\* pay_obligation_fifo: over the open periods.
PayFifo(a, b, x, i) ==
    LET o == offers[i]
        s == Settled(o, Stored(o.rate), a, x)
    IN  /\ CurrencyOf[a] # CurrencyOf[b]
        /\ Fits(o, Stored(o.rate), a, b, x)
        /\ s.applied <= SumFunction([n \in DOMAIN Owed[b] |-> Left(b, n)])
        /\ Debit(a, b, o.price, o.made, s, AppliedSlices(b, s.applied))

\* The first API asks for the rate when it pays.
PayNow(a, b, n, x) ==
    LET s == Settlement(Over(x, ExactRate(CurrencyOf[a]), CurrencyOf[a]), x) IN
    /\ CurrencyOf[a] # CurrencyOf[b]
    /\ s.source \in 1 .. MaxMoney
    /\ x <= Left(b, n)
    /\ Debit(a, b, market, now, s, OnlyTo(b, n, x))

(***************************************************************************)
(* pay_preview_specific_period: a quote for the amount, kept only if the   *)
(* settlement, which finds it in the session, accepts it.                  *)
(***************************************************************************)
Previewed(a, b, x) ==
    LET from == CurrencyOf[a]
        rate == ExactRate(from)
    IN  Offer("preview", from, CurrencyOf[b], rate, Over(x, rate, from), x, PreviewValidity)

Preview(a, b, n, x) ==
    LET o == Previewed(a, b, x) IN
    /\ CurrencyOf[a] # CurrencyOf[b]
    /\ x <= Left(b, n)
    /\ o.source \in 1 .. MaxMoney
    /\ Fits(o, o.rate, a, b, x)
    /\ o.source <= balance[a]
    /\ AddOffer(o)

\* create_transfer: what arrives is rounded to cents, within the column.
Exchange(a, c, x, i) ==
    LET o == offers[i]
        rate == Stored(o.rate)
        arrives == HalfUp(x * rate.num, rate.den)
    IN  /\ CurrencyOf[a] # CurrencyOf[c]
        /\ Len(moves) < MaxMoves
        /\ o.kind = "snapshot"
        /\ now < o.expires
        /\ o.from = CurrencyOf[a] /\ o.to = CurrencyOf[c]
        /\ x <= balance[a]
        /\ arrives \in 1 .. MaxMoney
        /\ balance' = [balance EXCEPT ![a] = @ - x, ![c] = @ + arrives]
        /\ moves' = Append(moves,
             Move(a, c, o.price, o.made, Settlement(x, arrives), <<arrives>>, <<x>>))
        /\ UNCHANGED <<now, market, offers, paid>>

Tick ==
    /\ now < Horizon
    /\ now' = now + 1
    /\ market' \in Markets
    /\ UNCHANGED <<offers, balance, paid, moves>>

FxNext ==
    \/ \E from, to \in Currencies :
         \/ Snapshot(from, to)
         \/ \E x \in Amounts : Quote(from, to, x)
    \/ \E a \in Accounts, b \in Bills, x \in Amounts :
         \/ \E i \in DOMAIN offers : PayFifo(a, b, x, i)
         \/ \E n \in DOMAIN Owed[b] :
              \/ Preview(a, b, n, x)
              \/ PayNow(a, b, n, x)
              \/ \E i \in DOMAIN offers : PayPeriod(a, b, n, x, i)
    \/ \E a, c \in Accounts, x \in Amounts, i \in DOMAIN offers : Exchange(a, c, x, i)
    \/ Tick

FxSpec == FxInit /\ [][FxNext]_fxVars

=============================================================================
