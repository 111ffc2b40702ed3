----------------------------- MODULE Inflation -----------------------------
(***************************************************************************)
(* pallets/inflation: root starts the inflation at a relay block, possibly *)
(* in the past; from then on every parachain block deposits at most one    *)
(* interval's inflation to the treasury and, when a year of relay blocks   *)
(* has passed, computes the amount anew from the total issuance.           *)
(***************************************************************************)
EXTENDS Integers

CONSTANTS
  Year,           \* YEAR, in relay blocks
  Interval,       \* InflationBlockInterval, in relay blocks
  YearsUntilFlat, \* TOTAL_YEARS_UNTIL_FLAT
  StartPercent, EndPercent,
  Parts,          \* accuracy of a Perbill
  Starts,         \* arguments of start_inflation
  Changes,        \* changes of the issuance by the rest of the chain
  InitialIssuance,
  MaxRelayStep,   \* bound: relay blocks between two parachain blocks
  MaxRelay,       \* bound: last relay block
  MaxIssuance     \* bound: issuance that the rest of the chain grows to

ASSUME InflationAssumption ==
  /\ Year \in Nat \ {0} /\ Interval \in Nat \ {0} /\ YearsUntilFlat \in Nat \ {0}
  /\ EndPercent \in Nat /\ StartPercent \in Nat /\ EndPercent <= StartPercent
  /\ Parts \in Nat \ {0} /\ Starts \subseteq Nat /\ Changes \subseteq Int
  /\ InitialIssuance \in Nat /\ MaxRelayStep \in Nat /\ MaxRelay \in Nat /\ MaxIssuance \in Nat

VARIABLES
  relay,                     \* OnInitializeBlockNumberProvider
  StartBlock, NextInflationBlock, NextRecalculationBlock,
  BlockInflation, StartingYearTotalIssuance,
  total_issuance,
  deposited                  \* what the treasury got from this pallet

schedule == <<StartBlock, NextInflationBlock, NextRecalculationBlock>>
inflationVars == <<relay, StartBlock, NextInflationBlock, NextRecalculationBlock, BlockInflation,
                   StartingYearTotalIssuance, total_issuance, deposited>>

InflationInit ==
  /\ relay \in 1..MaxRelay
  /\ StartBlock = 0 /\ NextInflationBlock = 0 /\ NextRecalculationBlock = 0
  /\ BlockInflation = 0 /\ StartingYearTotalIssuance = 0
  /\ total_issuance = InitialIssuance /\ deposited = 0

-----------------------------------------------------------------------------
(* A Perbill made of p / q rounds down and is at most one; multiplying by  *)
(* a Perbill rounds to the nearest integer, halves down.                   *)

FromRational(p, q) == IF p >= q THEN Parts ELSE (p * Parts) \div q
PerbillTimes(parts, x) == (2 * x * parts + Parts - 1) \div (2 * Parts)
OnePercent(x) == PerbillTimes(FromRational(1, 100), x)

AlwaysDeclining(year) ==
  FromRational(Interval * (StartPercent * YearsUntilFlat - year * (StartPercent - EndPercent)),
               Year * YearsUntilFlat)
Rate(year) ==
  IF year <= YearsUntilFlat
  THEN AlwaysDeclining(year)
  ELSE FromRational(Interval * EndPercent, Year)

InflationFor(year, issuance) == PerbillTimes(Rate(year), OnePercent(issuance))

RecalculateInflation(start, at) ==
  /\ BlockInflation' = InflationFor((at - start) \div Year, total_issuance)
  /\ StartingYearTotalIssuance' = total_issuance
  /\ NextRecalculationBlock' = at + Year

DepositInflation ==
  /\ total_issuance' = total_issuance + BlockInflation'
  /\ deposited' = deposited + BlockInflation'

-----------------------------------------------------------------------------
NotStarted == StartBlock = 0

StartInflation(start) ==
  /\ NotStarted
  /\ StartBlock' = start
  /\ RecalculateInflation(start, start)
  /\ NextInflationBlock' = start + Interval
  /\ DepositInflation
  /\ UNCHANGED relay

\* on_initialize, at the relay block that the parachain block is built on.
SkipMissed == NextInflationBlock + Interval * (1 + (relay' - NextInflationBlock) \div Interval)
NextInterval == NextInflationBlock + Interval
OnlyOnTime == NextInflationBlock # 0 /\ relay' = NextInflationBlock
InflationDue == NextInflationBlock # 0 /\ relay' >= NextInflationBlock
RecalculationBlock == NextRecalculationBlock
YearIsOver == relay' >= NextRecalculationBlock

OnInitialize(step) ==
  /\ relay + step <= MaxRelay
  /\ relay' = relay + step
  /\ UNCHANGED StartBlock
  /\ IF InflationDue
     THEN /\ IF YearIsOver
             THEN RecalculateInflation(StartBlock, RecalculationBlock)
             ELSE UNCHANGED <<BlockInflation, StartingYearTotalIssuance, NextRecalculationBlock>>
          /\ DepositInflation
          /\ NextInflationBlock' = NextInterval
     ELSE UNCHANGED <<NextInflationBlock, NextRecalculationBlock, BlockInflation,
                      StartingYearTotalIssuance, total_issuance, deposited>>

\* Collection fees, rewards, slashes and burns outside this pallet.
ChangeIssuance(d) ==
  /\ total_issuance + d \in 1..MaxIssuance
  /\ total_issuance' = total_issuance + d
  /\ UNCHANGED <<relay, schedule, BlockInflation, StartingYearTotalIssuance, deposited>>

SomeInflationBlock == \E step \in 0..MaxRelayStep : OnInitialize(step)

InflationNext ==
  \/ \E start \in Starts : StartInflation(start)
  \/ SomeInflationBlock
  \/ \E d \in Changes : ChangeIssuance(d)

InflationSpec == InflationInit /\ [][InflationNext]_inflationVars

\* Parachain blocks keep coming; the relay chain may stand still meanwhile.
InflationFairSpec == InflationSpec /\ WF_inflationVars(SomeInflationBlock)

-----------------------------------------------------------------------------
(* Properties.                                                             *)

Started == NextInflationBlock # 0
RateYear == (NextRecalculationBlock - StartBlock) \div Year - 1

\* The amount deposited per interval is the one the schedule gives for the year in
\* force and the issuance at its start, and the schedule stays on the grids of years
\* and intervals that the start block fixed.  It is never negative: the percentage is
\* subtracted in unsigned arithmetic and has to stop declining.
RateOfSchedule ==
  Started =>
    /\ BlockInflation >= 0
    /\ BlockInflation = InflationFor(RateYear, StartingYearTotalIssuance)
    /\ (NextRecalculationBlock - StartBlock) % Year = 0 /\ RateYear >= 0
    /\ (NextInflationBlock - StartBlock) % Interval = 0

\* No interval is paid twice and none is left out: inflation, once started, advances by
\* one interval for every deposit.
EveryIntervalOnce ==
  [][Started => \/ NextInflationBlock' = NextInflationBlock + Interval
                \/ NextInflationBlock' = NextInflationBlock /\ deposited' = deposited]_inflationVars

\* "Inflation start block can be backdated and will catch up": one interval is paid per
\* parachain block, during which the relay chain advances by far less, so that the
\* deposits reach the current relay block.  Here the relay chain stops at MaxRelay.
CatchesUp == Started ~> (NextInflationBlock > relay)
=============================================================================
