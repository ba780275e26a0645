----------------------------- MODULE OracleFetch -----------------------------
(***************************************************************************)
(* How a reading is made from an upstream answer: fetchRainfallReading,    *)
(* fetchTemperatureReading and fetchFlightDelayReading with the back-off   *)
(* on 429, and what persistReading lets through (oracle/oracle.service.ts).*)
(*                                                                         *)
(* One key: a month of weather, or a flight of day 1. An answer is made on *)
(* one day, from observations up to that day and forecasts after it, and   *)
(* may be read on a later one. The circuit breaker around the request is   *)
(* OracleBreaker, the write ReadingBuffer.                                 *)
(***************************************************************************)
EXTENDS Integers, FiniteSets

CONSTANTS
  Days,        \* days of the month
  Kinds,       \* the kinds of reading checked
  Values,      \* values an upstream may report
  Bounds,      \* SANITY_BOUNDS: per kind, [min, max]
  Scale,       \* 10^7 in the code
  MaxRetries,  \* attempts on 429, 3 in the code
  Null         \* no value

ASSUME FetchAssumption ==
  /\ Days \in Nat \ {0} /\ Scale \in Nat \ {0} /\ MaxRetries \in Nat \ {0}
  /\ Values \subseteq Int /\ Null \notin Int
  /\ Kinds \subseteq {"rainfall", "temperature", "delay"}
  /\ Bounds \in [Kinds -> [min: Int, max: Int]]

VARIABLES
  kind,
  day,         \* the clock: 0 is before the month, Days + 1 after it
  call,        \* [pc, today, attempt, answer]
  row          \* the row stored, or None

fetchVars == <<kind, day, call, row>>

None == [none |-> TRUE]
Month == 1..Days
IdleCall == [pc |-> "idle", today |-> 0, attempt |-> 0, answer |-> None]

\* An answer carries a value or null for each day and a date for each of them
\* or for none, or it has another structure.
AnswersMadeOn(d) ==
  [ok: {TRUE}, values: [Month -> Values \cup {Null}], dated: BOOLEAN, made: {d}]
    \cup {[ok |-> FALSE, made |-> d]}

FetchInit ==
  /\ kind \in Kinds
  /\ day \in 0..(Days + 1)
  /\ call = IdleCall
  /\ row = None

-----------------------------------------------------------------------------
\* Rounding, half up, of a quotient: Math.round.
Round(a, b) == (2 * a + b) \div (2 * b)

\* assertWithinBounds, of a quotient.
WithinBounds(a, b) == Bounds[kind].min * b <= a /\ a <= Bounds[kind].max * b

\* The mutant: "today" is the day the answer is read.
Today_OnRead(c) == day

\* "today" is taken before the request is sent.
Today(c) == c.today

\* The days that count: a value that is not null, not dated after today.
Observed(c) == {d \in Month: c.answer.values[d] # Null /\ (c.answer.dated => d <= Today(c))}

\* The values of the days in S, summed day after day.
RunningSum(v) ==
  LET sum[d \in 0..Days] == IF d = 0 THEN 0 ELSE sum[d - 1] + v[d] IN sum
SumOver(values, S) ==
  RunningSum([d \in Month |-> IF d \in S THEN values[d] ELSE 0])[Days]

Total(c) == SumOver(c.answer.values, Observed(c))

\* A month of rain is its total, a month of temperatures their average, 0 for
\* none. Every day and the outcome must be plausible, or the call throws.
Divisor(c) ==
  IF kind = "temperature" /\ Observed(c) # {} THEN Cardinality(Observed(c)) ELSE 1

WeatherThrows(c) ==
  \/ ~c.answer.ok
  \/ \E d \in Observed(c): ~WithinBounds(c.answer.values[d], 1)
  \/ (kind = "rainfall" \/ Observed(c) # {}) /\ ~WithinBounds(Total(c), Divisor(c))

WeatherReading(c) ==
  [value |-> Round(Total(c) * Scale, Divisor(c)),
   confidence |-> Round(Cardinality(Observed(c)) * 95, Days),
   of |-> c.answer]

\* A flight's delay: unknown is NO_DATA, never a delay of 0. (A body that is no
\* object throws instead; either way nothing is stored.)
Unknown(c) == ~c.answer.ok \/ c.answer.values[1] = Null

FlightThrows(c) == ~Unknown(c) /\ ~WithinBounds(c.answer.values[1], 1)

FlightReading(c) ==
  IF Unknown(c) THEN [value |-> 0, confidence |-> 0, of |-> c.answer]
  ELSE [value |-> c.answer.values[1] * Scale, confidence |-> 95, of |-> c.answer]

-----------------------------------------------------------------------------
\* A fetch starts: the request names the month, past or not. A later row would
\* replace the first one, so a behaviour is followed up to its first row.
StartFetch ==
  /\ call.pc = "idle" /\ row = None
  /\ call' = [pc |-> "asked", today |-> day, attempt |-> 1, answer |-> None]
  /\ UNCHANGED <<kind, day, row>>

\* executeWithRateLimitBackoff: a 429 is asked again after a delay, the last
\* one is thrown.
RateLimited ==
  /\ call.pc = "asked"
  /\ call' = IF call.attempt < MaxRetries THEN [call EXCEPT !.attempt = @ + 1] ELSE IdleCall
  /\ UNCHANGED <<kind, day, row>>

\* Any other failure is thrown at once.
Failed ==
  /\ call.pc = "asked"
  /\ call' = IdleCall
  /\ UNCHANGED <<kind, day, row>>

\* The upstream makes its answer.
Answer ==
  /\ call.pc = "asked"
  /\ \E a \in AnswersMadeOn(day): call' = [call EXCEPT !.pc = "answered", !.answer = a]
  /\ UNCHANGED <<kind, day, row>>

\* persistReading: what carries no data is not stored.
Persisted(r) == IF r.confidence > 0 THEN r ELSE row

ReadWeather ==
  /\ call.pc = "answered"
  /\ row' = IF WeatherThrows(call) THEN row ELSE Persisted(WeatherReading(call))
  /\ call' = IdleCall
  /\ UNCHANGED <<kind, day>>

\* The answer of fetchRainfallReading is read, and the reading handed to
\* persistReading.
ReadRainfall == kind = "rainfall" /\ ReadWeather

\* The same for fetchTemperatureReading, a copy of it but for the average.
ReadTemperature == kind = "temperature" /\ ReadWeather

\* The same for fetchFlightDelayReading.
ReadFlight ==
  /\ call.pc = "answered" /\ kind = "delay"
  /\ row' = IF FlightThrows(call) THEN row ELSE Persisted(FlightReading(call))
  /\ call' = IdleCall
  /\ UNCHANGED <<kind, day>>

DayTick ==
  /\ day < Days + 1
  /\ day' = day + 1
  /\ UNCHANGED <<kind, call, row>>

FetchNext ==
  \/ StartFetch \/ RateLimited \/ Failed \/ Answer
  \/ ReadRainfall \/ ReadTemperature \/ ReadFlight \/ DayTick

FetchSpec == FetchInit /\ [][FetchNext]_fetchVars

-----------------------------------------------------------------------------
\* The row r says what was observed: it is made from at least one plausible
\* value, and from exactly the known values up to some day t that had come when
\* the upstream answered.
SaysObserved(r, t) ==
  LET known == {d \in Month: d <= t /\ r.of.values[d] # Null}
      sum == SumOver(r.of.values, known)
      n == IF kind = "temperature" THEN Cardinality(known) ELSE 1 IN
  /\ known # {}
  /\ \A d \in known: Bounds[kind].min <= r.of.values[d] /\ r.of.values[d] <= Bounds[kind].max
  /\ 2 * n * r.value <= 2 * Scale * sum + n /\ 2 * Scale * sum < 2 * n * r.value + n
  /\ kind # "delay" => 2 * (95 * Cardinality(known) - Days * r.confidence) \in (0 - Days)..(Days - 1)

\* A stored reading is an observation: no forecast is counted as rain that fell,
\* although the answer was asked for, made and read on different days; a gap or
\* an unknown delay is not stored as a 0; and its confidence is the share of the
\* month that was known. Answers without dates are outside it.
StoredIsObserved == row # None =>
  /\ row.of.ok
  /\ IF kind = "delay" THEN row.of.values[1] # Null /\ row.value = row.of.values[1] * Scale
     ELSE row.of.dated => \E t \in 0..row.of.made: SaysObserved(row, t)
=============================================================================
