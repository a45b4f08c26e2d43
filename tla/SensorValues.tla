----------------------------- MODULE SensorValues -----------------------------
(***************************************************************************)
(* The conversions from what a sensor reports to the numbers of a          *)
(* HardwareMetrics.  A query that fails reports Failed; the Option its     *)
(* conversion returns is a natural number, or None.  Fractions are kept in *)
(* the unit named: tenths of a percent or of a degree, eighths of a degree.*)
(***************************************************************************)
EXTENDS Integers, FiniteSetsExt

None == -1
Failed == -1
MaxByte == 255
MaxWord == 65535

Or(option, base) == IF option = None THEN base ELSE option

Clamp_Wide(n, high) == IF n < 0 THEN 0 ELSE IF n > high + 1 THEN high + 1 ELSE n
\* clamp(0, high)
Clamp(n, high) == IF n < 0 THEN 0 ELSE IF n > high THEN high ELSE n

\* round() of a non-negative quotient
Rounded(n, d) == (2 * n + d) \div (2 * d)

\* Milliwatts of PDH or NVML, of which 0 is no reading.
Watts(mw) == IF mw > 0 THEN Clamp(Rounded(mw, 1000), MaxWord) ELSE None

\* A clock of PDH above 100 MHz, or of NVML above 0.
Clock(mhz, above) == IF mhz > above THEN Clamp(mhz, MaxWord) ELSE None

\* PDH's utility and NVML's temperature and utilization: any that is not negative.
Bounded(n, high) == IF n >= 0 THEN Clamp(n, high) ELSE None

\* CUR_TMP of the AMD register, in eighths of a degree; the hardware shifts it by 49
\* degrees when it says so in RANGE_SEL, or by TJ_SEL = 3.
Decode_RangeOnly(reg) ==
  LET temp == reg.cur_tmp - (IF reg.range_sel THEN 392 ELSE 0)
  IN  IF temp \in 8 .. 1000 THEN Clamp(Rounded(temp, 8), MaxByte) ELSE None
Decode(reg) ==
  LET temp == reg.cur_tmp - (IF reg.range_sel \/ reg.tj_sel = 3 THEN 392 ELSE 0)
  IN  IF temp \in 8 .. 1000 THEN Clamp(Rounded(temp, 8), MaxByte) ELSE None

\* What the register holds at a die temperature, under either encoding.
Registers(die) ==
  {reg \in [cur_tmp : {die, die + 392} \cap 0 .. 2047, range_sel : BOOLEAN, tj_sel : {0, 3}] :
     reg.cur_tmp = IF reg.range_sel \/ reg.tj_sel = 3 THEN die + 392 ELSE die}

\* get_temp on sysinfo: the hottest of the components with a CPU's label, in tenths.
BestTemp(components) == Clamp(Rounded(Max({0} \cup components), 10), MaxByte)

\* get_freq_mhz on sysinfo: the average over the processors it lists.
AverageFreq(cpus) ==
  IF DOMAIN cpus = {} THEN 0
  ELSE Clamp(SumFunction(cpus) \div Cardinality(DOMAIN cpus), MaxWord)
=============================================================================
