----------------------------- MODULE DeviceModel -----------------------------
(***************************************************************************)
(* The arithmetic of admission control in nvme/nvmedev.c: the token cost   *)
(* of a service level objective (SLO) and the token rate that the device   *)
(* sustains at a given tail latency, from the calibration table that       *)
(* core/cfg.c reads and sorts.                                             *)
(***************************************************************************)
EXTENDS Integers, Sequences

CONSTANTS DevModel,    \* dev_model: records lat, rate, rdonly; <<>> if there is none
          ReadCost,    \* NVME_READ_COST, cost of a 4 KB read
          WriteCost,   \* NVME_WRITE_COST
          Micro,       \* the 1E6 by which scaled_IOPS_limit is divided
          UintMax,     \* UINT_MAX, the rate of a device without a model
          UlongMax     \* ULONG_MAX; rates and counts are unsigned long

ASSUME CostsAssumption == ReadCost \in Nat /\ WriteCost \in Nat /\ Micro \in Nat \ {0}
ASSUME UintAssumption == UintMax \in Nat /\ UlongMax \in Nat /\ UintMax <= UlongMax

(* parse_devmodel sorts the table; an entry without a read-only rate gets  *)
(* the mixed one, and a longer tail latency allows a higher rate.          *)
ASSUME DevModelAssumption ==
  /\ DevModel \in Seq([lat : Nat \ {0}, rate : 0..UlongMax, rdonly : 0..UlongMax])
  /\ \A i, j \in 1..Len(DevModel) : i < j =>
       /\ DevModel[i].lat < DevModel[j].lat
       /\ DevModel[i].rate <= DevModel[j].rate
       /\ DevModel[i].rdonly <= DevModel[j].rdonly

(* Arithmetic of the C types: differences and sums wrap around.             *)
Minus(a, b) == (a - b) % (UlongMax + 1)
Plus(a, b) == (a + b) % (UlongMax + 1)
Uint(a) == a % (UintMax + 1)

(* scaled_IOPS: an SLO of iops requests per second of 4 KB, rw percent of  *)
(* them reads, in tokens per second, rounded to the nearest.               *)
ScaledIops(iops, rw) ==
  (iops * rw * ReadCost + iops * (100 - rw) * WriteCost + 50) \div 100

(* The integer conversion of scaled_IOPS(...) / 1E6.                       *)
IopsLimit(slo) == ScaledIops(slo.iops, slo.rw) \div Micro

RateAt(i, rdonly) == IF rdonly THEN DevModel[i].rdonly ELSE DevModel[i].rate

(* Linear interpolation between entries i and i+1, rounded down.           *)
Interpolated(i, lat, rdonly) ==
  LET y0 == RateAt(i, rdonly)     x0 == DevModel[i].lat
      y1 == RateAt(i+1, rdonly)   x1 == DevModel[i+1].lat
  IN  y0 + ((y1 - y0) * (lat - x0)) \div (x1 - x0)

(* find_token_limit_from_devmodel: the last entry not above the latency,   *)
(* or the first entry if there is none.                                    *)
FindTokenLimit(lat, rdonly) ==
  LET n == Len(SelectSeq(DevModel, LAMBDA e : e.lat <= lat))
  IN  IF n = 0 THEN RateAt(1, rdonly)
      ELSE IF n = Len(DevModel) THEN RateAt(n, rdonly)
      ELSE Interpolated(n, lat, rdonly)

lookup_device_token_rate(lat, rdonly) ==
  IF DevModel = <<>> THEN UintMax ELSE FindTokenLimit(lat, rdonly)
=============================================================================
