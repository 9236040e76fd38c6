------------------------------ MODULE DistPoints ------------------------------
(***************************************************************************)
(* dist_point_gen of model/dist.cc, on the tables it is compiled with: the *)
(* constructor reduces a table to dist_points, one point at a time, and    *)
(* computes the mean; operator() samples it.  Fractions are in parts of    *)
(* One.  The mean, in cycles of 64 bytes, is kept as an integer part and   *)
(* three groups of three decimals, so that no product exceeds 32 bits.     *)
(* A difference of fractions equal to min_bucket_frac, which the rounding  *)
(* of doubles decides, is excluded by the choice of Arguments.             *)
(***************************************************************************)
EXTENDS Workloads, Integers, TLC

CONSTANTS
  Names,      \* the names of tables that are asked for
  Fixed,      \* fixed lengths that are asked for, 0 for what is no number
  Arguments,  \* pairs of max_length (0 for no limit) and min_bucket_frac
  RatioTen,   \* ten times max_size_ratio (12 in the code)
  Draws       \* values of uniform_dist: the call samples each one

ASSUME DistAssumption ==
  /\ Names \subseteq {"w1", "w2", "w3", "w4", "w5"}
  /\ Fixed \subseteq Nat
  /\ Arguments \subseteq (Nat \X (0..One))
  /\ RatioTen \in Nat /\ RatioTen >= 10
  /\ Draws \subseteq 0..(One - 1)

VARIABLES
  dist,             \* the workload: [name, length]
  max_length,
  min_bucket_frac,
  pc,               \* "start", "reduce", "mean", "ready" or "abort"
  p,                \* index into the table, or into dist_points for the mean
  dist_points,
  dist_mean,
  sampled           \* the last draw and the length it gave

vars == <<dist, max_length, min_bucket_frac, pc, p, dist_points, dist_mean, sampled>>
arguments == <<dist, max_length, min_bucket_frac>>

Workload == "w1" :> w1 @@ "w2" :> w2 @@ "w3" :> w3 @@ "w4" :> w4 @@ "w5" :> w5
points == Workload[dist.name]
back == dist_points[Len(dist_points)]
point(length, fraction) == [length |-> length, fraction |-> fraction]

-----------------------------------------------------------------------------
\* strtol found a number other than 0: one point, whatever max_length is.
FixedSize ==
  /\ pc = "start" /\ dist.name = "number" /\ dist.length # 0
  /\ pc' = "ready"
  /\ dist_points' = <<point(dist.length, One)>>
  /\ dist_mean' = <<dist.length, 0, 0, 0>>
  /\ UNCHANGED <<arguments, p, sampled>>

\* The name of a table.
SelectTable ==
  /\ pc = "start" /\ dist.name \in DOMAIN Workload
  /\ pc' = "reduce" /\ p' = 1
  /\ UNCHANGED <<arguments, dist_points, dist_mean, sampled>>

\* "Invalid workload": abort().
Invalid ==
  /\ pc = "start" /\ dist.name = "number" /\ dist.length = 0
  /\ pc' = "abort"
  /\ UNCHANGED <<arguments, p, dist_points, dist_mean, sampled>>

\* Mutant: the size ratio is taken from one point of the table to the next.
KeptAdjacent ==
  \/ dist_points = <<>>
  \/ points[p].fraction - back.fraction >= min_bucket_frac
  \/ RatioTen * points[p].length < 10 * points[p + 1].length

\* Is this point of the table kept?  Not when it can be merged into the next
\* one: too small a share, and the next length within the ratio.
Kept ==
  \/ dist_points = <<>>
  \/ points[p].fraction - back.fraction >= min_bucket_frac
  \/ RatioTen * back.length < 10 * points[p + 1].length

Truncated == max_length # 0 /\ points[p].length >= max_length

\* Mutant: a truncated point keeps the fraction it has in the table.
ReduceRaw ==
  /\ pc = "reduce"
  /\ \/ /\ Truncated \/ points[p].fraction >= One
        /\ dist_points' = Append(dist_points,
             IF Truncated THEN point(max_length, points[p].fraction) ELSE points[p])
        /\ pc' = "mean" /\ p' = 1
     \/ /\ ~Truncated /\ points[p].fraction < One
        /\ dist_points' = IF Kept THEN Append(dist_points, points[p]) ELSE dist_points
        /\ p' = p + 1 /\ UNCHANGED pc
  /\ UNCHANGED <<arguments, dist_mean, sampled>>

\* One iteration of the loop that reduces the table.
Reduce ==
  /\ pc = "reduce"
  /\ \/ /\ Truncated \/ points[p].fraction >= One
        /\ dist_points' = Append(dist_points,
             point(IF Truncated THEN max_length ELSE points[p].length, One))
        /\ pc' = "mean" /\ p' = 1
     \/ /\ ~Truncated /\ points[p].fraction < One
        /\ dist_points' = IF Kept THEN Append(dist_points, points[p]) ELSE dist_points
        /\ p' = p + 1 /\ UNCHANGED pc
  /\ UNCHANGED <<arguments, dist_mean, sampled>>

\* mean + units * share, with share in parts of One.
AddShare(mean, units, share) ==
  LET nano  == mean[4] + units * (share % 1000)
      micro == mean[3] + units * ((share \div 1000) % 1000) + nano \div 1000
      milli == mean[2] + units * (share \div 1000000) + micro \div 1000
  IN <<mean[1] + milli \div 1000, milli % 1000, micro % 1000, nano % 1000>>

Cycles(length) == (length + 63) \div 64

\* Mutant: prev_fraction is never set.
MeanNoPrev ==
  /\ pc = "mean"
  /\ dist_mean' = AddShare(dist_mean, Cycles(dist_points[p].length),
                           dist_points[p].fraction)
  /\ IF p = Len(dist_points) THEN pc' = "ready" /\ UNCHANGED p
                             ELSE p' = p + 1 /\ UNCHANGED pc
  /\ UNCHANGED <<arguments, dist_points, sampled>>

\* One iteration of the loop that computes the mean.
Mean ==
  LET prev_fraction == IF p = 1 THEN 0 ELSE dist_points[p - 1].fraction
  IN /\ pc = "mean"
     /\ dist_mean' = AddShare(dist_mean, Cycles(dist_points[p].length),
                              dist_points[p].fraction - prev_fraction)
     /\ IF p = Len(dist_points) THEN pc' = "ready" /\ UNCHANGED p
                                ELSE p' = p + 1 /\ UNCHANGED pc
     /\ UNCHANGED <<arguments, dist_points, sampled>>

\* The point that operator() returns: the first at or above the draw.
Drawn(table, draw) ==
  table[CHOOSE i \in DOMAIN table :
          /\ table[i].fraction >= draw
          /\ \A j \in 1..(i - 1) : table[j].fraction < draw]

\* operator(): abort() when no point is at or above the draw.
Sample(draw) ==
  /\ pc = "ready"
  /\ IF \E i \in DOMAIN dist_points : dist_points[i].fraction >= draw
     THEN sampled' = <<draw, Drawn(dist_points, draw).length>> /\ UNCHANGED pc
     ELSE pc' = "abort" /\ UNCHANGED sampled
  /\ UNCHANGED <<arguments, p, dist_points, dist_mean>>

Aborted == pc = "abort" /\ UNCHANGED vars

Init ==
  /\ dist \in [name : Names, length : {0}] \cup [name : {"number"}, length : Fixed]
  /\ \E a \in Arguments : max_length = a[1] /\ min_bucket_frac = a[2]
  /\ pc = "start" /\ p = 0
  /\ dist_points = <<>>
  /\ dist_mean = <<0, 0, 0, 0>>
  /\ sampled = <<>>

Next ==
  \/ FixedSize \/ SelectTable \/ Invalid \/ Reduce \/ Mean \/ Aborted
  \/ \E draw \in Draws : Sample(draw)

Spec == Init /\ [][Next]_vars

-----------------------------------------------------------------------------
\* What operator() and the caller's assert(next_length != 0) need of a built
\* distribution: lengths above 0, lengths and fractions increasing from point
\* to point, and the last fraction 1, so that no draw falls beyond it.  The
\* only abort() is the one for an invalid name.
Samplable ==
  /\ pc \in {"mean", "ready"} =>
       /\ dist_points[1].length > 0 /\ back.fraction = One
       /\ \A i \in 1..(Len(dist_points) - 1) :
            /\ dist_points[i].length < dist_points[i + 1].length
            /\ dist_points[i].fraction < dist_points[i + 1].fraction
  /\ pc = "abort" => dist_points = <<>>

\* "Maximum size ratio between the largest and smallest lengths combined into
\* one bucket": however points were merged and truncated, a sample is the
\* length the table itself gives for that draw, cut at max_length, or at most
\* the size ratio above it; and exactly that when no buckets are combined.
QuantileClose ==
  sampled # <<>> /\ dist.name # "number" =>
    LET raw == Drawn(points, sampled[1]).length
        cut == IF max_length # 0 /\ raw > max_length THEN max_length ELSE raw
    IN /\ cut <= sampled[2]
       /\ 10 * sampled[2] <= RatioTen * cut
       /\ min_bucket_frac = 0 => sampled[2] = cut

\* The sum of two means.
Plus(a, b) ==
  LET nano  == a[4] + b[4]
      micro == a[3] + b[3] + nano \div 1000
      milli == a[2] + b[2] + micro \div 1000
  IN <<a[1] + b[1] + milli \div 1000, milli % 1000, micro % 1000, nano % 1000>>

\* get_mean() of a table, from which qsim derives the arrival rate, is the
\* expected number of cycles of a sample: the sum, over the points, of the
\* cycles a point has more than the one before it times the share of messages
\* longer than that one (summed by halves).
MeanExact ==
  pc = "ready" /\ dist.name # "number" /\ sampled = <<>> =>
    LET more(i) == Cycles(dist_points[i].length)
                     - (IF i = 1 THEN 0 ELSE Cycles(dist_points[i - 1].length))
        longer(i) == One - (IF i = 1 THEN 0 ELSE dist_points[i - 1].fraction)
        sum[part \in Nat \X Nat] ==
          LET mid == (part[1] + part[2]) \div 2
          IN IF part[1] = part[2]
             THEN AddShare(<<0, 0, 0, 0>>, more(mid), longer(mid))
             ELSE Plus(sum[<<part[1], mid>>], sum[<<mid + 1, part[2]>>])
    IN dist_mean = sum[<<1, Len(dist_points)>>]
=============================================================================
