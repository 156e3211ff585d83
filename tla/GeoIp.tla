-------------------------------- MODULE GeoIp ---------------------------------
(***************************************************************************)
(* GeoIpMatcher for one country code: load turns each CIDR into a range,   *)
(* sorts the ranges and merges those that touch; match searches the merged *)
(* ranges.  The code does it once for 32-bit and once for 128-bit          *)
(* addresses; here an address is a number below Block[0].                  *)
(***************************************************************************)
EXTENDS Integers, Sequences

CONSTANTS Width,      \* bits of an address
          Block       \* Block[p]: how many addresses a prefix of length p covers

VARIABLES
  file,     \* the CIDRs of the file, as <<address, prefix length>>
  ranges,   \* the category's vector until it is replaced
  merged,   \* the vector the merge builds, the category's vector afterwards
  next,     \* the loop's i (from 1)
  pc        \* "load", "merge" or "ready"

vars == <<file, ranges, merged, next, pc>>

Addr == 0..(Block[0] - 1)
LastAddr == Block[0] - 1

Init == ranges = <<>> /\ merged = <<>> /\ next = 1 /\ pc = "load"
-------------------------------------------------------------------------------
\* val & mask, and that with the bits of ~mask set.
First(a, p) == a - (a % Block[p])

RangeOf(a, p) == [start |-> First(a, p), end |-> First(a, p) + (Block[p] - 1)]

Load ==
  /\ pc = "load" /\ Len(ranges) < Len(file)
  /\ LET c == file[Len(ranges) + 1] IN ranges' = Append(ranges, RangeOf(c[1], c[2]))
  /\ UNCHANGED <<file, merged, next, pc>>

SortedByStart(s) == \A i, j \in 1..Len(s) : i < j => s[i].start <= s[j].start

\* std::sort by start, which leaves ranges that start together in any order,
\* and the first range of the merge.  An empty category is left alone.
Sort ==
  /\ pc = "load" /\ Len(ranges) = Len(file)
  /\ IF ranges = <<>>
       THEN pc' = "ready" /\ UNCHANGED <<ranges, merged, next>>
       ELSE /\ \E order \in [1..Len(ranges) -> 1..Len(ranges)] :
                 /\ \A i \in 1..Len(ranges) : \E j \in 1..Len(ranges) : order[j] = i
                 /\ ranges' = [i \in 1..Len(ranges) |-> ranges[order[i]]]
            /\ SortedByStart(ranges')
            /\ merged' = <<ranges'[1]>> /\ next' = 2 /\ pc' = "merge"
  /\ UNCHANGED file

\* Mutant: last.end + 1 without the test for the last address, in w bits.
TouchesWrap(r, b) == r.start <= (b.end + 1) % Block[0]

Touches(r, b) == r.start <= b.end + (IF b.end # LastAddr THEN 1 ELSE 0)

Extended(r, b) == [start |-> b.start, end |-> IF b.end >= r.end THEN b.end ELSE r.end]

Merge ==
  /\ pc = "merge" /\ next <= Len(ranges)
  /\ LET r == ranges[next]
         n == Len(merged)
     IN merged' = IF Touches(r, merged[n])
                    THEN [merged EXCEPT ![n] = Extended(r, merged[n])]
                    ELSE Append(merged, r)
  /\ next' = next + 1
  /\ UNCHANGED <<file, ranges, pc>>

Finish ==
  /\ pc = "merge" /\ next > Len(ranges)
  /\ pc' = "ready"
  /\ UNCHANGED <<file, ranges, merged, next>>

Next == Load \/ Sort \/ Merge \/ Finish
-------------------------------------------------------------------------------
\* std::upper_bound: the ranges before u start at v or lower, the others higher.
UpperBound(u, v) ==
  /\ \A i \in 1..Len(merged) : i < u => merged[i].start <= v
  /\ \A i \in 1..Len(merged) : i >= u => merged[i].start > v

match(v) ==
  \E u \in 2..(Len(merged) + 1) :
    UpperBound(u, v) /\ merged[u - 1].start <= v /\ v <= merged[u - 1].end
-------------------------------------------------------------------------------
TypeOK ==
  /\ pc \in {"load", "merge", "ready"}
  /\ ranges \in Seq([start : Addr, end : Addr])
  /\ merged \in Seq([start : Addr, end : Addr])
  /\ next \in 1..(Len(ranges) + 1)

\* v lies in the network of some CIDR of the file.
InSomeCidr(v) == \E i \in 1..Len(file) : First(v, file[i][2]) = First(file[i][1], file[i][2])

\* Once loaded, match answers for every address whether some CIDR of the file
\* contains it: sorting and merging neither lose nor add an address, and the
\* search finds the only range that can hold it.
MatchExact == pc = "ready" => \A v \in Addr : match(v) <=> InSomeCidr(v)

\* The merged ranges are in order and no two of them touch: match relies on
\* the first for its search and on both for looking at one range only.
MergedApart ==
  \A i, j \in 1..Len(merged) : i < j => merged[i].end + 1 < merged[j].start
===============================================================================
