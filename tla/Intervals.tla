----------------------------- MODULE Intervals ------------------------------
(***************************************************************************)
(* The address sets of a ruleset: named sets and threat bans are turned    *)
(* into the interval sets nftables keeps.  An address is a number below    *)
(* Space, of either family; an element of a set is an address with a       *)
(* prefix length.                                                          *)
(***************************************************************************)
EXTENDS Integers, Sequences, SequencesExt

CONSTANT Width      \* bits of an address
ASSUME WidthAssumption == Width \in Nat \ {0}

Power[n \in 0 .. Width] == IF n = 0 THEN 1 ELSE 2 * Power[n - 1]

Space == Power[Width]
Address == 0 .. Space - 1
Element == [v6 : BOOLEAN, addr : Address, bits : 0 .. Width]

Size(e) == Power[Width - e.bits]

First(e) == e.addr - (e.addr % Size(e))

(* The addresses an element stands for.                                    *)
Covers(e) == First(e) .. First(e) + Size(e) - 1

(* PrefixFrom(addr, bits).Masked() and intervalEnd: the end is the first   *)
(* address after the prefix.  After the last address of the family it is   *)
(* Past, 0 in the key, which the kernel takes for "no end".                *)
Interval(e) == [start |-> First(e), end |-> (First(e) + Size(e)) % Space]
Past == 0

(* A wrong merging, for the runs' mutants: touching intervals stay apart.  *)
MergeTouching(out, iv) ==
    IF out[Len(out)].end # Past /\ iv.start >= out[Len(out)].end
    THEN Append(out, iv)
    ELSE IF out[Len(out)].end = Past \/ iv.end = Past \/ iv.end > out[Len(out)].end
    THEN Append(Front(out), [out[Len(out)] EXCEPT !.end = iv.end]) ELSE out

(* mergeAddrIntervals takes the sorted intervals one by one.               *)
MergeOne(out, iv) ==
    LET last == out[Len(out)]
        extended == Append(Front(out), [last EXCEPT !.end = iv.end])
    IN  IF last.end # Past /\ iv.start > last.end THEN Append(out, iv)
        ELSE IF last.end = Past \/ iv.end = Past \/ iv.end > last.end
        THEN extended ELSE out

(* It sorts by insertion, which keeps the order of equal starts, as        *)
(* sort.Slice does for fewer than twelve intervals.                        *)
Insert(sorted, iv) ==
    InsertAt(sorted, Min({i \in DOMAIN sorted : sorted[i].start > iv.start}
                         \cup {Len(sorted) + 1}), iv)

mergeAddrIntervals(ivs) ==
    IF ivs = <<>> THEN <<>>
    ELSE LET sorted == FoldLeft(Insert, <<>>, ivs)
         IN  FoldLeft(MergeOne, <<sorted[1]>>, Tail(sorted))

(* compileAddressSet: the set of one family.                               *)
compileAddressSet(elements, v6) ==
    mergeAddrIntervals(FlattenSeq([i \in DOMAIN elements |->
        IF elements[i].v6 = v6 THEN <<Interval(elements[i])>> ELSE <<>>]))

(* A lookup in the set, as the kernel does it.                             *)
Holds(set, a) == \E i \in DOMAIN set : /\ set[i].start <= a
                                       /\ set[i].end = Past \/ a < set[i].end

(* __nft_rbtree_insert refuses a batch whose intervals overlap.            *)
Insertable(set) ==
    \A i, j \in DOMAIN set : i < j =>
        set[i].end # Past /\ set[i].end < set[j].start

=============================================================================
