------------------------------- MODULE MCHostRoute -------------------------------
EXTENDS HostRoute, TLC

MCLists == {<<"page", 2>>, <<"page", 4>>, <<"scalar", 4>>}
MCScalars == {<<"scalar", 4>>}
MCCap == [l \in MCLists |-> 1]
MCCells == 0 .. 18

Host(b, n) == [base |-> b, size |-> n, mps |-> FALSE]
Paged == Host(0, 2)
Loose == Host(3, 3)
Mps == [base |-> 6, size |-> 2, mps |-> TRUE]
Dbl == Host(8, 3)
Big == Host(12, 4)
Twin == Host(16, 3)

View(s, o) == [kind |-> "raw", storage |-> s, offset |-> o, elem |-> 1, full |-> FALSE]
Whole(s) == [View(s, 0) EXCEPT !.full = TRUE]
Double(s) == [Whole(s) EXCEPT !.kind = "double"]
Part(s) == [Double(s) EXCEPT !.full = FALSE]
Scalar == [kind |-> "scalar"]
Opaque == [kind |-> "opaque"]
Pairs(s) == [View(s, 1) EXCEPT !.elem = 2]

Op(i, j, k, m) == [to |-> <<i, j>>, from |-> <<k, m>>]
L(args, outputs, ops) == [args |-> args, outputs |-> outputs, ops |-> ops]

\* Views that alias and reach before their base; memory in place; fp64; a complete
\* storage over the limit.
Computed == {
  L(<<View(Loose, 0), View(Loose, 1), View(Mps, 1)>>, {2, 3},
    <<Op(2, 1, 1, 0), Op(2, 0, 1, 2), Op(3, 0 - 1, 1, 1)>>),
  L(<<Whole(Paged), View(Loose, 0), View(Twin, 0)>>, None, <<Op(1, 1, 2, 0), Op(2, 2, 1, 1)>>),
  L(<<Double(Dbl), Whole(Mps)>>, {1}, <<Op(1, 0, 2, 1), Op(1, 1, 1, 0)>>),
  L(<<Whole(Big), Double(Dbl), Scalar>>, {1}, <<Op(1, 3, 2, 1), Op(1, 0, 1, 3)>>)}

\* Refused at once, or when the group's turn comes.
Refused == {
  L(<<Double(Dbl), Double(Dbl)>>, None, <<Op(1, 0, 2, 1)>>),
  L(<<View(Dbl, 1), Double(Dbl)>>, None, <<Op(1, 0, 2, 0), Op(2, 1, 1, 0)>>),
  L(<<Part(Dbl)>>, None, <<>>),
  L(<<View(Mps, 2)>>, None, <<>>),
  L(<<Opaque>>, None, <<>>),
  L(<<Whole(Mps), View(Big, 1)>>, None, <<Op(1, 0, 2, 0)>>),
  L(<<Whole(Mps), Pairs(Loose)>>, None, <<Op(1, 0, 2, 0)>>)}

MCLaunches == Computed \cup Refused

\* Two storages over one allocation, as two slices of an array wrapped separately.
Early == Host(3, 3)
Late == Host(4, 3)
OverlapLaunches == {
  L(<<View(Early, 0), View(Late, 0)>>, None, <<Op(1, 1, 1, 1), Op(2, 1, 2, 1)>>)}

ASSUME Separate(MCLaunches) /\ ~Separate(OverlapLaunches)

Symmetry == Permutations(Threads) \cup Permutations(Buffers)
==================================================================================
