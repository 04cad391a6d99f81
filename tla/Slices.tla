------------------------------- MODULE Slices -------------------------------
(***************************************************************************)
(* How a list of n elements, with indices from 0, is cut into slices of    *)
(* the same size: the chunks of the dataset (cpuvisor_preproc_sge.cc,      *)
(* cpuvisor_combine_chunks.cc) and the pages of a ranking                  *)
(* (getRankingProto_ in server/zmq_server.cc).                             *)
(***************************************************************************)
EXTENDS Integers

\* Fault: n / size is rounded down.
CountDown(n, size) == n \div size

\* n / size, rounded up.  The code rounds floating point numbers, which is
\* exact as long as n is (2^53 images in chunks, 2^24 in pages).
Count(n, size) == -((-n) \div size)

\* start_idx and end_idx of the slice i, counted from 0.
From(i, size)    == i * size
Upto(i, n, size) == IF (i + 1) * size > n THEN n ELSE (i + 1) * size

\* The indices in the slice i.
Slice(i, n, size) == {k \in 0..(n - 1) : From(i, size) <= k /\ k < Upto(i, n, size)}

\* A page of a ranking, counted from 1.  Page 0 starts behind its end, since
\* the code computes with unsigned numbers, and a page_sz of 0 is one empty
\* page.  A page behind the last one is an exception: see FetchRanking of
\* QueryServer.
PageCount(n, page_sz) == IF page_sz < 1 THEN 1 ELSE Count(n, page_sz)
Page(page_num, n, page_sz) ==
  IF page_sz < 1 \/ page_num = 0 THEN {}
  ELSE Slice(page_num - 1, n, IF page_sz > n THEN n ELSE page_sz)
=============================================================================
