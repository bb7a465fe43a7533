------------------------------- MODULE Paging -------------------------------
(***************************************************************************)
(* The paginated tables of the web pages: how many pages a list has and    *)
(* which rows a page shows.  React's updates of the page number are kept   *)
(* apart from the number that is on the screen: an effect queues its       *)
(* update, which a later task renders, and events may come before that.    *)
(***************************************************************************)
EXTENDS Integers, FiniteSets

AtMost(a, b) == IF a <= b THEN a ELSE b
AtLeast(a, b) == IF a >= b THEN a ELSE b

PageCountOfEmpty(n, size) == (n + size - 1) \div size
(* Math.max(1, Math.ceil(n / size)).                                       *)
PageCount(n, size) == AtLeast(1, (n + size - 1) \div size)

(* The rows of one page, when rank numbers the rows of the list from 0.    *)
PageSlice(list, rank, page, size) ==
    {r \in list : /\ (page - 1) * size <= rank[r]
                  /\ rank[r] < page * size}

(* What the effects of a commit leave queued: the page number, back at 1   *)
(* after a change of filter, and inside the pages when their number        *)
(* changed.                                                                *)
EffectsUnclamped(queued, toFirst, before, after) == IF toFirst THEN 1 ELSE queued
Effects(queued, toFirst, before, after) ==
    LET base == IF toFirst THEN 1 ELSE queued
    IN IF before = after THEN base ELSE AtMost(base, after)
=============================================================================
