------------------------------- MODULE Qsort -------------------------------
(***************************************************************************)
(* local_qsort of src/lib/libc/stdlib/qsort.c, the Bentley-McIlroy         *)
(* quicksort, as a state machine over the array: one step per iteration    *)
(* of each of its loops, the recursive call as a push on 'stack' and its   *)
(* return as a pop, and 'goto loop' as a jump that reuses the frame.       *)
(*                                                                         *)
(* Pointers are element indices into arr (es = 1, so 'p += es' is p + 1    *)
(* and 'd / es' is d).  CMP is the comparison of the two values.  The      *)
(* locals that the code no longer reads after a call returns (pa, pb, pc,  *)
(* pd, pl, pm, swap_cnt) are reset to 0 at calls and returns; the ones it  *)
(* does read (a, n, pn, d1, d2) are saved in the frame.                    *)
(***************************************************************************)
EXTENDS Integers, Sequences, TLC

CONSTANTS
    N,          \* number of elements
    Vals,       \* values an element may have
    INS_MAX,    \* n < INS_MAX: insertion sort; n > INS_MAX: median of three (7)
    NINTHER     \* n > NINTHER: pseudo-median of nine (40)

ASSUME
    /\ N \in Nat \ {0}
    /\ Vals \subseteq Int
    /\ {INS_MAX, NINTHER} \subseteq Nat

Idx == 0..(N - 1)

\* The argument checks of qsort_s, then the labels of local_qsort: function entry, 'loop:', the two scans of the
\* partition loop, the code after it, the two continuations after a
\* recursive call, the insertion sort, and return from the outermost call.
Steps == {"qsort_s", "entry", "loop", "partB", "partC", "split", "afterLeft",
          "afterRight", "ins", "done"}

Frame == [a: Idx, n: 0..N, pn: 0..N, d1: 0..N, d2: 0..N,
          ret: {"afterLeft", "afterRight"}]

VARIABLES
    arr,            \* the array being sorted
    input,          \* history: the array qsort was called with
    nel,            \* history: the element count qsort was called with
    step,           \* where the current call of local_qsort is
    a, n,           \* arguments of the current call
    pa, pb, pc, pd, pl, pm, pn,
    d1, d2,
    swap_cnt,
    stack,          \* frames of the callers of the current call
    result,         \* what qsort_s returns: 0 or EINVAL (qsort returns nothing: 0)
    args            \* history: what the caller of qsort_s got wrong ({} for qsort)

vars == <<arr, input, nel, step, a, n, pa, pb, pc, pd, pl, pm, pn, d1, d2,
          swap_cnt, stack, result, args>>
locals == <<pa, pb, pc, pd, pl, pm, swap_cnt>>

\* errno.h
EINVAL == 22

\* Arguments a caller of qsort_s may get wrong: n or es above RSIZE_MAX,
\* a NULL array or comparator, a zero element size.
ArgFaults == {"n_huge", "es_huge", "a_null", "cmp_null", "es_zero"}

\* A call with good arguments or with one of the faults.  qsort_s tests
\* them one after the other and stops at the first, so a call with several
\* takes the same path as one with the first of them.
ArgCases == {{}} \cup {{f} : f \in ArgFaults}

(* qsort(a, n, ...) or qsort_s(a, n, ...) on the first n elements of an  *)
(* array of N; the rest hold the least value and must be left alone.      *)
Init ==
    /\ n \in 0..N
    /\ arr \in {f \in [Idx -> Vals] : \A i \in n..(N - 1) : \A v \in Vals : f[i] <= v}
    /\ input = arr
    /\ nel = n
    /\ \/ step = "entry" /\ args = {}
       \/ step = "qsort_s" /\ args \in ArgCases
    /\ result = 0
    /\ a = 0
    /\ pa = 0 /\ pb = 0 /\ pc = 0 /\ pd = 0 /\ pl = 0 /\ pm = 0 /\ pn = 0
    /\ d1 = 0 /\ d2 = 0
    /\ swap_cnt = 0
    /\ stack = <<>>

-----------------------------------------------------------------------------
MIN(x, y) == IF x < y THEN x ELSE y

(* swapfunc on one element, and vecswap: k element swaps in order.        *)
Swap(f, i, j) == [f EXCEPT ![i] = f[j], ![j] = f[i]]

RECURSIVE VecSwap(_, _, _, _)
VecSwap(f, i, j, k) == IF k <= 0 THEN f ELSE VecSwap(Swap(f, i, j), i + 1, j + 1, k - 1)

(* med3: the index of the median of three elements.                       *)
Med3(f, x, y, z) ==
    IF f[x] < f[y]
    THEN IF f[y] < f[z] THEN y ELSE IF f[x] < f[z] THEN z ELSE x
    ELSE IF f[y] > f[z] THEN y ELSE IF f[x] < f[z] THEN x ELSE z

(* The pivot of the partition of [a, a + n): the middle element, the      *)
(* median of the first, middle and last for n > 7, of three medians for   *)
(* n > 40.                                                                 *)
Pivot(f) ==
    LET pm0 == a + n \div 2
        pn0 == a + n - 1
        d   == n \div 8
    IN IF n > INS_MAX
       THEN IF n > NINTHER
            THEN Med3(f, Med3(f, a, a + d, a + 2 * d),
                         Med3(f, pm0 - d, pm0, pm0 + d),
                         Med3(f, pn0 - 2 * d, pn0 - d, pn0))
            ELSE Med3(f, a, pm0, pn0)
       ELSE pm0

ClearLocals ==
    /\ pa' = 0 /\ pb' = 0 /\ pc' = 0 /\ pd' = 0 /\ pl' = 0 /\ pm' = 0
    /\ swap_cnt' = 0

(* A recursive call local_qsort(a2, n2) made in the step that computes    *)
(* pn, d1 and d2: push the caller's frame with them, to resume at 'ret'.   *)
Call(a2, n2, ret) ==
    /\ stack' = Append(stack, [a |-> a, n |-> n, pn |-> pn', d1 |-> d1',
                               d2 |-> d2', ret |-> ret])
    /\ a' = a2
    /\ n' = n2
    /\ step' = "entry"
    /\ ClearLocals

(* Return from the current call: pop the caller's frame, or end.          *)
Return ==
    /\ IF stack = <<>>
       THEN /\ step' = "done"
            /\ UNCHANGED <<a, n, pn, d1, d2, stack>>
       ELSE LET fr == stack[Len(stack)]
            IN /\ step' = fr.ret
               /\ a' = fr.a /\ n' = fr.n /\ pn' = fr.pn
               /\ d1' = fr.d1 /\ d2' = fr.d2
               /\ stack' = SubSeq(stack, 1, Len(stack) - 1)
    /\ ClearLocals
    /\ UNCHANGED <<arr, input, nel>>

(* Seeded fault: the es <= 0 test is missing.                             *)
Rejects_NoEsZero(f) ==
    \/ f \cap {"n_huge", "es_huge"} # {}
    \/ n # 0 /\ f \cap {"a_null", "cmp_null"} # {}

(* qsort_s refuses n or es above RSIZE_MAX, and, when n # 0, a NULL      *)
(* array, a NULL comparator and es = 0: it calls the constraint handler  *)
(* and returns EINVAL.                                                      *)
Rejects(f) ==
    \/ f \cap {"n_huge", "es_huge"} # {}
    \/ n # 0 /\ f \cap {"a_null", "cmp_null", "es_zero"} # {}

(* qsort_s: the argument checks, then local_qsort_s and return 0.  With   *)
(* n = 0 the array, the comparator and es are never used, so the checks   *)
(* that need them are skipped.                                              *)
QsortS ==
    /\ step = "qsort_s"
    /\ IF Rejects(args)
       THEN result' = EINVAL /\ step' = "done"
       ELSE result' = 0 /\ step' = "entry"
    /\ UNCHANGED <<arr, input, nel, a, n, pn, d1, d2, stack, locals, args>>

(* Entry: fewer than two elements need no sorting.                        *)
Entry ==
    /\ step = "entry"
    /\ \/ /\ n < 2
          /\ Return
       \/ /\ n >= 2
          /\ step' = "loop"
          /\ UNCHANGED <<arr, input, nel, a, n, pn, d1, d2, stack, locals>>

(* loop: reset swap_cnt; below INS_MAX elements go to insertion sort;     *)
(* otherwise choose the pivot, swap it to a[0] and start the partition.   *)
Loop ==
    /\ step = "loop"
    /\ swap_cnt' = 0
    /\ \/ /\ n < INS_MAX
          /\ pm' = a + 1 /\ pl' = a + 1
          /\ step' = "ins"
          /\ UNCHANGED <<arr, pa, pb, pc, pd>>
       \/ /\ n >= INS_MAX
          /\ arr' = Swap(arr, a, Pivot(arr))
          /\ pa' = a + 1 /\ pb' = a + 1
          /\ pc' = a + n - 1 /\ pd' = a + n - 1
          /\ step' = "partB"
          /\ UNCHANGED <<pl, pm>>
    /\ UNCHANGED <<input, nel, a, n, pn, d1, d2, stack>>
(* Seeded fault: an element equal to the pivot is swapped to the left    *)
(* end but pa is not advanced.                                             *)
PartB_NoAdvancePa ==
    /\ step = "partB"
    /\ \/ /\ pb <= pc /\ arr[pb] < arr[a]
          /\ pb' = pb + 1
          /\ UNCHANGED <<arr, pa, swap_cnt, step>>
       \/ /\ pb <= pc /\ arr[pb] = arr[a]
          /\ swap_cnt' = 1
          /\ arr' = Swap(arr, pa, pb)
          /\ pb' = pb + 1
          /\ UNCHANGED <<pa, step>>
       \/ /\ ~(pb <= pc /\ arr[pb] <= arr[a])
          /\ step' = "partC"
          /\ UNCHANGED <<arr, pa, pb, swap_cnt>>
    /\ UNCHANGED <<input, nel, a, n, pc, pd, pl, pm, pn, d1, d2, stack>>

(* First scan of the partition loop, one element per step: elements      *)
(* below the pivot a[0] stay, equal ones are swapped to the left end.     *)
PartB ==
    /\ step = "partB"
    /\ \/ /\ pb <= pc /\ arr[pb] < arr[a]
          /\ pb' = pb + 1
          /\ UNCHANGED <<arr, pa, swap_cnt, step>>
       \/ /\ pb <= pc /\ arr[pb] = arr[a]
          /\ swap_cnt' = 1
          /\ arr' = Swap(arr, pa, pb)
          /\ pa' = pa + 1
          /\ pb' = pb + 1
          /\ UNCHANGED step
       \/ /\ ~(pb <= pc /\ arr[pb] <= arr[a])
          /\ step' = "partC"
          /\ UNCHANGED <<arr, pa, pb, swap_cnt>>
    /\ UNCHANGED <<input, nel, a, n, pc, pd, pl, pm, pn, d1, d2, stack>>

(* Second scan, from the right: elements above the pivot stay, equal ones *)
(* go to the right end; then either the pointers crossed (break) or a[pb] *)
(* and a[pc] are swapped and the first scan resumes.                       *)
PartC ==
    /\ step = "partC"
    /\ \/ /\ pb <= pc /\ arr[pc] > arr[a]
          /\ pc' = pc - 1
          /\ UNCHANGED <<arr, pb, pd, swap_cnt, step>>
       \/ /\ pb <= pc /\ arr[pc] = arr[a]
          /\ swap_cnt' = 1
          /\ arr' = Swap(arr, pc, pd)
          /\ pd' = pd - 1
          /\ pc' = pc - 1
          /\ UNCHANGED <<pb, step>>
       \/ /\ ~(pb <= pc /\ arr[pc] >= arr[a])
          /\ pb > pc
          /\ step' = "split"
          /\ UNCHANGED <<arr, pb, pc, pd, swap_cnt>>
       \/ /\ ~(pb <= pc /\ arr[pc] >= arr[a])
          /\ pb <= pc
          /\ arr' = Swap(arr, pb, pc)
          /\ swap_cnt' = 1
          /\ pb' = pb + 1
          /\ pc' = pc - 1
          /\ step' = "partB"
          /\ UNCHANGED pd
    /\ UNCHANGED <<input, nel, a, n, pa, pl, pm, pn, d1, d2, stack>>

(* Seeded fault: recurse on the larger partition and iterate on the      *)
(* smaller one ('d1 >= d2' for 'd1 <= d2').                                *)
Split_RecurseLarger ==
    /\ step = "split"
    /\ \/ /\ swap_cnt = 0
          /\ pm' = a + 1 /\ pl' = a + 1
          /\ step' = "ins"
          /\ UNCHANGED <<arr, pn, d1, d2, stack, a, n, pa, pb, pc, pd, swap_cnt>>
       \/ /\ swap_cnt = 1
          /\ LET pn0 == a + n
                  e1  == MIN(pa - a, pb - pa)
                  f1  == VecSwap(arr, a, pb - e1, e1)
                  e2  == MIN(pd - pc, pn0 - pd - 1)
                  D1  == pb - pa
                  D2  == pd - pc
              IN /\ arr' = VecSwap(f1, pb, pn0 - e2, e2)
                 /\ pn' = pn0 /\ d1' = D1 /\ d2' = D2
                 /\ IF D1 >= D2
                    THEN IF D1 > 1 THEN Call(a, D1, "afterLeft")
                         ELSE step' = "afterLeft" /\ UNCHANGED <<a, n, stack, locals>>
                    ELSE IF D2 > 1 THEN Call(pn0 - D2, D2, "afterRight")
                         ELSE step' = "afterRight" /\ UNCHANGED <<a, n, stack, locals>>
    /\ UNCHANGED <<input, nel>>

(* After the partition: with no swap at all, insertion sort the whole    *)
(* range; otherwise move the pivot-equal ends to the middle (the two      *)
(* vecswaps), then recurse on the smaller side and iterate on the other.  *)
Split ==
    /\ step = "split"
    /\ \/ /\ swap_cnt = 0
          /\ pm' = a + 1 /\ pl' = a + 1
          /\ step' = "ins"
          /\ UNCHANGED <<arr, pn, d1, d2, stack, a, n, pa, pb, pc, pd, swap_cnt>>
       \/ /\ swap_cnt = 1
          /\ LET pn0 == a + n
                  e1  == MIN(pa - a, pb - pa)
                  f1  == VecSwap(arr, a, pb - e1, e1)
                  e2  == MIN(pd - pc, pn0 - pd - 1)
                  D1  == pb - pa
                  D2  == pd - pc
              IN /\ arr' = VecSwap(f1, pb, pn0 - e2, e2)
                 /\ pn' = pn0 /\ d1' = D1 /\ d2' = D2
                 /\ IF D1 <= D2
                    THEN IF D1 > 1 THEN Call(a, D1, "afterLeft")
                         ELSE step' = "afterLeft" /\ UNCHANGED <<a, n, stack, locals>>
                    ELSE IF D2 > 1 THEN Call(pn0 - D2, D2, "afterRight")
                         ELSE step' = "afterRight" /\ UNCHANGED <<a, n, stack, locals>>
    /\ UNCHANGED <<input, nel>>

(* Seeded fault: the right partition starts one element too far.          *)
AfterLeft_OffByOne ==
    /\ step = "afterLeft"
    /\ \/ /\ d2 > 1
          /\ a' = pn - d2 + 1 /\ n' = d2
          /\ step' = "loop"
          /\ ClearLocals
          /\ UNCHANGED <<arr, input, nel, pn, d1, d2, stack>>
       \/ /\ d2 <= 1
          /\ Return

(* After sorting the left side: iterate on the right one (goto loop).     *)
AfterLeft ==
    /\ step = "afterLeft"
    /\ \/ /\ d2 > 1
          /\ a' = pn - d2 /\ n' = d2
          /\ step' = "loop"
          /\ ClearLocals
          /\ UNCHANGED <<arr, input, nel, pn, d1, d2, stack>>
       \/ /\ d2 <= 1
          /\ Return

(* After sorting the right side: iterate on the left one.                 *)
AfterRight ==
    /\ step = "afterRight"
    /\ \/ /\ d1 > 1
          /\ n' = d1
          /\ step' = "loop"
          /\ ClearLocals
          /\ UNCHANGED <<arr, input, nel, a, pn, d1, d2, stack>>
       \/ /\ d1 <= 1
          /\ Return

(* Seeded fault: the inner loop stops one element early (pl > a + 1).    *)
InsStep_OffByOne ==
    /\ step = "ins"
    /\ \/ /\ pm >= a + n
          /\ Return
       \/ /\ pm < a + n /\ pl > a + 1 /\ arr[pl - 1] > arr[pl]
          /\ arr' = Swap(arr, pl, pl - 1)
          /\ pl' = pl - 1
          /\ UNCHANGED <<input, nel, step, a, n, pa, pb, pc, pd, pm, pn, d1, d2, swap_cnt, stack>>
       \/ /\ pm < a + n /\ ~(pl > a + 1 /\ arr[pl - 1] > arr[pl])
          /\ pm' = pm + 1 /\ pl' = pm + 1
          /\ UNCHANGED <<arr, input, nel, step, a, n, pa, pb, pc, pd, pn, d1, d2, swap_cnt, stack>>

(* Insertion sort, one step of the inner loop: sink a[pl] left while its  *)
(* left neighbour is larger; then take the next pm; return at the end.    *)
InsStep ==
    /\ step = "ins"
    /\ \/ /\ pm >= a + n
          /\ Return
       \/ /\ pm < a + n /\ pl > a /\ arr[pl - 1] > arr[pl]
          /\ arr' = Swap(arr, pl, pl - 1)
          /\ pl' = pl - 1
          /\ UNCHANGED <<input, nel, step, a, n, pa, pb, pc, pd, pm, pn, d1, d2, swap_cnt, stack>>
       \/ /\ pm < a + n /\ ~(pl > a /\ arr[pl - 1] > arr[pl])
          /\ pm' = pm + 1 /\ pl' = pm + 1
          /\ UNCHANGED <<arr, input, nel, step, a, n, pa, pb, pc, pd, pn, d1, d2, swap_cnt, stack>>

LocalQsort ==
    \/ Entry
    \/ Loop
    \/ PartB
    \/ PartC
    \/ Split
    \/ AfterLeft
    \/ AfterRight
    \/ InsStep

Next == QsortS \/ (LocalQsort /\ UNCHANGED <<result, args>>)

Spec == Init /\ [][Next]_vars

-----------------------------------------------------------------------------
(* Properties.                                                             *)

TypeOK ==
    /\ arr \in [Idx -> Vals]
    /\ step \in Steps
    /\ a \in Idx /\ n \in 0..N
    \* the range the current call sorts lies inside the array
    /\ a + n <= N
    /\ {pa, pb, pc, pd, pl, pm, pn, d1, d2} \subseteq -1..N
    /\ swap_cnt \in {0, 1}
    /\ stack \in Seq(Frame)
    /\ result \in {0, EINVAL}
    /\ args \in ArgCases

Prefix(f, k) == [i \in 1..k |-> f[i - 1]]

(* qsort, or qsort_s returning 0, returns with its n elements in ascending order and holding the   *)
(* same values as before (they equal the reference sort of the input),    *)
(* and every element past them untouched.                                  *)
QsortSorts ==
    step = "done" /\ result = 0 =>
        /\ Prefix(arr, nel) = SortSeq(Prefix(input, nel), <)
        /\ \A i \in nel..(N - 1) : arr[i] = input[i]

(* The partition invariant of Bentley and McIlroy that the two scans of  *)
(* local_qsort keep, with a[0] the pivot: [a+1, pa) equal to it, [pa, pb) *)
(* below it, (pc, pd] above it, (pd, a+n) equal to it, and the pointers   *)
(* in order inside the range.  The vecswaps and the sizes d1 = pb - pa,   *)
(* d2 = pd - pc of the recursive calls rest on it.                         *)
PartitionInvariant ==
    step \in {"partB", "partC"} =>
        LET p == arr[a] IN
        /\ a + 1 <= pa /\ pa <= pb /\ pb <= pc + 1 /\ pc <= pd /\ pd <= a + n - 1
        /\ \A i \in (a + 1)..(pa - 1) : arr[i] = p
        /\ \A i \in pa..(pb - 1) : arr[i] < p
        /\ \A i \in (pc + 1)..pd : arr[i] > p
        /\ \A i \in (pd + 1)..(a + n - 1) : arr[i] = p

(* Recursing on the smaller partition and iterating on the larger keeps  *)
(* the stack logarithmic: every nested call sorts at most half of what    *)
(* its caller sorted, so n * 2^depth never exceeds the array size.         *)
StackHalves ==
    step # "done" => n * 2 ^ Len(stack) <= N

(* local_qsort_s only returns at once for n < 2; from its loop label on  *)
(* it dereferences a, calls cmp and steps through the array by es (with   *)
(* es = 0 the partition scan never advances and d1 / es divides by zero). *)
(* Whatever the caller passed, a call that gets that far had a non-NULL   *)
(* array and comparator, es > 0 and n and es within RSIZE_MAX: the checks *)
(* of qsort_s and the n < 2 return of local_qsort_s together keep every   *)
(* bad argument away from the sort.                                        *)
QsortSArgsUsed ==
    step \notin {"qsort_s", "entry", "done"} => args = {}

====
