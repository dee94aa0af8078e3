----------------------------- MODULE MergeSort ------------------------------
(***************************************************************************)
(* mergesort and merge of algorithm/merge_sort.c on any array, one step    *)
(* for each call, return and turn of a loop.  Arrays start at 0.           *)
(***************************************************************************)
EXTENDS Queue, Sequences, FiniteSets

CONSTANT Arrays   (* the arrays that are sorted                             *)

VARIABLES array, s,   (* the array at first and now                         *)
          calls,      (* the calls of mergesort that have not returned      *)
          buffer1,    (* what is to be merged: the first half               *)
          buffer2,    (* and the second half                                *)
          i           (* the counter of merge                               *)

mergeVars == <<array, s, calls, buffer1, buffer2, i>>

n == Cardinality(DOMAIN array)

(* A call goes through these steps; at "left" and "right" it calls itself. *)
Steps == {"begin", "left", "right", "fill", "merge"}

Call(low, high) == [low |-> low, high |-> high, at |-> "begin"]

MergeInit == /\ array \in Arrays /\ s = array
             /\ calls = <<Call(0, n - 1)>>
             /\ buffer1 = init_queue /\ buffer2 = init_queue /\ i = 0

top  == calls[Len(calls)]
mid  == (top.low + top.high) \div 2
Halt == calls = <<>>

At(step)  == ~Halt /\ top.at = step
Goto(step) == [calls EXCEPT ![Len(calls)].at = step]
Return == calls' = SubSeq(calls, 1, Len(calls) - 1)

SortLeft == /\ At("begin") /\ top.low < top.high
            /\ calls' = Append(Goto("left"), Call(top.low, mid))
            /\ UNCHANGED <<array, s, buffer1, buffer2, i>>

NothingToSort == /\ At("begin") /\ ~(top.low < top.high)
                 /\ Return
                 /\ UNCHANGED <<array, s, buffer1, buffer2, i>>

SortRight == /\ At("left")
             /\ calls' = Append(Goto("right"), Call(mid + 1, top.high))
             /\ UNCHANGED <<array, s, buffer1, buffer2, i>>

MergeBegins == /\ At("right")
               /\ calls' = Goto("fill")
               /\ buffer1' = init_queue /\ buffer2' = init_queue
               /\ i' = top.low
               /\ UNCHANGED <<array, s>>

FillBuffers == /\ At("fill") /\ i <= top.high
               /\ \/ /\ i <= mid
                     /\ buffer1' = enqueue(buffer1, s[i])
                     /\ UNCHANGED buffer2
                  \/ /\ i > mid
                     /\ buffer2' = enqueue(buffer2, s[i])
                     /\ UNCHANGED buffer1
               /\ i' = i + 1
               /\ UNCHANGED <<array, s, calls>>

BuffersFilled == /\ At("fill") /\ i > top.high
                 /\ calls' = Goto("merge") /\ i' = top.low
                 /\ UNCHANGED <<array, s, buffer1, buffer2>>

(* The smaller head goes first; when one buffer is empty, the rest. *)
FirstIsNext == /\ ~empty_queue(buffer1)
               /\ ~empty_queue(buffer2) => headq(buffer1) <= headq(buffer2)

TakeHead == /\ At("merge") /\ ~(empty_queue(buffer1) /\ empty_queue(buffer2))
            /\ \/ /\ FirstIsNext
                  /\ s' = [s EXCEPT ![i] = headq(buffer1)]
                  /\ buffer1' = dequeue(buffer1) /\ UNCHANGED buffer2
               \/ /\ ~FirstIsNext
                  /\ s' = [s EXCEPT ![i] = headq(buffer2)]
                  /\ buffer2' = dequeue(buffer2) /\ UNCHANGED buffer1
            /\ i' = i + 1
            /\ UNCHANGED <<array, calls>>

MergeEnds == /\ At("merge") /\ empty_queue(buffer1) /\ empty_queue(buffer2)
             /\ Return
             /\ UNCHANGED <<array, s, buffer1, buffer2, i>>

MergeNext == \/ SortLeft \/ NothingToSort \/ SortRight
             \/ MergeBegins \/ FillBuffers \/ BuffersFilled
             \/ TakeHead \/ MergeEnds

MergeSpec == MergeInit /\ [][MergeNext]_mergeVars /\ WF_mergeVars(MergeNext)
-----------------------------------------------------------------------------
MergeTypeOK ==
  LET Buffers == [q : [0 .. QUEUESIZE -> Int], first : 0 .. QUEUESIZE - 1,
                  last : 0 .. QUEUESIZE - 1, count : 0 .. QUEUESIZE]
  IN  /\ array \in [0 .. n - 1 -> Int] /\ s \in [0 .. n - 1 -> Int]
      /\ calls \in Seq([low : 0 .. n, high : -1 .. n - 1, at : Steps])
      /\ buffer1 \in Buffers /\ buffer2 \in Buffers
      /\ i \in 0 .. n

Occurs(a, z) == Cardinality({k \in DOMAIN a : a[k] = z})

(* As long as the halves of the array fit in the queues it is sorted in the
   end: in order, and every number is there as often as at first. *)
SortsArray ==
  Halt /\ n <= 2 * QUEUESIZE =>
    /\ \A j, k \in 0 .. n - 1 : j <= k => s[j] <= s[k]
    /\ \A z \in {array[k] : k \in DOMAIN array} \cup {s[k] : k \in DOMAIN s} :
         Occurs(s, z) = Occurs(array, z)

(* A sort that calls itself ends. *)
MergeSortEnds == Len(calls) > 1 ~> Halt
=============================================================================
