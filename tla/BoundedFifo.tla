---------------------------- MODULE BoundedFifo ----------------------------
(***************************************************************************)
(* What Ringbuffer<T> promises its two callers: a queue of at most         *)
(* Capacity elements.  push() either appends the element or, with the      *)
(* queue full, throws std::out_of_range and leaves the queue alone; pop()  *)
(* either takes the oldest element or, with the queue empty, throws.  Each *)
(* call takes effect in one step, whatever the other thread is doing.      *)
(***************************************************************************)
EXTENDS Naturals, Sequences

CONSTANTS Value,      \* what may be pushed
          NoValue,    \* the outcome of a pop() that throws
          Capacity    \* elements the queue can hold, a natural number

VARIABLES queue,      \* the elements pushed and not yet popped, oldest first
          pushed,     \* how the last push() ended
          popped      \* what the last pop() returned

fifoVars == <<queue, pushed, popped>>

FifoInit == /\ queue = <<>>
            /\ pushed = "none"
            /\ popped = NoValue

Push(v) == /\ Len(queue) < Capacity
           /\ queue' = Append(queue, v)
           /\ pushed' = "ok"
           /\ UNCHANGED popped

PushThrows == /\ Len(queue) = Capacity
              /\ pushed' = "out_of_range"
              /\ UNCHANGED <<queue, popped>>

Pop == /\ queue # <<>>
       /\ popped' = Head(queue)
       /\ queue' = Tail(queue)
       /\ UNCHANGED pushed

PopThrows == /\ queue = <<>>
             /\ popped' = NoValue
             /\ UNCHANGED <<queue, pushed>>

FifoNext == \/ \E v \in Value : Push(v)
            \/ PushThrows
            \/ Pop
            \/ PopThrows

FifoSpec == FifoInit /\ [][FifoNext]_fifoVars
=============================================================================
