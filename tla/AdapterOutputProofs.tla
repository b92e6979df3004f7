-------------------------- MODULE AdapterOutputProofs --------------------------
(***************************************************************************)
(* What the proofs about the three adapters share: the sequence in which   *)
(* an adapter emits calls by their index holds every one of them once, in  *)
(* order.                                                                  *)
(***************************************************************************)
EXTENDS AdapterOutput, FiniteSetTheorems, TLAPS

(***************************************************************************)
(* A sequence that sorts S holds exactly the numbers of S, each once, the  *)
(* smaller before the greater.                                             *)
(***************************************************************************)
LEMMA SortedHolds ==
    ASSUME NEW S, IsFiniteSet(S), S \subseteq Nat, NEW order \in Sorted(S)
    PROVE  /\ Cardinality(S) \in Nat
           /\ DOMAIN order = 1 .. Cardinality(S)
           /\ \A n \in DOMAIN order : order[n] \in S
           /\ \A s \in S : \E n \in DOMAIN order : order[n] = s
           /\ \A j, k \in DOMAIN order : j < k => order[j] < order[k]
           /\ \A j, k \in DOMAIN order : order[j] = order[k] => j = k
           /\ order \in Seq(S)
           /\ Len(order) = Cardinality(S)
<1> DEFINE size == Cardinality(S)
<1>1. size \in Nat
  BY FS_CardinalityType
<1>2. /\ order \in [1 .. size -> S]
      /\ \A j, k \in DOMAIN order : j < k => order[j] < order[k]
  BY DEF Sorted
<1> HIDE DEF size
<1>3. \A j, k \in 1 .. size : order[j] = order[k] => j = k
  <2> SUFFICES ASSUME NEW j \in 1 .. size, NEW k \in 1 .. size, order[j] = order[k]
               PROVE  j = k
    OBVIOUS
  <2>1. order[j] \in Nat
    BY <1>2
  <2>2. ~(order[j] < order[k]) /\ ~(order[k] < order[j])
    BY <2>1
  <2>3. ~(j < k) /\ ~(k < j)
    BY <1>2, <2>2
  <2> QED
    BY <1>1, <2>3
<1>4. order \in Injection(1 .. size, S)
  BY <1>2, <1>3 DEF Injection, IsInjective
<1>5. Cardinality(1 .. size) = size
  BY <1>1, FS_Interval
<1>6. order \in Surjection(1 .. size, S)
  BY <1>4, <1>5, FS_Injection DEF size
<1>7. \A s \in S : \E n \in 1 .. size : order[n] = s
  BY <1>6 DEF Surjection
<1>8. order \in Seq(S) /\ Len(order) = size
  BY <1>1, <1>2
<1> QED
  BY <1>1, <1>2, <1>3, <1>7, <1>8 DEF size

(***************************************************************************)
(* Nothing is sorted by nothing, and a number beyond all others comes last.*)
(***************************************************************************)
LEMMA SortedEmpty == <<>> \in Sorted({})
<1>1. Cardinality({}) = 0
  BY FS_EmptySet
<1>2. <<>> \in [1 .. 0 -> {}]
  OBVIOUS
<1> QED
  BY <1>1, <1>2 DEF Sorted

LEMMA SortedAppend ==
    ASSUME NEW S, IsFiniteSet(S), S \subseteq Nat, NEW order \in Sorted(S),
           NEW n \in Nat, \A s \in S : s < n
    PROVE  /\ Append(order, n) \in Sorted(S \cup {n})
           /\ DOMAIN Append(order, n) = DOMAIN order \cup {Len(order) + 1}
           /\ \A k \in DOMAIN order : Append(order, n)[k] = order[k]
           /\ Append(order, n)[Len(order) + 1] = n
           /\ Len(order) + 1 \notin DOMAIN order
<1> DEFINE size == Cardinality(S)
           more == Append(order, n)
<1>1. /\ size \in Nat /\ DOMAIN order = 1 .. size
      /\ order \in Seq(S) /\ Len(order) = size
      /\ \A k \in DOMAIN order : order[k] \in S
      /\ \A j, k \in DOMAIN order : j < k => order[j] < order[k]
  BY SortedHolds
<1>2. n \notin S
  BY DEF Sorted
<1>3. Cardinality(S \cup {n}) = size + 1
  BY <1>2, FS_AddElement
<1> HIDE DEF size
<1>4. /\ DOMAIN more = 1 .. size + 1
      /\ \A k \in 1 .. size : more[k] = order[k]
      /\ more[size + 1] = n
  BY <1>1
<1>5. order \in Seq(S \cup {n})
  BY <1>1
<1>6. more \in [1 .. size + 1 -> S \cup {n}]
  <2>1. more \in Seq(S \cup {n}) /\ Len(more) = size + 1
    BY <1>1, <1>5
  <2> HIDE DEF more
  <2>2. more \in [1 .. Len(more) -> S \cup {n}]
    BY <2>1
  <2> QED
    BY <2>1, <2>2
<1> HIDE DEF more
<1>7. \A j, k \in DOMAIN more : j < k => more[j] < more[k]
  <2> SUFFICES ASSUME NEW j \in 1 .. size + 1, NEW k \in 1 .. size + 1, j < k
               PROVE  more[j] < more[k]
    BY <1>4
  <2>1. j \in 1 .. size
    BY <1>1
  <2>2. CASE k \in 1 .. size
    BY <1>1, <1>4, <2>1, <2>2
  <2>3. CASE k = size + 1
    BY <1>1, <1>4, <2>1, <2>3
  <2> QED
    BY <1>1, <2>2, <2>3
<1>8. more \in Sorted(S \cup {n})
  BY <1>3, <1>6, <1>7 DEF Sorted
<1>9. /\ 1 .. size + 1 = (1 .. size) \cup {size + 1}
      /\ size + 1 \notin 1 .. size
  BY <1>1
<1> QED
  BY <1>1, <1>4, <1>8, <1>9 DEF more

-------------------------------------------------------------------------------
(* Delivery of a script *)

\* Of the events of a script, those said are the first ones, none of them a
\* failure, and unless there was an error the others wait.
Delivers(script, said, waiting, result) ==
    /\ Len(said) <= Len(script)
    /\ \A k \in DOMAIN said : said[k] = script[k] /\ said[k] # Failure
    /\ result # "error" =>
         /\ Len(waiting) = Len(script) - Len(said)
         /\ \A k \in DOMAIN waiting : waiting[k] = script[Len(said) + k]

(***************************************************************************)
(* emitEvent goes on with the script: it says the next event, which is not *)
(* a failure, or it stops.                                                 *)
(***************************************************************************)
LEMMA EmitDelivers ==
    ASSUME NEW Event, emitted \in Seq(Event), queue \in Seq(Event),
           NEW script \in Seq(Event), Delivers(script, emitted, queue, outcome),
           EmitQueued
    PROVE  /\ emitted' \in Seq(Event) /\ queue' \in Seq(Event)
           /\ Delivers(script, emitted', queue', outcome')
           /\ outcome' \in {outcome, "error"}
           /\ \/ emitted' = emitted /\ outcome' = "error"
              \/ /\ outcome' = outcome
                 /\ Len(emitted) + 1 \in DOMAIN script
                 /\ emitted' = Append(emitted, script[Len(emitted) + 1])
                 /\ script[Len(emitted) + 1] # Failure
<1> DEFINE next == Head(queue)
<1>1. /\ outcome = "streaming" /\ queue # <<>>
      /\ Len(queue) \in Nat \ {0}
      /\ next \in Event
      /\ 1 \in DOMAIN queue /\ next = queue[1]
  BY DEF EmitQueued
<1>2. /\ next = script[Len(emitted) + 1]
      /\ Len(queue) = Len(script) - Len(emitted)
      /\ Len(emitted) + 1 \in DOMAIN script
  BY <1>1 DEF Delivers
<1>3. CASE next = Failure
  <2>1. outcome' = "error" /\ queue' = <<>> /\ emitted' = emitted
    BY <1>3 DEF EmitQueued
  <2> QED
    BY <2>1 DEF Delivers
<1>4. CASE next # Failure
  <2>1. emitted' = Append(emitted, next) /\ queue' = Tail(queue) /\ outcome' = outcome
    BY <1>4 DEF EmitQueued
  <2>2. /\ emitted' \in Seq(Event) /\ queue' \in Seq(Event)
        /\ Len(emitted') = Len(emitted) + 1
        /\ Len(queue') = Len(queue) - 1
    BY <1>1, <2>1
  <2>3. \A k \in DOMAIN emitted' : emitted'[k] = script[k] /\ emitted'[k] # Failure
    BY <1>2, <1>4, <2>1, <2>2 DEF Delivers
  <2>4. \A k \in DOMAIN queue' : queue'[k] = queue[k + 1] /\ k + 1 \in DOMAIN queue
    BY <1>1, <2>1, <2>2
  <2>5. \A k \in DOMAIN queue' : queue'[k] = script[Len(emitted') + k]
    <3> SUFFICES ASSUME NEW k \in DOMAIN queue'
                 PROVE  queue'[k] = script[Len(emitted') + k]
      OBVIOUS
    <3>1. k \in Nat /\ Len(emitted) \in Nat
      BY <2>2
    <3>2. queue'[k] = script[Len(emitted) + (k + 1)]
      BY <1>1, <2>4 DEF Delivers
    <3>3. Len(emitted) + (k + 1) = Len(emitted') + k
      BY <2>2, <3>1
    <3> QED
      BY <3>2, <3>3
  <2>6. Delivers(script, emitted', queue', outcome')
    BY <1>1, <1>2, <2>2, <2>3, <2>5 DEF Delivers
  <2> QED
    BY <1>2, <1>4, <2>1, <2>2, <2>6
<1> QED
  BY <1>3, <1>4

(***************************************************************************)
(* What was said keeps to the script when an error ends the stream.        *)
(***************************************************************************)
LEMMA ErrorDelivers ==
    ASSUME NEW script, NEW said, NEW waiting, NEW result,
           Delivers(script, said, waiting, result)
    PROVE  Delivers(script, said, <<>>, "error")
BY DEF Delivers

(***************************************************************************)
(* When all of a script was said, one event more may wait.                 *)
(***************************************************************************)
LEMMA MoreDelivers ==
    ASSUME NEW Event, NEW script \in Seq(Event), NEW said \in Seq(Event),
           NEW event \in Event, NEW result, result # "error",
           Delivers(script, said, <<>>, result)
    PROVE  Delivers(Append(script, event), said, <<event>>, result)
<1>1. Len(said) = Len(script) /\ Len(script) \in Nat
  BY DEF Delivers
<1>2. Len(Append(script, event)) = Len(script) + 1
  OBVIOUS
<1>3. \A k \in DOMAIN said : said[k] = Append(script, event)[k] /\ said[k] # Failure
  BY <1>1 DEF Delivers
<1> QED
  BY <1>1, <1>2, <1>3 DEF Delivers

===============================================================================
