---------------------- MODULE ConversationMessagesProofs ----------------------
(***************************************************************************)
(* Proofs about the messages of a conversation, for any messages, limits   *)
(* and pages that MessagesConstants allows.                                *)
(*                                                                         *)
(* The inductive invariant is MessagesInv: a completed turn has rows that  *)
(* read as one conversation between the user, the model and the tools      *)
(* (IsTurn), a run and a stored confirmation have the beginning of one     *)
(* (StateOK), and a client has the end of what was displayed when it asked *)
(* for its first page (ReaderInv).  It speaks of each turn by itself; the  *)
(* lemmas on sequences put the turns together again (RowsOfTurns).         *)
(*                                                                         *)
(* The operators of the community modules that flatten a sequence, and the *)
(* sums and the requests of the model, are recursive functions.  What they *)
(* do is proved by induction with a set: the numbers, or the sequences, of *)
(* which the formula holds (NumberInduction, SequenceInduction).           *)
(***************************************************************************)
EXTENDS ConversationMessages, SequenceTheorems, WellFoundedInduction, TLAPS

-------------------------------------------------------------------------------
(* The inductive invariant *)

Roles == {"user", "assistant", "tool"}
Message == [role: Roles, text: Nat, calls: Seq(ToolCall), results: Seq(CallIDs)]
Turn == [status: Statuses, messages: Seq(Message)]
Execution == [running: BOOLEAN, history: Seq(Message), messages: Seq(Message),
              iteration: Nat, text: Nat, calls: Seq(ToolCall), results: Seq(CallIDs)]
Position == Nat \X Nat
Reader == [pc: {"new", "paging", "too_large", "done"}, before: Position,
           shown: Seq(Position), expected: Seq(Position)]

\* Every message may follow the one before it, and a tool message answers the
\* calls of the assistant message before it, in their order.
Conversing(messages) ==
    /\ messages \in Seq(Message)
    /\ \A k \in DOMAIN messages :
         LET m == messages[k]
         IN  /\ Valid(m)
             /\ Len(m.calls) <= MaxToolCallsPerTurn
             /\ m.role # "assistant" => m.calls = <<>>
             /\ k > 1 => m.role = NextRole(messages[k - 1])
             /\ m.role = "tool" =>
                  /\ k > 1
                  /\ Len(m.results) = Len(messages[k - 1].calls)
                  /\ \A j \in DOMAIN m.results : m.results[j] = messages[k - 1].calls[j].id

\* The rows of some completed turns.
Stored(rows) ==
    /\ Conversing(rows)
    /\ \A k \in DOMAIN rows : DistinctIDs(rows[k].calls)
    /\ rows # <<>> => rows[1].role = "user" /\ NextRole(Last(rows)) = "user"

\* What a run of the agent keeps, when the model or the next call is due.
StateOK(state) ==
    /\ Conversing(state.messages) /\ state.messages # <<>>
    /\ \A k \in DOMAIN state.messages : state.messages[k].role = "user" <=> k = 1
    /\ NextRole(Last(state.messages)) = "assistant"
    /\ state.iteration \in 0 .. MaxIterations
    /\ Len(state.messages) =
         2 * (IF state.calls = <<>> THEN state.iteration ELSE state.iteration - 1) + 1
    /\ state.text \in Nat
    /\ state.calls \in Seq(ToolCall) /\ Len(state.calls) <= MaxToolCallsPerTurn
    /\ state.results \in Seq(CallIDs)
    /\ state.calls = <<>> => state.results = <<>>
    /\ state.calls # <<>> => Len(state.results) < Len(state.calls)
    /\ \A j \in DOMAIN state.results : state.results[j] = state.calls[j].id

\* The rows of one turn, if it completed.
IsTurn(rows) ==
    /\ Stored(rows)
    /\ \A k \in DOMAIN rows : rows[k].role = "user" <=> k = 1

TurnsOK(some) ==
    /\ some \in Seq(Turn) /\ Len(some) <= MaxTurns
    /\ \A t \in DOMAIN some :
         /\ some[t].messages # <<>> <=> some[t].status = "completed"
         /\ some[t].status \in {"running", "awaiting_confirmation"} => t = Len(some)
         /\ IsTurn(some[t].messages)

TurnsInv == TurnsOK(turns)

RowsInv == Len(Rows) <= MaxMessages /\ Size(Rows) <= MaxConversationBytes

ExecutionInv ==
    /\ execution \in Execution
    /\ ~execution.running => execution = Idle
    /\ execution.running =>
         /\ turns # <<>> /\ Last(turns).status = "running"
         /\ StateOK(execution)
         /\ execution.history = boundHistory(Rows)
         /\ ~Grown(Rows)

ConfirmationInv ==
    confirmation # NoConfirmation =>
      /\ turns # <<>> /\ Last(turns).status = "awaiting_confirmation"
      /\ confirmation.hash \in Arguments
      /\ StateOK(confirmation.state) /\ confirmation.state.calls # <<>>
      /\ PendingCall(confirmation.state).arguments = Marshal(confirmation.hash)
      /\ ~Grown(Rows)

\* The client has the end of what was displayed when it asked for its first page,
\* which still begins what is displayed; the cursor is at what it has.
ReaderInv ==
    LET left == Len(reader.expected) - Len(reader.shown)
    IN  /\ reader \in Reader
        /\ left >= 0 /\ reader.shown = From(reader.expected, left + 1)
        /\ Len(reader.expected) <= Len(Displayed)
        /\ \A k \in DOMAIN reader.expected : reader.expected[k] = Displayed[k]
        /\ reader.pc = "new" => reader.expected = <<>>
        /\ reader.pc = "paging" => left > 0 /\ left < Len(reader.expected)
                                   /\ reader.before = reader.expected[left + 1]
        /\ reader.pc = "done" => left = 0
        /\ reader.pc = "too_large" => left > 0 /\ ItemSize(reader.expected[left]) > PageBytes

RunInv == TurnsInv /\ RowsInv /\ ExecutionInv /\ ConfirmationInv

MessagesInv == RunInv /\ ReaderInv

-------------------------------------------------------------------------------
(* Induction *)

(***************************************************************************)
(* A set of numbers has a least one.                                       *)
(***************************************************************************)
LEMMA LeastNumber ==
    ASSUME NEW S \in SUBSET Nat, S # {}
    PROVE  \E n \in S : \A m \in S : n <= m
<1>. DEFINE R == {p \in Nat \X Nat : p[1] < p[2]}
<1>1. IsWellFoundedOn(OpToRel(<, Nat), Nat)
  BY NatLessThanWellFounded
<1>2. IsWellFoundedOn(R, Nat)
  BY <1>1, Zenon DEF OpToRel
<1>3. \A m, n \in Nat : <<m, n>> \in R <=> m < n
  OBVIOUS
<1>. HIDE DEF R
<1>4. \E n \in S : \A m \in S : ~ (<<m, n>> \in R)
  BY <1>2, WFMin
<1>5. PICK n \in S : \A m \in S : ~ (<<m, n>> \in R)
  BY <1>4
<1>6. ASSUME NEW m \in S PROVE n <= m
  <2>1. m \in Nat /\ n \in Nat
    OBVIOUS
  <2>2. ~(m < n)
    BY <1>3, <1>5, <2>1
  <2>3. QED BY <2>1, <2>2
<1>7. QED BY <1>6

(***************************************************************************)
(* What holds of 0, and of n + 1 when it holds of n, holds of all numbers; *)
(* likewise for the sequences.                                             *)
(***************************************************************************)
LEMMA NumberInduction ==
    ASSUME NEW good, 0 \in good, \A n \in Nat : n \in good => n + 1 \in good
    PROVE  \A n \in Nat : n \in good
<1>. DEFINE bad == {n \in Nat : n \notin good}
<1>1. SUFFICES ASSUME bad # {} PROVE FALSE
  OBVIOUS
<1>2. PICK n \in bad : \A m \in bad : n <= m
  BY <1>1, LeastNumber
<1>3. n # 0 /\ n - 1 \in Nat
  BY <1>2
<1>4. n - 1 \in good
  BY <1>2, <1>3
<1>5. QED BY <1>2, <1>3, <1>4

\* A set of sequences with the empty one, closed under Append, has them all.
LEMMA SequenceInduction ==
    ASSUME NEW S, NEW good, <<>> \in good,
           \A s \in Seq(S), e \in S : s \in good => Append(s, e) \in good
    PROVE  \A s \in Seq(S) : s \in good
<1>. DEFINE lengths == {n \in Nat : \A s \in Seq(S) : Len(s) = n => s \in good}
<1>1. 0 \in lengths
  OBVIOUS
<1>2. ASSUME NEW n \in Nat, n \in lengths PROVE n + 1 \in lengths
  <2>1. SUFFICES ASSUME NEW s \in Seq(S), Len(s) = n + 1 PROVE s \in good
    OBVIOUS
  <2>2. s # <<>>
    BY <1>2, <2>1
  <2>3. PICK r \in Seq(S), e \in S : s = Append(r, e)
    BY <2>2, SequenceEmptyOrAppend
  <2>4. Len(r) = n
    BY <2>1, <2>3
  <2>5. QED BY <1>2, <2>3, <2>4
<1>. HIDE DEF lengths
<1>3. \A n \in Nat : n \in lengths
  BY <1>1, <1>2, NumberInduction
<1>4. QED BY <1>3 DEF lengths

(***************************************************************************)
(* A function defined by recursion on an interval exists, and two of them  *)
(* that start alike and go on alike are the same.                          *)
(***************************************************************************)
\* f starts with base and goes on by step.
Follows(f, N, V, base, step) ==
    /\ f \in [0 .. N -> V] /\ f[0] = base
    /\ \A n \in 1 .. N : f[n] = step[<<n, f[n - 1]>>]

\* A recursive function on 0 .. N exists, whatever its step.
LEMMA RecursionExists ==
    ASSUME NEW N \in Nat, NEW V, NEW base \in V, NEW step \in [(1 .. N) \X V -> V]
    PROVE  \E f : Follows(f, N, V, base, step)
<1>. DEFINE Upto(f, n) == Follows(f, n, V, base, step)
            good == {n \in Nat : n <= N => \E f : Upto(f, n)}
<1>1. 0 \in good
  <2>1. Upto([n \in 0 .. 0 |-> base], 0)
    BY DEF Follows
  <2>2. QED BY <2>1
<1>2. ASSUME NEW n \in Nat, n \in good PROVE n + 1 \in good
  <2>1. SUFFICES ASSUME n + 1 <= N PROVE \E f : Upto(f, n + 1)
    OBVIOUS
  <2>2. PICK f : Upto(f, n)
    BY <1>2, <2>1
  <2>. DEFINE g == [k \in 0 .. n + 1 |-> IF k = n + 1 THEN step[<<n + 1, f[n]>>] ELSE f[k]]
  <2>3. step[<<n + 1, f[n]>>] \in V
    BY <2>1, <2>2 DEF Follows
  <2>4. g \in [0 .. n + 1 -> V] /\ g[0] = base
    BY <2>2, <2>3 DEF Follows
  <2>5. ASSUME NEW k \in 1 .. n + 1 PROVE g[k] = step[<<k, g[k - 1]>>]
    <3>1. CASE k = n + 1
      <4>1. k - 1 = n /\ n \in 0 .. n + 1 /\ n # n + 1
        BY <3>1
      <4>2. QED BY <3>1, <4>1
    <3>2. CASE k # n + 1
      <4>1. k \in 1 .. n /\ k \in 0 .. n + 1 /\ k - 1 \in 0 .. n + 1 /\ k - 1 # n + 1
        BY <3>2
      <4>2. g[k] = f[k] /\ g[k - 1] = f[k - 1]
        BY <3>2, <4>1
      <4>3. QED BY <2>2, <4>1, <4>2 DEF Follows
    <3>3. QED BY <3>1, <3>2
  <2>6. Upto(g, n + 1)
    BY <2>4, <2>5 DEF Follows
  <2>7. QED BY <2>6
<1>. HIDE DEF good
<1>3. \A n \in Nat : n \in good
  BY <1>1, <1>2, NumberInduction
<1>4. QED BY <1>3 DEF good

AgreeStep(f, g, N) ==
    f[0] = g[0] /\ \A n \in 1 .. N : f[n - 1] = g[n - 1] => f[n] = g[n]

Agree(f, g, N) == \A n \in 0 .. N : f[n] = g[n]

\* Two functions that start alike and step alike are the same on 0 .. N.
LEMMA RecursionUnique ==
    ASSUME NEW f, NEW g, NEW N \in Nat, AgreeStep(f, g, N)
    PROVE  Agree(f, g, N)
<1>. DEFINE good == {n \in Nat : n <= N => f[n] = g[n]}
<1>1. 0 \in good
  BY DEF AgreeStep
<1>2. ASSUME NEW n \in Nat, n \in good PROVE n + 1 \in good
  <2>1. SUFFICES ASSUME n + 1 <= N PROVE f[n + 1] = g[n + 1]
    OBVIOUS
  <2>2. n + 1 \in 1 .. N /\ (n + 1) - 1 = n
    BY <2>1
  <2>3. f[n] = g[n]
    BY <1>2, <2>1
  <2>4. QED BY <2>2, <2>3 DEF AgreeStep
<1>. HIDE DEF good
<1>3. \A n \in Nat : n \in good
  BY <1>1, <1>2, NumberInduction
<1>4. QED BY <1>3 DEF good, Agree

(***************************************************************************)
(* A number up to another one plus 1 is that or up to it.                  *)
(***************************************************************************)
LEMMA UpToLast ==
    \A m \in Nat : \A i \in 1 .. m + 1 : i = m + 1 \/ i \in 1 .. m
OBVIOUS

-------------------------------------------------------------------------------
(* Sums *)

\* The recursive function Sum is defined by, without its choice.
SumsUp(f, s) == f = [n \in 0 .. Len(s) |-> IF n = 0 THEN 0 ELSE f[n - 1] + s[n]]

(***************************************************************************)
(* A sum has the partial sums it is defined by.                            *)
(***************************************************************************)
LEMMA PartialSums ==
    ASSUME NEW s \in Seq(Nat)
    PROVE  \E f : /\ f \in [0 .. Len(s) -> Nat] /\ SumsUp(f, s)
                  /\ Sum(s) = f[Len(s)]
<1>. DEFINE N == Len(s)
            step == [p \in (1 .. N) \X Nat |-> p[2] + s[p[1]]]
<1>1. N \in Nat /\ \A n \in 1 .. N : s[n] \in Nat
  OBVIOUS
<1>2. step \in [(1 .. N) \X Nat -> Nat]
  BY <1>1
<1>3. \A n \in 1 .. N, v \in Nat : step[<<n, v>>] = v + s[n]
  OBVIOUS
<1>. HIDE DEF step, N
<1>4. PICK f : Follows(f, N, Nat, 0, step)
  BY <1>1, <1>2, RecursionExists
<1>5. ASSUME NEW n \in 0 .. N PROVE f[n] = IF n = 0 THEN 0 ELSE f[n - 1] + s[n]
  <2>1. CASE n = 0
    BY <1>4, <2>1 DEF Follows
  <2>2. CASE n # 0
    <3>1. n \in 1 .. N /\ n - 1 \in 0 .. N
      BY <1>1, <2>2
    <3>2. QED BY <1>3, <1>4, <2>2, <3>1 DEF Follows
  <2>3. QED BY <2>1, <2>2
<1>6. SumsUp(f, s)
  BY <1>4, <1>5 DEF SumsUp, N, Follows
<1>. DEFINE g == CHOOSE h : SumsUp(h, s)
<1>7. SumsUp(g, s)
  BY <1>6
<1>8. Sum(s) = g[N]
  BY DEF Sum, SumsUp, N
<1>9. \A n \in 0 .. N : g[n] = IF n = 0 THEN 0 ELSE g[n - 1] + s[n]
  BY <1>7 DEF SumsUp, N
<1>. HIDE DEF g
<1>10. \A n \in 0 .. N : g[n] = f[n]
  <2>1. g[0] = f[0]
    BY <1>1, <1>4, <1>9 DEF Follows
  <2>2. \A n \in 1 .. N : g[n - 1] = f[n - 1] => g[n] = f[n]
    <3>1. \A n \in 1 .. N : n \in 0 .. N /\ n # 0
      BY <1>1
    <3>2. QED BY <1>5, <1>9, <3>1
  <2>3. N \in Nat
    BY <1>1
  <2>4. AgreeStep(g, f, N)
    BY <2>1, <2>2 DEF AgreeStep
  <2>5. Agree(g, f, N)
    BY <2>3, <2>4, RecursionUnique, Zenon
  <2>6. QED BY <2>5 DEF Agree
<1>11. N \in 0 .. N
  BY <1>1
<1>12. QED BY <1>4, <1>6, <1>8, <1>10, <1>11 DEF N, Follows

(***************************************************************************)
(* The laws of a sum.                                                      *)
(***************************************************************************)
LEMMA SumType ==
    ASSUME NEW s \in Seq(Nat) PROVE Sum(s) \in Nat
<1>1. PICK f : f \in [0 .. Len(s) -> Nat] /\ Sum(s) = f[Len(s)]
  BY PartialSums
<1>2. Len(s) \in 0 .. Len(s)
  OBVIOUS
<1>3. QED BY <1>1, <1>2

\* The sum of nothing is 0.
LEMMA SumEmpty == Sum(<<>>) = 0
<1>1. <<>> \in Seq(Nat) /\ Len(<<>>) = 0
  OBVIOUS
<1>2. PICK f : SumsUp(f, <<>>) /\ Sum(<<>>) = f[Len(<<>>)]
  BY <1>1, PartialSums
<1>3. QED BY <1>1, <1>2 DEF SumsUp

\* An element appended is added to the sum.
LEMMA SumAppend ==
    ASSUME NEW s \in Seq(Nat), NEW e \in Nat
    PROVE  Sum(Append(s, e)) = Sum(s) + e
<1>. DEFINE N == Len(s)
            t == Append(s, e)
<1>1. N \in Nat /\ t \in Seq(Nat) /\ Len(t) = N + 1 /\ t[N + 1] = e
      /\ \A n \in 1 .. N : t[n] = s[n]
  OBVIOUS
<1>2. PICK f : SumsUp(f, s) /\ Sum(s) = f[N] /\ f \in [0 .. N -> Nat]
  BY PartialSums
<1>. HIDE DEF t
<1>3. PICK g : SumsUp(g, t) /\ Sum(t) = g[N + 1]
  <2>1. \E g : SumsUp(g, t) /\ Sum(t) = g[Len(t)]
    BY <1>1, PartialSums
  <2>2. QED BY <1>1, <2>1
<1>4. \A n \in 0 .. N : f[n] = IF n = 0 THEN 0 ELSE f[n - 1] + s[n]
  BY <1>2 DEF SumsUp
<1>5. \A n \in 0 .. N + 1 : g[n] = IF n = 0 THEN 0 ELSE g[n - 1] + t[n]
  BY <1>1, <1>3 DEF SumsUp
<1>. HIDE DEF N
<1>6. \A n \in 0 .. N : g[n] = f[n]
  <2>1. g[0] = f[0]
    BY <1>1, <1>4, <1>5
  <2>2. \A n \in 1 .. N : g[n - 1] = f[n - 1] => g[n] = f[n]
    <3>1. \A n \in 1 .. N : n \in 0 .. N /\ n \in 0 .. N + 1 /\ n # 0
      BY <1>1
    <3>2. QED BY <1>1, <1>4, <1>5, <3>1
  <2>3. N \in Nat
    BY <1>1
  <2>4. AgreeStep(g, f, N)
    BY <2>1, <2>2 DEF AgreeStep
  <2>5. Agree(g, f, N)
    BY <2>3, <2>4, RecursionUnique, Zenon
  <2>6. QED BY <2>5 DEF Agree
<1>7. N \in 0 .. N /\ N + 1 \in 0 .. N + 1 /\ N + 1 # 0 /\ (N + 1) - 1 = N
  BY <1>1
<1>8. g[N + 1] = g[N] + e
  BY <1>1, <1>5, <1>7
<1>9. Sum(t) = Sum(s) + e
  BY <1>2, <1>3, <1>6, <1>7, <1>8
<1>10. QED BY <1>9 DEF t

\* The sum of two sequences put together is the sum of their sums.
LEMMA SumConcat ==
    ASSUME NEW s \in Seq(Nat), NEW t \in Seq(Nat)
    PROVE  Sum(s \o t) = Sum(s) + Sum(t)
<1>. DEFINE good == {r \in Seq(Nat) : Sum(s \o r) = Sum(s) + Sum(r)}
<1>1. <<>> \in good
  <2>1. s \o <<>> = s /\ <<>> \in Seq(Nat)
    OBVIOUS
  <2>2. QED BY <2>1, SumEmpty, SumType
<1>2. ASSUME NEW r \in Seq(Nat), NEW e \in Nat, r \in good
      PROVE  Append(r, e) \in good
  <2>1. s \o Append(r, e) = Append(s \o r, e) /\ s \o r \in Seq(Nat) /\ Append(r, e) \in Seq(Nat)
    OBVIOUS
  <2>2. Sum(s \o Append(r, e)) = Sum(s) + Sum(r) + e
    BY <1>2, <2>1, SumAppend
  <2>3. Sum(Append(r, e)) = Sum(r) + e
    BY SumAppend
  <2>4. Sum(s) \in Nat /\ Sum(r) \in Nat
    BY SumType
  <2>5. Sum(s) + Sum(r) + e = Sum(s) + (Sum(r) + e)
    BY <2>4
  <2>6. QED BY <2>1, <2>2, <2>3, <2>5
<1>. HIDE DEF good
<1>3. \A r \in Seq(Nat) : r \in good
  BY <1>1, <1>2, SequenceInduction
<1>4. QED BY <1>3 DEF good

-------------------------------------------------------------------------------
(* Sequences of sequences *)

\* The recursive function FlattenSeq is defined by, without its choice.
Flattens(f, ss) ==
    f = [n \in 1 .. Len(ss) |-> IF n = 1 THEN ss[n] ELSE f[n - 1] \o ss[n]]

(***************************************************************************)
(* FlattenSeq has the partial results it is defined by.                    *)
(***************************************************************************)
LEMMA PartialFlatten ==
    ASSUME NEW S, NEW ss \in Seq(Seq(S)), ss # <<>>
    PROVE  \E f : /\ \A n \in 1 .. Len(ss) : f[n] \in Seq(S)
                  /\ Flattens(f, ss) /\ FlattenSeq(ss) = f[Len(ss)]
<1>. DEFINE N == Len(ss)
            V == Seq(S)
            step == [p \in (1 .. N) \X V |-> p[2] \o ss[p[1]]]
<1>1. N \in Nat \ {0} /\ \A n \in 1 .. N : ss[n] \in V
  OBVIOUS
<1>2. \A v, w \in V : v \o w \in V
  OBVIOUS
<1>3. \A v \in V : <<>> \o v = v
  OBVIOUS
<1>4. <<>> \in V
  OBVIOUS
<1>. HIDE DEF V, N
<1>5. step \in [(1 .. N) \X V -> V]
  BY <1>1, <1>2
<1>6. \A n \in 1 .. N, v \in V : step[<<n, v>>] = v \o ss[n]
  OBVIOUS
<1>. HIDE DEF step
<1>7. PICK h : Follows(h, N, V, <<>>, step)
  BY <1>1, <1>4, <1>5, RecursionExists
<1>. DEFINE f == [n \in 1 .. N |-> h[n]]
<1>8. \A n \in 1 .. N : f[n] \in V
  <2>1. \A n \in 0 .. N : h[n] \in V
    BY <1>7 DEF Follows
  <2>2. \A n \in 1 .. N : n \in 0 .. N
    BY <1>1
  <2>3. QED BY <2>1, <2>2
<1>9. ASSUME NEW n \in 1 .. N PROVE f[n] = IF n = 1 THEN ss[n] ELSE f[n - 1] \o ss[n]
  <2>1. n - 1 \in 0 .. N /\ h[n - 1] \in V /\ h[n] = h[n - 1] \o ss[n]
    <3>1. n - 1 \in 0 .. N
      BY <1>1
    <3>2. h[n - 1] \in V /\ h[n] = step[<<n, h[n - 1]>>]
      BY <1>7, <3>1 DEF Follows
    <3>3. QED BY <1>6, <3>1, <3>2
  <2>2. CASE n = 1
    <3>1. h[n - 1] = <<>>
      BY <1>7, <2>2 DEF Follows
    <3>2. QED BY <1>1, <1>3, <2>1, <2>2, <3>1
  <2>3. CASE n # 1
    <3>1. n - 1 \in 1 .. N
      BY <1>1, <2>3
    <3>2. QED BY <2>1, <2>3, <3>1
  <2>4. QED BY <2>2, <2>3
<1>10. Flattens(f, ss)
  BY <1>9 DEF Flattens, N
<1>. DEFINE g == CHOOSE k : Flattens(k, ss)
<1>11. Flattens(g, ss)
  BY <1>10
<1>12. FlattenSeq(ss) = g[N]
  BY <1>1 DEF FlattenSeq, Flattens, N
<1>13. \A n \in 1 .. N : g[n] = IF n = 1 THEN ss[n] ELSE g[n - 1] \o ss[n]
  BY <1>11 DEF Flattens, N
<1>. HIDE DEF f, g
<1>14. \A n \in 1 .. N : g[n] = f[n]
  <2>. DEFINE good == {n \in Nat : n \in 1 .. N => g[n] = f[n]}
  <2>1. 0 \in good
    BY <1>1
  <2>2. ASSUME NEW n \in Nat, n \in good PROVE n + 1 \in good
    <3>1. SUFFICES ASSUME n + 1 \in 1 .. N PROVE g[n + 1] = f[n + 1]
      OBVIOUS
    <3>2. n + 1 = 1 \/ (n + 1 # 1 /\ n \in 1 .. N /\ (n + 1) - 1 = n)
      BY <1>1, <3>1
    <3>3. QED BY <1>9, <1>13, <2>2, <3>1, <3>2
  <2>. HIDE DEF good
  <2>3. \A n \in Nat : n \in good
    BY <2>1, <2>2, NumberInduction
  <2>4. QED BY <1>1, <2>3 DEF good
<1>15. N \in 1 .. N
  BY <1>1
<1>16. QED BY <1>8, <1>10, <1>12, <1>14, <1>15 DEF N, V

(***************************************************************************)
(* The laws of FlattenSeq.                                                 *)
(***************************************************************************)
LEMMA FlattenEmpty == FlattenSeq(<<>>) = <<>>
BY DEF FlattenSeq

\* Flattening gives a sequence of the elements of the sequences.
LEMMA FlattenType ==
    ASSUME NEW S, NEW ss \in Seq(Seq(S)) PROVE FlattenSeq(ss) \in Seq(S)
<1>1. CASE ss = <<>>
  <2>1. <<>> \in Seq(S)
    OBVIOUS
  <2>2. QED BY <1>1, <2>1, FlattenEmpty, Zenon
<1>2. CASE ss # <<>>
  <2>. DEFINE N == Len(ss)
              V == Seq(S)
  <2>1. PICK f : (\A n \in 1 .. N : f[n] \in V) /\ FlattenSeq(ss) = f[N]
    BY <1>2, PartialFlatten
  <2>2. N \in 1 .. N
    BY <1>2
  <2>. HIDE DEF N, V
  <2>3. FlattenSeq(ss) \in V
    BY <2>1, <2>2
  <2>4. QED BY <2>3 DEF V
<1>3. QED BY <1>1, <1>2

\* A sequence appended to the list goes to the end of what it flattens to.
LEMMA FlattenAppend ==
    ASSUME NEW S, NEW ss \in Seq(Seq(S)), NEW e \in Seq(S)
    PROVE  FlattenSeq(Append(ss, e)) = FlattenSeq(ss) \o e
<1>. DEFINE V == Seq(S)
            N == Len(ss)
            t == Append(ss, e)
<1>1. N \in Nat /\ t \in Seq(V) /\ t # <<>> /\ Len(t) = N + 1 /\ t[N + 1] = e
      /\ \A n \in 1 .. N : t[n] = ss[n]
  <2>1. ss \in Seq(V) /\ e \in V
    OBVIOUS
  <2>. HIDE DEF V
  <2>2. QED BY <2>1, AppendProperties
<1>. HIDE DEF t
<1>2. PICK g : Flattens(g, t) /\ FlattenSeq(t) = g[N + 1]
  <2>1. \E g : Flattens(g, t) /\ FlattenSeq(t) = g[Len(t)]
    BY <1>1, PartialFlatten
  <2>2. QED BY <1>1, <2>1
<1>3. \A n \in 1 .. N + 1 : g[n] = IF n = 1 THEN t[n] ELSE g[n - 1] \o t[n]
  BY <1>1, <1>2 DEF Flattens
<1>4. CASE ss = <<>>
  <2>1. N = 0 /\ FlattenSeq(ss) = <<>> /\ <<>> \o e = e
    BY <1>4, FlattenEmpty
  <2>2. g[N + 1] = e
    BY <1>1, <1>3, <2>1
  <2>3. QED BY <1>2, <2>1, <2>2 DEF t
<1>5. CASE ss # <<>>
  <2>1. PICK f : Flattens(f, ss) /\ FlattenSeq(ss) = f[N]
    BY <1>5, PartialFlatten
  <2>2. \A n \in 1 .. N : f[n] = IF n = 1 THEN ss[n] ELSE f[n - 1] \o ss[n]
    BY <2>1 DEF Flattens
  <2>3. N # 0
    BY <1>5
  <2>. HIDE DEF N
  <2>4. \A n \in 1 .. N : g[n] = f[n]
    <3>. DEFINE good == {n \in Nat : n \in 1 .. N => g[n] = f[n]}
    <3>1. 0 \in good
      BY <1>1
    <3>2. ASSUME NEW n \in Nat, n \in good PROVE n + 1 \in good
      <4>1. SUFFICES ASSUME n + 1 \in 1 .. N PROVE g[n + 1] = f[n + 1]
        OBVIOUS
      <4>2. n + 1 \in 1 .. N + 1 /\ t[n + 1] = ss[n + 1]
        BY <1>1, <4>1
      <4>3. n + 1 = 1 \/ (n + 1 # 1 /\ n \in 1 .. N /\ (n + 1) - 1 = n)
        BY <1>1, <4>1
      <4>4. CASE n + 1 = 1
        BY <1>3, <2>2, <4>1, <4>2, <4>4
      <4>5. CASE n + 1 # 1
        <5>1. g[n] = f[n]
          BY <3>2, <4>3, <4>5
        <5>2. g[n + 1] = g[n] \o t[n + 1] /\ f[n + 1] = f[n] \o ss[n + 1]
          BY <1>3, <2>2, <4>1, <4>2, <4>3, <4>5
        <5>3. QED BY <4>2, <5>1, <5>2
      <4>6. QED BY <4>4, <4>5
    <3>. HIDE DEF good
    <3>3. \A n \in Nat : n \in good
      BY <3>1, <3>2, NumberInduction
    <3>4. QED BY <1>1, <3>3 DEF good
  <2>5. N \in 1 .. N /\ N + 1 \in 1 .. N + 1 /\ N + 1 # 1 /\ (N + 1) - 1 = N
    BY <1>1, <2>3
  <2>6. g[N + 1] = g[N] \o e
    BY <1>1, <1>3, <2>5
  <2>7. QED BY <1>2, <2>1, <2>4, <2>5, <2>6 DEF t
<1>6. QED BY <1>4, <1>5

\* Flattening distributes over concatenation.
LEMMA FlattenConcat ==
    ASSUME NEW S, NEW ss \in Seq(Seq(S)), NEW tt \in Seq(Seq(S))
    PROVE  FlattenSeq(ss \o tt) = FlattenSeq(ss) \o FlattenSeq(tt)
<1>. DEFINE V == Seq(S)
            Flat(r) == FlattenSeq(r)
            good == {r \in Seq(V) : Flat(ss \o r) = Flat(ss) \o Flat(r)}
<1>1. \A r \in Seq(V) : Flat(r) \in V
  BY FlattenType
<1>2. \A r \in Seq(V), e \in V : Flat(Append(r, e)) = Flat(r) \o e
  BY FlattenAppend
<1>3. \A v \in V : v \o <<>> = v
  OBVIOUS
<1>4. \A u, v, w \in V : (u \o v) \o w = u \o (v \o w)
  BY ConcatAssociative
<1>5. Flat(<<>>) = <<>>
  BY FlattenEmpty
<1>6. ss \in Seq(V) /\ tt \in Seq(V)
  OBVIOUS
<1>. HIDE DEF V, Flat
<1>7. <<>> \in good
  <2>1. ss \o <<>> = ss /\ <<>> \in Seq(V)
    BY <1>6
  <2>2. QED BY <1>1, <1>3, <1>5, <1>6, <2>1
<1>8. ASSUME NEW r \in Seq(V), NEW e \in V, r \in good
      PROVE  Append(r, e) \in good
  <2>1. /\ ss \o Append(r, e) = Append(ss \o r, e) /\ ss \o r \in Seq(V)
        /\ Append(r, e) \in Seq(V)
    BY <1>6
  <2>2. Flat(ss \o Append(r, e)) = (Flat(ss) \o Flat(r)) \o e
    BY <1>2, <1>8, <2>1
  <2>3. (Flat(ss) \o Flat(r)) \o e = Flat(ss) \o Flat(Append(r, e))
    <3>1. Flat(ss) \in V /\ Flat(r) \in V
      BY <1>1, <1>6
    <3>2. (Flat(ss) \o Flat(r)) \o e = Flat(ss) \o (Flat(r) \o e)
      BY <1>4, <3>1
    <3>3. QED BY <1>2, <3>2
  <2>4. QED BY <2>1, <2>2, <2>3
<1>. HIDE DEF good
<1>9. \A r \in Seq(V) : r \in good
  BY <1>7, <1>8, SequenceInduction
<1>10. QED BY <1>6, <1>9 DEF good, Flat

-------------------------------------------------------------------------------
(* The messages of some turns *)

MessagesIn(turn) == IF turn.status = "completed" THEN turn.messages ELSE <<>>

(***************************************************************************)
(* The messages of turns: of none, of one more, and of some after others.  *)
(***************************************************************************)
LEMMA MessagesInType ==
    ASSUME NEW turn \in Turn PROVE MessagesIn(turn) \in Seq(Message)
BY DEF MessagesIn, Turn

\* The rows of some turns are those of each of them, flattened (LoadHistory).
LEMMA MessagesByTurn ==
    ASSUME NEW some \in Seq(Turn)
    PROVE  /\ [t \in DOMAIN some |-> MessagesIn(some[t])] \in Seq(Seq(Message))
           /\ MessagesOf(some) = FlattenSeq([t \in DOMAIN some |-> MessagesIn(some[t])])
<1>. DEFINE V == Seq(Message)
            N == Len(some)
            parts == [t \in DOMAIN some |-> MessagesIn(some[t])]
<1>1. N \in Nat /\ DOMAIN some = 1 .. N /\ \A t \in 1 .. N : some[t] \in Turn
  OBVIOUS
<1>. HIDE DEF N, V
<1>2. \A t \in 1 .. N : MessagesIn(some[t]) \in V
  BY <1>1, MessagesInType DEF V
<1>3. parts \in [1 .. N -> V]
  BY <1>1, <1>2
<1>4. parts \in Seq(V)
  BY <1>1, <1>3
<1>5. MessagesOf(some) = FlattenSeq(parts)
  BY DEF MessagesOf, MessagesIn
<1>6. QED BY <1>4, <1>5 DEF V

\* Rows are messages.
LEMMA MessagesOfType ==
    ASSUME NEW some \in Seq(Turn) PROVE MessagesOf(some) \in Seq(Message)
<1>. DEFINE parts == [t \in DOMAIN some |-> MessagesIn(some[t])]
<1>1. parts \in Seq(Seq(Message)) /\ MessagesOf(some) = FlattenSeq(parts)
  BY MessagesByTurn
<1>. HIDE DEF parts
<1>2. QED BY <1>1, FlattenType

\* No turn has no rows.
LEMMA MessagesOfNone == MessagesOf(<<>>) = <<>>
<1>. DEFINE parts == [t \in DOMAIN <<>> |-> MessagesIn(<<>>[t])]
<1>1. <<>> \in Seq(Turn)
  OBVIOUS
<1>2. MessagesOf(<<>>) = FlattenSeq(parts)
  BY <1>1, MessagesByTurn
<1>3. parts = <<>>
  OBVIOUS
<1>4. QED BY <1>2, <1>3, FlattenEmpty

\* A turn appended puts its rows, if it completed, at the end.
LEMMA MessagesOfAppend ==
    ASSUME NEW some \in Seq(Turn), NEW turn \in Turn
    PROVE  MessagesOf(Append(some, turn)) = MessagesOf(some) \o MessagesIn(turn)
<1>. DEFINE more == Append(some, turn)
            N == Len(some)
            V == Seq(Message)
            parts == [t \in DOMAIN some |-> MessagesIn(some[t])]
            parts2 == [t \in DOMAIN more |-> MessagesIn(more[t])]
<1>1. /\ N \in Nat /\ more \in Seq(Turn) /\ DOMAIN more = 1 .. N + 1 /\ DOMAIN some = 1 .. N
      /\ more[N + 1] = turn /\ \A t \in 1 .. N : more[t] = some[t]
  OBVIOUS
<1>2. /\ parts \in Seq(V) /\ MessagesOf(some) = FlattenSeq(parts)
      /\ parts2 \in Seq(V) /\ MessagesOf(more) = FlattenSeq(parts2)
      /\ MessagesIn(turn) \in V
  BY <1>1, MessagesByTurn, MessagesInType
<1>3. Len(parts) = N /\ Len(parts2) = N + 1
  BY <1>1, <1>2
<1>4. /\ \A t \in 1 .. N : parts[t] = MessagesIn(some[t])
      /\ \A t \in 1 .. N + 1 : parts2[t] = MessagesIn(more[t])
  BY <1>1
<1>5. /\ N + 1 \in 1 .. N + 1
      /\ \A t \in 1 .. N : t \in 1 .. N + 1
      /\ \A t \in 1 .. N + 1 : t = N + 1 \/ t \in 1 .. N
  BY <1>1
<1>. HIDE DEF parts, parts2, V, N, more
<1>6. parts2 = Append(parts, MessagesIn(turn))
  <2>. DEFINE w == Append(parts, MessagesIn(turn))
  <2>1. w \in Seq(V) /\ Len(w) = N + 1 /\ w[N + 1] = MessagesIn(turn)
        /\ \A t \in 1 .. N : w[t] = parts[t]
    BY <1>2, <1>3, AppendProperties
  <2>. HIDE DEF w
  <2>2. \A t \in 1 .. N + 1 : parts2[t] = w[t]
    BY <1>1, <1>4, <1>5, <2>1
  <2>3. parts2 = w
    BY <1>2, <1>3, <2>1, <2>2, SeqEqual
  <2>4. QED BY <2>3 DEF w
<1>7. FlattenSeq(parts2) = FlattenSeq(parts) \o MessagesIn(turn)
  BY <1>2, <1>6, FlattenAppend DEF V
<1>8. QED BY <1>2, <1>7 DEF more

\* The rows of two runs of turns are those of both, in order.
LEMMA MessagesOfConcat ==
    ASSUME NEW some \in Seq(Turn), NEW others \in Seq(Turn)
    PROVE  MessagesOf(some \o others) = MessagesOf(some) \o MessagesOf(others)
<1>. DEFINE good == {r \in Seq(Turn) : MessagesOf(some \o r) = MessagesOf(some) \o MessagesOf(r)}
<1>1. <<>> \in good
  <2>1. some \o <<>> = some /\ <<>> \in Seq(Turn)
    OBVIOUS
  <2>2. MessagesOf(some) \o <<>> = MessagesOf(some)
    BY MessagesOfType
  <2>3. QED BY <2>1, <2>2, MessagesOfNone
<1>2. ASSUME NEW r \in Seq(Turn), NEW e \in Turn, r \in good
      PROVE  Append(r, e) \in good
  <2>1. /\ some \o Append(r, e) = Append(some \o r, e) /\ some \o r \in Seq(Turn)
        /\ Append(r, e) \in Seq(Turn)
    OBVIOUS
  <2>2. MessagesOf(some \o Append(r, e)) = (MessagesOf(some) \o MessagesOf(r)) \o MessagesIn(e)
    BY <1>2, <2>1, MessagesOfAppend
  <2>3. (MessagesOf(some) \o MessagesOf(r)) \o MessagesIn(e)
          = MessagesOf(some) \o MessagesOf(Append(r, e))
    <3>1. /\ MessagesOf(some) \in Seq(Message) /\ MessagesOf(r) \in Seq(Message)
          /\ MessagesIn(e) \in Seq(Message)
      BY MessagesOfType, MessagesInType
    <3>2. (MessagesOf(some) \o MessagesOf(r)) \o MessagesIn(e)
            = MessagesOf(some) \o (MessagesOf(r) \o MessagesIn(e))
      BY <3>1, ConcatAssociative, SMTT(30)
    <3>3. QED BY <3>2, MessagesOfAppend
  <2>4. QED BY <2>1, <2>2, <2>3
<1>. HIDE DEF good
<1>3. \A r \in Seq(Turn) : r \in good
  BY <1>1, <1>2, SequenceInduction
<1>4. QED BY <1>3 DEF good

-------------------------------------------------------------------------------
(* The elements of a sequence that are in a set *)

(***************************************************************************)
(* Those elements: of no elements, of one more, and of some after others.  *)
(***************************************************************************)
LEMMA ThoseType ==
    ASSUME NEW P, NEW s \in Seq(P), NEW S
    PROVE  /\ [k \in DOMAIN s |-> IF s[k] \in S THEN <<s[k]>> ELSE <<>>] \in Seq(Seq(P))
           /\ Those(s, S) \in Seq(P)
<1>. DEFINE N == Len(s)
            V == Seq(P)
            parts == [k \in DOMAIN s |-> IF s[k] \in S THEN <<s[k]>> ELSE <<>>]
<1>1. N \in Nat /\ DOMAIN s = 1 .. N
      /\ \A k \in 1 .. N : <<s[k]>> \in V
  OBVIOUS
<1>2. <<>> \in V
  OBVIOUS
<1>3. Those(s, S) = FlattenSeq(parts)
  BY DEF Those
<1>. HIDE DEF N, V
<1>4. parts \in [1 .. N -> V]
  BY <1>1, <1>2
<1>5. parts \in Seq(V)
  BY <1>1, <1>4
<1>. HIDE DEF parts
<1>6. FlattenSeq(parts) \in Seq(P)
  BY <1>5, FlattenType DEF V
<1>7. QED BY <1>3, <1>5, <1>6 DEF parts, V

\* There is nothing to select from the empty sequence.
LEMMA ThoseEmpty ==
    ASSUME NEW S PROVE Those(<<>>, S) = <<>>
<1>1. [k \in DOMAIN <<>> |-> IF <<>>[k] \in S THEN <<<<>>[k]>> ELSE <<>>] = <<>>
  OBVIOUS
<1>2. QED BY <1>1, FlattenEmpty DEF Those

\* An element appended is selected or not.
LEMMA ThoseAppend ==
    ASSUME NEW P, NEW s \in Seq(P), NEW e \in P, NEW S
    PROVE  Those(Append(s, e), S) = IF e \in S THEN Append(Those(s, S), e) ELSE Those(s, S)
<1>. DEFINE more == Append(s, e)
            N == Len(s)
            V == Seq(P)
            part(x) == IF x \in S THEN <<x>> ELSE <<>>
            parts == [k \in DOMAIN s |-> part(s[k])]
            parts2 == [k \in DOMAIN more |-> part(more[k])]
<1>1. /\ N \in Nat /\ more \in Seq(P) /\ DOMAIN more = 1 .. N + 1 /\ DOMAIN s = 1 .. N
      /\ more[N + 1] = e /\ \A k \in 1 .. N : more[k] = s[k]
  OBVIOUS
<1>2. /\ parts \in Seq(V) /\ Those(s, S) = FlattenSeq(parts)
      /\ parts2 \in Seq(V) /\ Those(more, S) = FlattenSeq(parts2)
      /\ part(e) \in V
  BY <1>1, ThoseType DEF Those
<1>3. Len(parts) = N /\ Len(parts2) = N + 1
  BY <1>1, <1>2
<1>4. /\ \A k \in 1 .. N : parts[k] = part(s[k])
      /\ \A k \in 1 .. N + 1 : parts2[k] = part(more[k])
  BY <1>1
<1>5. /\ N + 1 \in 1 .. N + 1
      /\ \A k \in 1 .. N : k \in 1 .. N + 1
      /\ \A k \in 1 .. N + 1 : k = N + 1 \/ k \in 1 .. N
  BY <1>1
<1>6. Those(s, S) \in Seq(P)
  BY ThoseType
<1>. HIDE DEF parts, parts2, V, N, more, part
<1>7. parts2 = Append(parts, part(e))
  <2>. DEFINE w == Append(parts, part(e))
  <2>1. w \in Seq(V) /\ Len(w) = N + 1 /\ w[N + 1] = part(e)
        /\ \A k \in 1 .. N : w[k] = parts[k]
    BY <1>2, <1>3, AppendProperties
  <2>. HIDE DEF w
  <2>2. \A k \in 1 .. N + 1 : parts2[k] = w[k]
    BY <1>1, <1>4, <1>5, <2>1
  <2>3. parts2 = w
    BY <1>2, <1>3, <2>1, <2>2, SeqEqual
  <2>4. QED BY <2>3 DEF w
<1>8. FlattenSeq(parts2) = FlattenSeq(parts) \o part(e)
  BY <1>2, <1>7, FlattenAppend DEF V
<1>9. Those(more, S) = Those(s, S) \o part(e)
  BY <1>2, <1>8
<1>10. Those(s, S) \o <<e>> = Append(Those(s, S), e) /\ Those(s, S) \o <<>> = Those(s, S)
  BY <1>6
<1>11. QED BY <1>9, <1>10 DEF more, part

\* Selection distributes over concatenation.
LEMMA ThoseConcat ==
    ASSUME NEW P, NEW s \in Seq(P), NEW t \in Seq(P), NEW S
    PROVE  Those(s \o t, S) = Those(s, S) \o Those(t, S)
<1>. DEFINE good == {r \in Seq(P) : Those(s \o r, S) = Those(s, S) \o Those(r, S)}
<1>1. <<>> \in good
  <2>1. s \o <<>> = s /\ <<>> \in Seq(P)
    OBVIOUS
  <2>2. Those(s, S) \o <<>> = Those(s, S)
    BY ThoseType
  <2>3. QED BY <2>1, <2>2, ThoseEmpty
<1>2. ASSUME NEW r \in Seq(P), NEW e \in P, r \in good
      PROVE  Append(r, e) \in good
  <2>1. /\ s \o Append(r, e) = Append(s \o r, e) /\ s \o r \in Seq(P)
        /\ Append(r, e) \in Seq(P)
    OBVIOUS
  <2>2. Those(s, S) \in Seq(P) /\ Those(r, S) \in Seq(P)
    BY ThoseType
  <2>3. Those(s, S) \o Append(Those(r, S), e) = Append(Those(s, S) \o Those(r, S), e)
    BY <2>2
  <2>4. Those(s \o Append(r, e), S) = IF e \in S THEN Append(Those(s \o r, S), e) ELSE Those(s \o r, S)
    BY <2>1, ThoseAppend
  <2>5. Those(Append(r, e), S) = IF e \in S THEN Append(Those(r, S), e) ELSE Those(r, S)
    BY ThoseAppend
  <2>6. QED BY <1>2, <2>1, <2>3, <2>4, <2>5
<1>. HIDE DEF good
<1>3. \A r \in Seq(P) : r \in good
  BY <1>1, <1>2, SequenceInduction
<1>4. QED BY <1>3 DEF good

(***************************************************************************)
(* Two sets that agree on the elements pick the same.                      *)
(***************************************************************************)
LEMMA ThoseSame ==
    ASSUME NEW s, NEW S, NEW T, \A k \in DOMAIN s : s[k] \in S <=> s[k] \in T
    PROVE  Those(s, S) = Those(s, T)
<1>1. [k \in DOMAIN s |-> IF s[k] \in S THEN <<s[k]>> ELSE <<>>]
        = [k \in DOMAIN s |-> IF s[k] \in T THEN <<s[k]>> ELSE <<>>]
  OBVIOUS
<1>2. QED BY <1>1 DEF Those

(***************************************************************************)
(* A set that holds them all picks all of them, one that holds none none.  *)
(***************************************************************************)
LEMMA ThoseAll ==
    ASSUME NEW P, NEW s \in Seq(P), NEW S, \A k \in DOMAIN s : s[k] \in S
    PROVE  Those(s, S) = s
<1>. DEFINE good == {r \in Seq(P) : (\A k \in DOMAIN r : r[k] \in S) => Those(r, S) = r}
<1>1. <<>> \in good
  BY ThoseEmpty
<1>2. ASSUME NEW r \in Seq(P), NEW e \in P, r \in good
      PROVE  Append(r, e) \in good
  <2>1. /\ Append(r, e) \in Seq(P) /\ DOMAIN Append(r, e) = 1 .. Len(r) + 1
        /\ Append(r, e)[Len(r) + 1] = e /\ DOMAIN r = 1 .. Len(r) /\ Len(r) \in Nat
        /\ \A k \in 1 .. Len(r) : Append(r, e)[k] = r[k]
    OBVIOUS
  <2>2. SUFFICES ASSUME \A k \in DOMAIN Append(r, e) : Append(r, e)[k] \in S
                 PROVE  Those(Append(r, e), S) = Append(r, e)
    BY <2>1
  <2>3. e \in S /\ \A k \in DOMAIN r : r[k] \in S
    BY <2>1, <2>2
  <2>4. QED BY <1>2, <2>3, ThoseAppend
<1>. HIDE DEF good
<1>3. \A r \in Seq(P) : r \in good
  BY <1>1, <1>2, SequenceInduction
<1>4. QED BY <1>3 DEF good

\* Nothing is selected when no element is in the set.
LEMMA ThoseNone ==
    ASSUME NEW P, NEW s \in Seq(P), NEW S, \A k \in DOMAIN s : s[k] \notin S
    PROVE  Those(s, S) = <<>>
<1>1. Those(s, S) = Those(s, {})
  BY ThoseSame
<1>. DEFINE good == {r \in Seq(P) : Those(r, {}) = <<>>}
<1>2. <<>> \in good
  BY ThoseEmpty
<1>3. ASSUME NEW r \in Seq(P), NEW e \in P, r \in good
      PROVE  Append(r, e) \in good
  <2>1. Append(r, e) \in Seq(P)
    OBVIOUS
  <2>2. Those(Append(r, e), {}) = Those(r, {})
    BY ThoseAppend
  <2>3. QED BY <1>3, <2>1, <2>2
<1>. HIDE DEF good
<1>4. \A r \in Seq(P) : r \in good
  BY <1>2, <1>3, SequenceInduction
<1>5. QED BY <1>1, <1>4 DEF good

-------------------------------------------------------------------------------
(* The last turn *)

(***************************************************************************)
(* A sequence is what comes before its last element and that element, so   *)
(* that another last element keeps the rest (LastTurn).                    *)
(***************************************************************************)
LEMMA ReplaceLast ==
    ASSUME NEW S, NEW s \in Seq(S), s # <<>>
    PROVE  \E front \in Seq(S) :
             /\ s = Append(front, Last(s)) /\ Last(s) \in S
             /\ Len(s) = Len(front) + 1 /\ \A k \in 1 .. Len(front) : s[k] = front[k]
             /\ \A e \in S : [s EXCEPT ![Len(s)] = e] = Append(front, e)
<1>1. PICK front \in Seq(S), last \in S : s = Append(front, last)
  BY SequenceEmptyOrAppend
<1>2. /\ Len(s) = Len(front) + 1 /\ Len(front) \in Nat
      /\ s[Len(front) + 1] = last /\ \A k \in 1 .. Len(front) : s[k] = front[k]
  BY <1>1, AppendProperties
<1>3. Last(s) = last
  BY <1>2 DEF Last
<1>4. ASSUME NEW e \in S PROVE [s EXCEPT ![Len(s)] = e] = Append(front, e)
  <2>. DEFINE t == [s EXCEPT ![Len(s)] = e]
              u == Append(front, e)
  <2>1. /\ t \in Seq(S) /\ Len(t) = Len(s)
        /\ \A k \in 1 .. Len(s) : t[k] = IF k = Len(s) THEN e ELSE s[k]
    BY <1>2, ExceptSeq
  <2>2. /\ u \in Seq(S) /\ Len(u) = Len(front) + 1
        /\ u[Len(front) + 1] = e /\ \A k \in 1 .. Len(front) : u[k] = front[k]
    BY AppendProperties
  <2>. HIDE DEF t, u
  <2>3. \A k \in 1 .. Len(t) : t[k] = u[k]
    BY <1>2, <2>1, <2>2
  <2>4. t = u
    BY <1>2, <2>1, <2>2, <2>3, SeqEqual
  <2>5. QED BY <2>4 DEF t, u
<1>5. QED BY <1>1, <1>2, <1>3, <1>4

(***************************************************************************)
(* Another last turn instead of one without messages keeps the earlier     *)
(* turns, and the messages of the turns with those of the new one at the   *)
(* end.                                                                    *)
(***************************************************************************)
LEMMA ReplaceLastTurn ==
    ASSUME NEW some \in Seq(Turn), some # <<>>, MessagesIn(Last(some)) = <<>>,
           NEW turn \in Turn
    PROVE  LET after == [some EXCEPT ![Len(some)] = turn]
           IN  /\ after \in Seq(Turn) /\ Len(after) = Len(some)
               /\ after # <<>> /\ Last(after) = turn
               /\ \A t \in 1 .. Len(some) : after[t] = IF t = Len(some) THEN turn ELSE some[t]
               /\ MessagesOf(after) = MessagesOf(some) \o MessagesIn(turn)
<1>. DEFINE after == [some EXCEPT ![Len(some)] = turn]
<1>1. Len(some) \in 1 .. Len(some)
  BY EmptySeq
<1>2. /\ after \in Seq(Turn) /\ Len(after) = Len(some)
      /\ \A t \in 1 .. Len(some) : after[t] = IF t = Len(some) THEN turn ELSE some[t]
  BY <1>1, ExceptSeq
<1>3. after # <<>> /\ Last(after) = turn
  BY <1>1, <1>2 DEF Last
<1>4. PICK front \in Seq(Turn) :
         /\ some = Append(front, Last(some)) /\ Last(some) \in Turn
         /\ \A e \in Turn : [some EXCEPT ![Len(some)] = e] = Append(front, e)
  BY ReplaceLast
<1>5. after = Append(front, turn)
  BY <1>4
<1>6. MessagesOf(after) = MessagesOf(front) \o MessagesIn(turn)
  BY <1>5, MessagesOfAppend
<1>7. MessagesOf(some) = MessagesOf(front) \o MessagesIn(Last(some))
  BY <1>4, MessagesOfAppend
<1>8. MessagesOf(some) = MessagesOf(front)
  BY <1>7, MessagesOfType, ConcatEmptySeq
<1>9. QED BY <1>2, <1>3, <1>6, <1>8

-------------------------------------------------------------------------------
(* Encoding, and conversations *)

(***************************************************************************)
(* Encoding keeps all of the messages but the arguments of the calls, and  *)
(* encoded arguments stay as they are.                                     *)
(***************************************************************************)
LEMMA MarshalType ==
    ASSUME NEW a \in Arguments
    PROVE  Marshal(a) \in Arguments /\ Marshal(Marshal(a)) = Marshal(a)
<1>1. a.plain \in Nat \ {0} /\ a.special \in Nat
  BY DEF Arguments
<1>. DEFINE n == a.plain + EscapeBytes * a.special
<1>2. n \in Nat \ {0}
  BY <1>1 DEF EscapeBytes
<1>3. n + EscapeBytes * 0 = n
  BY <1>2 DEF EscapeBytes
<1>4. Marshal(a) = [blank |-> 0, plain |-> n, special |-> 0]
  BY DEF Marshal
<1>. HIDE DEF n
<1>5. Marshal(a) \in Arguments
  BY <1>2, <1>4 DEF Arguments
<1>6. Marshal(Marshal(a)) = [blank |-> 0, plain |-> n + EscapeBytes * 0, special |-> 0]
  BY <1>4 DEF Marshal
<1>7. QED BY <1>3, <1>4, <1>5, <1>6

\* Encoded calls are calls, with the IDs they had.
LEMMA MarshalCallsType ==
    ASSUME NEW calls \in Seq(ToolCall)
    PROVE  /\ MarshalCalls(calls) \in Seq(ToolCall)
           /\ Len(MarshalCalls(calls)) = Len(calls)
           /\ \A k \in DOMAIN calls :
                /\ MarshalCalls(calls)[k].id = calls[k].id
                /\ MarshalCalls(calls)[k].arguments = Marshal(calls[k].arguments)
           /\ DistinctIDs(MarshalCalls(calls)) <=> DistinctIDs(calls)
           /\ MarshalCalls(calls) = <<>> <=> calls = <<>>
<1>1. \A k \in DOMAIN calls : calls[k] \in ToolCall
  OBVIOUS
<1>2. ASSUME NEW c \in ToolCall
      PROVE  LET d == [c EXCEPT !.arguments = Marshal(@)]
             IN  d \in ToolCall /\ d.id = c.id /\ d.arguments = Marshal(c.arguments)
  <2>1. c.arguments \in Arguments
    BY DEF ToolCall
  <2>2. Marshal(c.arguments) \in Arguments
    BY <2>1, MarshalType
  <2>3. QED BY <2>2 DEF ToolCall
<1>3. \A k \in DOMAIN calls :
        /\ MarshalCalls(calls)[k] \in ToolCall
        /\ MarshalCalls(calls)[k].id = calls[k].id
        /\ MarshalCalls(calls)[k].arguments = Marshal(calls[k].arguments)
  BY <1>1, <1>2 DEF MarshalCalls
<1>4. DOMAIN MarshalCalls(calls) = 1 .. Len(calls) /\ Len(calls) \in Nat
  BY DEF MarshalCalls
<1>5. MarshalCalls(calls) \in Seq(ToolCall) /\ Len(MarshalCalls(calls)) = Len(calls)
  <2>1. MarshalCalls(calls) \in [1 .. Len(calls) -> ToolCall]
    BY <1>1, <1>2 DEF MarshalCalls
  <2>2. QED BY <1>4, <2>1
<1>6. DistinctIDs(MarshalCalls(calls)) <=> DistinctIDs(calls)
  BY <1>3, <1>4 DEF DistinctIDs
<1>7. MarshalCalls(calls) = <<>> <=> calls = <<>>
  BY <1>5
<1>8. QED BY <1>3, <1>5, <1>6, <1>7

\* Encoded messages are messages, alike but for the arguments of calls.
LEMMA MarshalMessagesType ==
    ASSUME NEW messages \in Seq(Message)
    PROVE  /\ MarshalMessages(messages) \in Seq(Message)
           /\ Len(MarshalMessages(messages)) = Len(messages)
           /\ \A k \in DOMAIN messages :
                LET m == MarshalMessages(messages)[k]
                IN  /\ m.role = messages[k].role /\ m.text = messages[k].text
                    /\ m.results = messages[k].results
                    /\ m.calls = MarshalCalls(messages[k].calls)
<1>1. ASSUME NEW m \in Message
      PROVE  LET n == [m EXCEPT !.calls = MarshalCalls(@)]
             IN  /\ n \in Message /\ n.role = m.role /\ n.text = m.text
                 /\ n.results = m.results /\ n.calls = MarshalCalls(m.calls)
  <2>1. m.calls \in Seq(ToolCall)
    BY DEF Message
  <2>2. MarshalCalls(m.calls) \in Seq(ToolCall)
    BY <2>1, MarshalCallsType
  <2>3. QED BY <2>2 DEF Message
<1>2. \A k \in DOMAIN messages : messages[k] \in Message
  OBVIOUS
<1>3. \A k \in DOMAIN messages :
        /\ MarshalMessages(messages)[k] \in Message
        /\ LET m == MarshalMessages(messages)[k]
           IN  /\ m.role = messages[k].role /\ m.text = messages[k].text
               /\ m.results = messages[k].results
               /\ m.calls = MarshalCalls(messages[k].calls)
  BY <1>1, <1>2 DEF MarshalMessages
<1>4. DOMAIN messages = 1 .. Len(messages) /\ Len(messages) \in Nat
  OBVIOUS
<1>5. MarshalMessages(messages) \in Seq(Message)
      /\ Len(MarshalMessages(messages)) = Len(messages)
  <2>1. MarshalMessages(messages) \in [1 .. Len(messages) -> Message]
    BY <1>1, <1>2 DEF MarshalMessages
  <2>2. Len(MarshalMessages(messages)) = Len(messages)
    BY <1>4 DEF MarshalMessages
  <2>3. QED BY <1>4, <2>1, <2>2
<1>6. QED BY <1>3, <1>5

(***************************************************************************)
(* Encoded messages are a conversation when the messages are.              *)
(***************************************************************************)
LEMMA MarshalConversing ==
    ASSUME NEW messages, Conversing(messages)
    PROVE  Conversing(MarshalMessages(messages))
<1>. DEFINE encoded == MarshalMessages(messages)
<1>1. messages \in Seq(Message)
  BY DEF Conversing
<1>2. /\ encoded \in Seq(Message) /\ Len(encoded) = Len(messages)
      /\ DOMAIN encoded = DOMAIN messages /\ DOMAIN messages = 1 .. Len(messages)
      /\ Len(messages) \in Nat
  BY <1>1, MarshalMessagesType
<1>3. ASSUME NEW k \in DOMAIN messages
      PROVE  /\ messages[k].calls \in Seq(ToolCall)
             /\ encoded[k].role = messages[k].role /\ encoded[k].text = messages[k].text
             /\ encoded[k].results = messages[k].results
             /\ Len(encoded[k].calls) = Len(messages[k].calls)
             /\ encoded[k].calls = <<>> <=> messages[k].calls = <<>>
             /\ \A j \in DOMAIN messages[k].calls :
                  encoded[k].calls[j].id = messages[k].calls[j].id
  <2>1. messages[k] \in Message
    BY <1>1
  <2>2. messages[k].calls \in Seq(ToolCall)
    BY <2>1 DEF Message
  <2>3. QED BY <1>1, <2>2, MarshalMessagesType, MarshalCallsType
<1>. HIDE DEF encoded
<1>4. ASSUME NEW k \in DOMAIN messages
      PROVE  LET m == encoded[k]
             IN  /\ Valid(m)
                 /\ Len(m.calls) <= MaxToolCallsPerTurn
                 /\ m.role # "assistant" => m.calls = <<>>
                 /\ k > 1 => m.role = NextRole(encoded[k - 1])
                 /\ m.role = "tool" =>
                      /\ k > 1
                      /\ Len(m.results) = Len(encoded[k - 1].calls)
                      /\ \A j \in DOMAIN m.results : m.results[j] = encoded[k - 1].calls[j].id
  <2>1. Valid(encoded[k])
    BY <1>3 DEF Conversing, Valid
  <2>2. Len(encoded[k].calls) <= MaxToolCallsPerTurn
        /\ (encoded[k].role # "assistant" => encoded[k].calls = <<>>)
    BY <1>3 DEF Conversing
  <2>3. ASSUME k > 1 PROVE encoded[k].role = NextRole(encoded[k - 1])
    <3>1. k - 1 \in DOMAIN messages
      BY <1>2, <2>3
    <3>2. messages[k].role = NextRole(messages[k - 1])
      BY <2>3 DEF Conversing
    <3>3. NextRole(encoded[k - 1]) = NextRole(messages[k - 1])
      BY <1>3, <3>1 DEF NextRole
    <3>4. QED BY <1>3, <3>2, <3>3
  <2>4. ASSUME encoded[k].role = "tool"
        PROVE  /\ k > 1
               /\ Len(encoded[k].results) = Len(encoded[k - 1].calls)
               /\ \A j \in DOMAIN encoded[k].results :
                    encoded[k].results[j] = encoded[k - 1].calls[j].id
    <3>1. /\ k > 1
          /\ Len(messages[k].results) = Len(messages[k - 1].calls)
          /\ \A j \in DOMAIN messages[k].results :
               messages[k].results[j] = messages[k - 1].calls[j].id
      BY <1>3, <2>4 DEF Conversing
    <3>2. k - 1 \in DOMAIN messages
      BY <1>2, <3>1
    <3>3. DOMAIN messages[k].results = DOMAIN messages[k - 1].calls
      <4>1. messages[k] \in Message /\ messages[k - 1] \in Message
        BY <1>1, <3>2
      <4>2. messages[k].results \in Seq(CallIDs) /\ messages[k - 1].calls \in Seq(ToolCall)
        BY <4>1 DEF Message
      <4>3. QED BY <3>1, <4>2
    <3>4. QED BY <1>3, <3>1, <3>2, <3>3
  <2>5. QED BY <2>1, <2>2, <2>3, <2>4
<1>5. QED BY <1>2, <1>4 DEF Conversing, encoded

-------------------------------------------------------------------------------
(* Sizes, and parts of a conversation *)

(***************************************************************************)
(* Sizes are numbers, and those of two sequences of messages add up.       *)
(***************************************************************************)
LEMMA ArgumentsSizeType ==
    ASSUME NEW calls \in Seq(ToolCall)
    PROVE  \A k \in DOMAIN calls : ArgumentsSize(calls[k].arguments) \in Nat
<1>1. \A k \in DOMAIN calls : calls[k] \in ToolCall
  OBVIOUS
<1>2. QED BY <1>1 DEF ToolCall, Arguments, ArgumentsSize

\* The size of a message is a number.
LEMMA MessageSizeType ==
    ASSUME NEW m \in Message PROVE MessageSize(m) \in Nat
<1>1. m.calls \in Seq(ToolCall) /\ m.text \in Nat
  BY DEF Message
<1>. DEFINE sizes == [k \in DOMAIN m.calls |-> ArgumentsSize(m.calls[k].arguments)]
<1>2. sizes \in Seq(Nat)
  <2>1. DOMAIN m.calls = 1 .. Len(m.calls) /\ Len(m.calls) \in Nat
    BY <1>1
  <2>2. sizes \in [1 .. Len(m.calls) -> Nat]
    BY <1>1, <2>1, ArgumentsSizeType
  <2>3. QED BY <2>1, <2>2
<1>. HIDE DEF sizes
<1>3. Sum(sizes) \in Nat
  BY <1>2, SumType
<1>4. QED BY <1>1, <1>3 DEF MessageSize, sizes

\* The size of messages is a number.
LEMMA SizeType ==
    ASSUME NEW messages \in Seq(Message)
    PROVE  /\ [k \in DOMAIN messages |-> MessageSize(messages[k])] \in Seq(Nat)
           /\ Size(messages) \in Nat
<1>. DEFINE sizes == [k \in DOMAIN messages |-> MessageSize(messages[k])]
<1>1. DOMAIN messages = 1 .. Len(messages) /\ Len(messages) \in Nat
  OBVIOUS
<1>2. \A k \in 1 .. Len(messages) : MessageSize(messages[k]) \in Nat
  BY MessageSizeType
<1>3. sizes \in Seq(Nat)
  <2>1. sizes \in [1 .. Len(messages) -> Nat]
    BY <1>1, <1>2
  <2>2. QED BY <1>1, <2>1
<1>4. Size(messages) = Sum(sizes)
  BY DEF Size
<1>. HIDE DEF sizes
<1>5. Sum(sizes) \in Nat
  BY <1>3, SumType
<1>6. QED BY <1>3, <1>4, <1>5 DEF sizes

\* No messages have no size.
LEMMA SizeEmpty == Size(<<>>) = 0
<1>1. [k \in DOMAIN <<>> |-> MessageSize(<<>>[k])] = <<>>
  OBVIOUS
<1>2. QED BY <1>1, SumEmpty DEF Size

\* The size of two sequences of messages is the sum of their sizes.
LEMMA SizeConcat ==
    ASSUME NEW a \in Seq(Message), NEW b \in Seq(Message)
    PROVE  Size(a \o b) = Size(a) + Size(b)
<1>. DEFINE sizes(s) == [k \in DOMAIN s |-> MessageSize(s[k])]
            M == Len(a)
            N == Len(b)
            ab == a \o b
<1>1. /\ ab \in Seq(Message) /\ Len(ab) = M + N /\ M \in Nat /\ N \in Nat
      /\ \A k \in 1 .. M + N : ab[k] = IF k <= M THEN a[k] ELSE b[k - M]
      /\ DOMAIN a = 1 .. M /\ DOMAIN b = 1 .. N
  BY ConcatProperties
<1>2. /\ sizes(a) \in Seq(Nat) /\ Len(sizes(a)) = M
      /\ sizes(b) \in Seq(Nat) /\ Len(sizes(b)) = N
      /\ \A k \in 1 .. M : sizes(a)[k] = MessageSize(a[k])
      /\ \A k \in 1 .. N : sizes(b)[k] = MessageSize(b[k])
  <2>. HIDE DEF M, N
  <2>1. sizes(a) \in Seq(Nat) /\ sizes(b) \in Seq(Nat)
    BY SizeType
  <2>2. Len(sizes(a)) = M /\ Len(sizes(b)) = N
    BY <1>1, <2>1
  <2>3. QED BY <1>1, <2>1, <2>2
<1>3. /\ sizes(ab) \in Seq(Nat)
      /\ Len(sizes(ab)) = M + N /\ \A k \in 1 .. M + N : sizes(ab)[k] = MessageSize(ab[k])
  <2>. HIDE DEF ab, M, N
  <2>1. DOMAIN ab = 1 .. M + N
    BY <1>1
  <2>2. sizes(ab) \in Seq(Nat)
    BY <1>1, SizeType
  <2>3. Len(sizes(ab)) = M + N
    BY <1>1, <2>1, <2>2
  <2>4. QED BY <2>1, <2>2, <2>3
<1>4. /\ Size(a) = Sum(sizes(a)) /\ Size(b) = Sum(sizes(b))
      /\ Size(ab) = Sum(sizes(ab))
  BY DEF Size
<1>. HIDE DEF sizes, M, N, ab
<1>5. /\ sizes(a) \o sizes(b) \in Seq(Nat) /\ Len(sizes(a) \o sizes(b)) = M + N
      /\ \A k \in 1 .. M + N : (sizes(a) \o sizes(b))[k]
           = IF k <= M THEN sizes(a)[k] ELSE sizes(b)[k - M]
  BY <1>2, ConcatProperties
<1>6. ASSUME NEW k \in 1 .. M + N PROVE sizes(ab)[k] = (sizes(a) \o sizes(b))[k]
  <2>1. CASE k <= M
    <3>1. k \in 1 .. M
      BY <1>1, <2>1
    <3>2. ab[k] = a[k]
      BY <1>1, <2>1
    <3>3. QED BY <1>2, <1>3, <1>5, <2>1, <3>1, <3>2
  <2>2. CASE ~(k <= M)
    <3>1. k - M \in 1 .. N
      BY <1>1, <2>2
    <3>2. ab[k] = b[k - M]
      BY <1>1, <2>2
    <3>3. QED BY <1>2, <1>3, <1>5, <2>2, <3>1, <3>2
  <2>3. QED BY <2>1, <2>2
<1>7. sizes(ab) = sizes(a) \o sizes(b)
  BY <1>3, <1>5, <1>6, SeqEqual
<1>8. Sum(sizes(a) \o sizes(b)) = Sum(sizes(a)) + Sum(sizes(b))
  BY <1>2, SumConcat
<1>9. QED BY <1>4, <1>7, <1>8 DEF ab

(***************************************************************************)
(* The rest of a conversation, from a message that answers no calls, is    *)
(* one; and so is one followed by another that begins with a message that  *)
(* is due.                                                                 *)
(***************************************************************************)
LEMMA FromProperties ==
    ASSUME NEW S, NEW s \in Seq(S), NEW k \in 1 .. Len(s)
    PROVE  /\ From(s, k) \in Seq(S) /\ Len(From(s, k)) = Len(s) - k + 1
           /\ From(s, k) # <<>> /\ Last(From(s, k)) = Last(s)
           /\ \A i \in 1 .. Len(s) - k + 1 : From(s, k)[i] = s[i + k - 1]
           /\ s = SubSeq(s, 1, k - 1) \o From(s, k)
           /\ SubSeq(s, 1, k - 1) \in Seq(S)
<1>1. /\ Len(s) \in Nat /\ k \in Int /\ \A i \in k .. Len(s) : s[i] \in S
      /\ \A i \in 1 .. k - 1 : s[i] \in S
  OBVIOUS
<1>2. /\ From(s, k) \in Seq(S) /\ Len(From(s, k)) = Len(s) - k + 1
      /\ \A i \in 1 .. Len(s) - k + 1 : From(s, k)[i] = s[k + i - 1]
  BY <1>1, SubSeqProperties DEF From
<1>3. \A i \in 1 .. Len(s) - k + 1 : From(s, k)[i] = s[i + k - 1]
  BY <1>1, <1>2
<1>4. From(s, k) # <<>> /\ Len(s) - k + 1 \in 1 .. Len(s) - k + 1
  BY <1>1, <1>2
<1>5. (Len(s) - k + 1) + k - 1 = Len(s)
  BY <1>1
<1>6. Last(From(s, k)) = Last(s)
  BY <1>2, <1>3, <1>4, <1>5 DEF Last
<1>7. SubSeq(s, 1, k - 1) \in Seq(S)
  BY <1>1, SubSeqProperties
<1>8. s = SubSeq(s, 1, k - 1) \o From(s, k)
  <2>. DEFINE j == k - 1
              N == Len(s)
  <2>1. j \in Int /\ 1 \in 1 .. N + 1 /\ j \in (1 - 1) .. N /\ N \in j .. N /\ j + 1 = k
    BY <1>1
  <2>. HIDE DEF j
  <2>2. SubSeq(s, 1, j) \o SubSeq(s, j + 1, N) = SubSeq(s, 1, N)
    BY <2>1, ConcatAdjacentSubSeq
  <2>3. SubSeq(s, 1, N) = s
    BY SubSeqFull
  <2>4. QED BY <2>1, <2>2, <2>3 DEF From, j
<1>9. QED BY <1>2, <1>3, <1>4, <1>6, <1>7, <1>8

\* The end of a conversation from a message that answers no call is one itself.
LEMMA ConversingFrom ==
    ASSUME NEW messages, Conversing(messages),
           NEW k \in DOMAIN messages, messages[k].role # "tool"
    PROVE  Conversing(From(messages, k))
<1>. DEFINE N == Len(messages) - k + 1
            rest == From(messages, k)
<1>1. /\ messages \in Seq(Message) /\ k \in 1 .. Len(messages)
      /\ DOMAIN messages = 1 .. Len(messages) /\ Len(messages) \in Nat
  BY DEF Conversing
<1>2. /\ rest \in Seq(Message) /\ Len(rest) = N /\ N \in Nat /\ DOMAIN rest = 1 .. N
      /\ \A i \in 1 .. N : rest[i] = messages[i + k - 1]
  <2>1. /\ rest \in Seq(Message) /\ Len(rest) = N
        /\ \A i \in 1 .. N : rest[i] = messages[i + k - 1]
    <3>1. /\ rest \in Seq(Message) /\ Len(rest) = Len(messages) - k + 1
          /\ \A i \in 1 .. Len(messages) - k + 1 : rest[i] = messages[i + k - 1]
      BY <1>1, FromProperties, ZenonT(40)
    <3>2. QED BY <3>1 DEF N
  <2>. HIDE DEF rest
  <2>2. N \in Nat
    BY <1>1
  <2>. HIDE DEF N
  <2>3. QED BY <2>1, <2>2
<1>. HIDE DEF rest
<1>3. ASSUME NEW i \in DOMAIN rest
      PROVE  LET m == rest[i]
             IN  /\ Valid(m)
                 /\ Len(m.calls) <= MaxToolCallsPerTurn
                 /\ m.role # "assistant" => m.calls = <<>>
                 /\ i > 1 => m.role = NextRole(rest[i - 1])
                 /\ m.role = "tool" =>
                      /\ i > 1
                      /\ Len(m.results) = Len(rest[i - 1].calls)
                      /\ \A j \in DOMAIN m.results : m.results[j] = rest[i - 1].calls[j].id
  <2>. DEFINE n == i + k - 1
  <2>1. n \in DOMAIN messages /\ rest[i] = messages[n] /\ i \in Nat /\ i >= 1
        /\ (i = 1 => n = k)
    BY <1>1, <1>2
  <2>2. i > 1 => n > 1 /\ rest[i - 1] = messages[n - 1]
    <3>1. SUFFICES ASSUME i > 1 PROVE n > 1 /\ rest[i - 1] = messages[n - 1]
      OBVIOUS
    <3>2. i - 1 \in 1 .. N /\ (i - 1) + k - 1 = n - 1 /\ n > 1
      BY <1>1, <1>2, <3>1
    <3>3. QED BY <1>2, <3>2
  <2>. HIDE DEF n, N
  <2>3. rest[i].role = "tool" => i > 1
    BY <2>1
  <2>4. QED BY <2>1, <2>2, <2>3 DEF Conversing
<1>4. QED BY <1>2, <1>3 DEF Conversing, rest

\* Two conversations are one if the second begins with what the first leaves due.
LEMMA ConversingConcat ==
    ASSUME NEW a, NEW b, Conversing(a), Conversing(b),
           a # <<>> /\ b # <<>> => b[1].role = NextRole(Last(a))
    PROVE  Conversing(a \o b)
<1>. DEFINE M == Len(a)
            N == Len(b)
            ab == a \o b
<1>1. /\ a \in Seq(Message) /\ b \in Seq(Message)
      /\ ab \in Seq(Message) /\ Len(ab) = M + N /\ M \in Nat /\ N \in Nat
      /\ \A k \in 1 .. M + N : ab[k] = IF k <= M THEN a[k] ELSE b[k - M]
      /\ DOMAIN a = 1 .. M /\ DOMAIN b = 1 .. N /\ DOMAIN ab = 1 .. M + N
  BY ConcatProperties DEF Conversing
<1>2. (a # <<>> <=> M >= 1) /\ (b # <<>> <=> N >= 1)
  BY <1>1
<1>3. Last(a) = a[M]
  BY DEF Last
<1>. HIDE DEF M, N, ab
<1>4. ASSUME NEW i \in DOMAIN ab
      PROVE  LET m == ab[i]
             IN  /\ Valid(m)
                 /\ Len(m.calls) <= MaxToolCallsPerTurn
                 /\ m.role # "assistant" => m.calls = <<>>
                 /\ i > 1 => m.role = NextRole(ab[i - 1])
                 /\ m.role = "tool" =>
                      /\ i > 1
                      /\ Len(m.results) = Len(ab[i - 1].calls)
                      /\ \A j \in DOMAIN m.results : m.results[j] = ab[i - 1].calls[j].id
  <2>1. CASE i <= M
    <3>1. i \in DOMAIN a /\ ab[i] = a[i]
      BY <1>1, <2>1
    <3>2. i > 1 => ab[i - 1] = a[i - 1]
      <4>1. i > 1 => i - 1 \in 1 .. M + N /\ i - 1 <= M
        BY <1>1, <2>1
      <4>2. QED BY <1>1, <4>1
    <3>3. QED BY <3>1, <3>2 DEF Conversing
  <2>2. CASE i = M + 1
    <3>1. 1 \in DOMAIN b /\ ab[i] = b[1]
      <4>1. ~(i <= M) /\ i - M = 1 /\ 1 \in 1 .. N
        BY <1>1, <2>2
      <4>2. QED BY <1>1, <4>1
    <3>2. b[1].role # "tool" /\ Valid(b[1])
      BY <3>1 DEF Conversing
    <3>3. i > 1 => ab[i - 1] = Last(a) /\ b[1].role = NextRole(Last(a))
      <4>1. i > 1 => i - 1 \in 1 .. M + N /\ i - 1 <= M /\ i - 1 = M /\ M >= 1 /\ N >= 1
        BY <1>1, <2>2
      <4>2. QED BY <1>1, <1>2, <1>3, <4>1
    <3>4. QED BY <3>1, <3>2, <3>3 DEF Conversing
  <2>3. CASE i > M + 1
    <3>. i \in 1 .. M + N /\ M \in Nat /\ N \in Nat
      BY <1>1
    <3>1. ~(i <= M) /\ i - M \in 1 .. N /\ i - M > 1
      BY <2>3
    <3>. DOMAIN b = 1 .. N
      BY <1>1
    <3>2. ab[i] = b[i - M]
      BY <1>1, <3>1
    <3>3. i - 1 \in 1 .. M + N /\ ~(i - 1 <= M) /\ (i - 1) - M = (i - M) - 1 /\ i > 1
      BY <2>3
    <3>4. ab[i - 1] = b[(i - M) - 1]
      BY <1>1, <3>3
    <3>5. QED BY <3>1, <3>2, <3>3, <3>4, SMTT(30) DEF Conversing
  <2>4. QED BY <1>1, <2>1, <2>2, <2>3
<1>5. QED BY <1>1, <1>4 DEF Conversing, ab

-------------------------------------------------------------------------------
(* The state of a run *)

(***************************************************************************)
(* A turn starts with the message of the user; then every request of the   *)
(* model, and every answer to its calls, keeps the state of the run.       *)
(***************************************************************************)
LEMMA UserMessage ==
    ASSUME MessagesConstants, NEW prompt \in Prompts
    PROVE  /\ User(prompt) \in Message /\ Conversing(<<User(prompt)>>)
           /\ Len(<<User(prompt)>>) = 1 /\ <<User(prompt)>>[1] = User(prompt)
<1>1. User(prompt) \in Message
  <2>1. prompt \in Nat
    BY DEF MessagesConstants
  <2>2. <<>> \in Seq(ToolCall) /\ <<>> \in Seq(CallIDs)
    OBVIOUS
  <2>3. QED BY <2>1, <2>2 DEF User, Message, Roles
<1>2. /\ Valid(User(prompt)) /\ User(prompt).calls = <<>>
      /\ User(prompt).role = "user"
  BY SMTT(30) DEF User, Valid, MessagesConstants
<1>3. MaxToolCallsPerTurn \in Nat /\ Len(<<>>) = 0
  BY DEF MessagesConstants
<1>. DEFINE m == User(prompt)
<1>. HIDE DEF m
<1>4. <<m>> \in Seq(Message) /\ DOMAIN <<m>> = {1} /\ <<m>>[1] = m /\ Len(<<m>>) = 1
  BY <1>1 DEF m
<1>. DEFINE one == <<m>>
<1>. HIDE DEF one
<1>a. /\ one \in Seq(Message) /\ DOMAIN one = {1} /\ one[1] = m
      /\ Valid(m) /\ m.calls = <<>> /\ m.role = "user" /\ Len(m.calls) <= MaxToolCallsPerTurn
  BY <1>2, <1>3, <1>4 DEF m, one
<1>b. \A k \in DOMAIN one : k = 1 /\ ~(k > 1) /\ one[k] = m
  BY <1>a
<1>5. Conversing(<<m>>)
  BY <1>a, <1>b DEF Conversing, one
<1>6. QED BY <1>1, <1>4, <1>5 DEF m

\* The user's message is the state a run starts with (PrepareTurn).
LEMMA StartState ==
    ASSUME MessagesConstants, NEW prompt \in Prompts, NEW history \in Seq(Message)
    PROVE  LET next == [Idle EXCEPT !.running = TRUE, !.messages = <<User(prompt)>>,
                                    !.history = history]
           IN  next \in Execution /\ StateOK(next)
<1>. DEFINE m == User(prompt)
            next == [Idle EXCEPT !.running = TRUE, !.messages = <<m>>, !.history = history]
<1>1. /\ m \in Message /\ Conversing(<<m>>) /\ Len(<<m>>) = 1 /\ <<m>>[1] = m
      /\ m.role = "user"
  BY UserMessage DEF User
<1>. HIDE DEF m
<1>2. /\ next.messages = <<m>> /\ next.iteration = 0 /\ next.text = 0
      /\ next.calls = <<>> /\ next.results = <<>>
  BY DEF Idle
<1>3. next \in Execution
  <2>1. <<m>> \in Seq(Message) /\ <<>> \in Seq(ToolCall) /\ <<>> \in Seq(CallIDs)
    BY <1>1
  <2>2. QED BY <2>1 DEF Idle, Execution
<1>. HIDE DEF next
<1>4. /\ <<m>> # <<>> /\ NextRole(Last(<<m>>)) = "assistant"
      /\ \A k \in DOMAIN <<m>> : <<m>>[k].role = "user" <=> k = 1
  BY <1>1, SMTT(30) DEF Last, NextRole
<1>5. MaxIterations \in Nat /\ MaxToolCallsPerTurn \in Nat /\ Len(<<>>) = 0 /\ 1 = 2 * 0 + 1
  BY DEF MessagesConstants
<1>6. StateOK(next)
  BY <1>1, <1>2, <1>4, <1>5 DEF StateOK
<1>7. QED BY <1>3, <1>6 DEF next, m

\* Calls the model requests keep the state of the run.
LEMMA RequestCallsState ==
    ASSUME MessagesConstants, execution \in Execution, StateOK(execution),
           NEW request \in Requests, RequestCalls(request)
    PROVE  execution' \in Execution /\ StateOK(execution')
<1>1. /\ request.text \in Nat /\ request.calls \in Seq(ToolCall)
      /\ Len(request.calls) \in 1 .. MaxToolCallsPerTurn /\ request.calls # <<>>
      /\ MaxIterations \in Nat
  BY SMTT(30) DEF MessagesConstants
<1>2. /\ execution.calls = <<>> /\ execution.iteration < MaxIterations
      /\ execution.results = <<>> /\ execution.iteration \in 0 .. MaxIterations
  BY DEF RequestCalls, StateOK
<1>3. /\ execution' \in Execution
      /\ execution'.messages = execution.messages /\ execution'.results = execution.results
      /\ execution'.iteration = execution.iteration + 1
      /\ execution'.text = request.text /\ execution'.calls = request.calls
  <2>1. execution.iteration + 1 \in Nat
    BY <1>1, <1>2, SMTT(30)
  <2>2. QED BY <1>1, <2>1 DEF RequestCalls, Execution
<1>4. Len(execution.messages) = 2 * execution.iteration + 1
  BY <1>2 DEF StateOK
<1>5. /\ execution.iteration + 1 \in 0 .. MaxIterations
      /\ (execution.iteration + 1) - 1 = execution.iteration
      /\ Len(<<>>) = 0 /\ 0 < Len(request.calls) /\ Len(request.calls) <= MaxToolCallsPerTurn
  <2>. DEFINE i == execution.iteration
              n == Len(request.calls)
  <2>1. i \in 0 .. MaxIterations /\ i < MaxIterations /\ n \in 1 .. MaxToolCallsPerTurn
        /\ MaxIterations \in Nat /\ MaxToolCallsPerTurn \in Nat
    BY <1>1, <1>2 DEF MessagesConstants
  <2>. HIDE DEF i, n
  <2>2. i + 1 \in 0 .. MaxIterations /\ (i + 1) - 1 = i /\ 0 < n /\ n <= MaxToolCallsPerTurn
    BY <2>1
  <2>3. Len(<<>>) = 0
    OBVIOUS
  <2>4. QED BY <2>2, <2>3 DEF i, n
<1>6. QED BY <1>1, <1>2, <1>3, <1>4, <1>5 DEF StateOK

(***************************************************************************)
(* The messages of an answered iteration: the calls, and their results.    *)
(***************************************************************************)
Answered(text, calls, results) == <<Assistant(text, calls), Tool(results)>>

IsAnswered(pair) ==
    /\ Conversing(pair) /\ Len(pair) = 2
    /\ pair[1].role = "assistant" /\ pair[2].role = "tool" /\ Last(pair) = pair[2]

\* A request for calls and all their answers are a conversation of two messages.
LEMMA AnsweredMessages ==
    ASSUME NEW text \in Nat, NEW calls \in Seq(ToolCall), NEW results \in Seq(CallIDs),
           calls # <<>>, Len(calls) <= MaxToolCallsPerTurn, MessagesConstants,
           Len(results) = Len(calls),
           \A j \in DOMAIN results : results[j] = calls[j].id
    PROVE  IsAnswered(Answered(text, calls, results))
<1>. DEFINE a == Assistant(text, calls)
            b == Tool(results)
            pair == <<a, b>>
<1>1. a \in Message /\ b \in Message
  <2>1. <<>> \in Seq(ToolCall) /\ <<>> \in Seq(CallIDs)
    OBVIOUS
  <2>2. QED BY <2>1 DEF Assistant, Tool, Message, Roles
<1>2. /\ a.role = "assistant" /\ a.calls = calls /\ Valid(a) /\ NextRole(a) = "tool"
      /\ b.role = "tool" /\ b.calls = <<>> /\ b.results = results
  BY DEF Assistant, Tool, Valid, NextRole
<1>3. Valid(b) /\ Len(<<>>) = 0 /\ MaxToolCallsPerTurn \in Nat
  <2>1. results # <<>>
    BY EmptySeq
  <2>2. QED BY <2>1, <1>2 DEF Valid, MessagesConstants
<1>. HIDE DEF a, b
<1>4. /\ pair \in Seq(Message) /\ DOMAIN pair = {1, 2} /\ pair[1] = a /\ pair[2] = b
      /\ Len(pair) = 2
  BY <1>1
<1>. HIDE DEF pair
<1>5. ASSUME NEW i \in DOMAIN pair
      PROVE  LET m == pair[i]
             IN  /\ Valid(m)
                 /\ Len(m.calls) <= MaxToolCallsPerTurn
                 /\ m.role # "assistant" => m.calls = <<>>
                 /\ i > 1 => m.role = NextRole(pair[i - 1])
                 /\ m.role = "tool" =>
                      /\ i > 1
                      /\ Len(m.results) = Len(pair[i - 1].calls)
                      /\ \A j \in DOMAIN m.results : m.results[j] = pair[i - 1].calls[j].id
  <2>1. CASE i = 1
    BY <1>2, <1>4, <2>1, SMTT(30)
  <2>2. CASE i = 2
    <3>1. i - 1 = 1 /\ i > 1
      BY <2>2
    <3>2. pair[i] = b /\ pair[i - 1] = a
      BY <1>4, <2>2, <3>1
    <3>3. Len(b.results) = Len(a.calls) /\ \A j \in DOMAIN b.results : b.results[j] = a.calls[j].id
      BY <1>2
    <3>4. /\ Valid(b) /\ Len(b.calls) <= MaxToolCallsPerTurn /\ b.calls = <<>>
          /\ b.role = NextRole(a)
      BY <1>2, <1>3
    <3>5. QED BY <3>1, <3>2, <3>3, <3>4
  <2>3. QED BY <1>4, <2>1, <2>2
<1>6. Conversing(pair)
  BY <1>4, <1>5 DEF Conversing
<1>7. pair = Answered(text, calls, results)
  BY DEF pair, a, b, Answered
<1>8. QED BY <1>2, <1>4, <1>6, <1>7 DEF Last, IsAnswered

\* An element of a sequence over S is in S.
LEMMA ElementOf ==
    ASSUME NEW S, NEW s \in Seq(S), NEW i \in DOMAIN s PROVE s[i] \in S
OBVIOUS

\* The number after one below m is within 1 .. m.
LEMMA NextWithin ==
    \A m, k \in Nat : k < m => k + 1 \in 1 .. m
OBVIOUS

\* An answer keeps the state of the run, the last of an iteration too.
LEMMA AnswerCallState ==
    ASSUME MessagesConstants, execution \in Execution, StateOK(execution), AnswerCall
    PROVE  execution' \in Execution /\ StateOK(execution')
<1>. DEFINE calls == execution.calls
            results == Append(execution.results, PendingCall(execution).id)
            messages == execution.messages
            n == Len(execution.results)
            text == execution.text
            iteration == execution.iteration
            M == Len(messages)
<1>0. /\ calls \in Seq(ToolCall) /\ calls # <<>> /\ execution.results \in Seq(CallIDs)
      /\ n < Len(calls) /\ text \in Nat /\ Len(calls) <= MaxToolCallsPerTurn
      /\ \A j \in DOMAIN execution.results : execution.results[j] = calls[j].id
      /\ iteration \in 0 .. MaxIterations /\ M = 2 * (iteration - 1) + 1
  BY DEF StateOK, AnswerCall, CallLeft
<1>1. /\ Conversing(messages) /\ messages # <<>>
      /\ \A k \in DOMAIN messages : messages[k].role = "user" <=> k = 1
      /\ NextRole(Last(messages)) = "assistant"
  BY DEF StateOK
<1>a. /\ n \in Nat /\ Len(calls) \in Nat /\ DOMAIN calls = 1 .. Len(calls)
      /\ DOMAIN execution.results = 1 .. n
  <2>1. calls \in Seq(ToolCall) /\ execution.results \in Seq(CallIDs)
    BY <1>0
  <2>. HIDE DEF calls
  <2>2. QED BY <2>1, LenProperties
<1>b. M \in Nat /\ M >= 1 /\ DOMAIN messages = 1 .. M
  BY <1>1, EmptySeq, SMTT(30) DEF Conversing
<1>2. PendingCall(execution) = calls[n + 1] /\ n + 1 \in DOMAIN calls
  <2>1. PendingCall(execution) = calls[n + 1]
    BY DEF PendingCall
  <2>. HIDE DEF calls, n
  <2>2. n < Len(calls) /\ n \in Nat /\ Len(calls) \in Nat /\ DOMAIN calls = 1 .. Len(calls)
    <3>1. n < Len(calls)
      BY <1>0
    <3>2. QED BY <1>a, <3>1
  <2>3. QED BY <2>1, <2>2, NextWithin, Zenon
<1>3. PendingCall(execution).id = calls[n + 1].id /\ calls[n + 1].id \in CallIDs
  <2>. HIDE DEF calls, n
  <2>1. calls[n + 1] \in ToolCall
    <3>1. calls \in Seq(ToolCall) /\ n + 1 \in DOMAIN calls
      BY <1>0, <1>2
    <3>2. QED BY <3>1, ElementOf, Zenon
  <2>2. QED BY <1>2, <2>1 DEF ToolCall
<1>4. /\ results \in Seq(CallIDs) /\ Len(results) = n + 1
      /\ \A j \in 1 .. n + 1 : results[j] = calls[j].id
      /\ DOMAIN results = 1 .. n + 1
  <2>1. /\ results \in Seq(CallIDs) /\ Len(results) = n + 1
        /\ results[n + 1] = calls[n + 1].id
        /\ \A j \in 1 .. n : results[j] = execution.results[j]
    <3>1. execution.results \in Seq(CallIDs) /\ PendingCall(execution).id \in CallIDs
      BY <1>0, <1>3
    <3>. HIDE DEF calls
    <3>2. QED BY <1>3, <3>1, AppendProperties, SMTT(30)
  <2>. HIDE DEF calls, results, n
  <2>2. \A j \in 1 .. n + 1 : results[j] = calls[j].id
    <3>1. \A j \in 1 .. n : results[j] = calls[j].id
      BY <1>0, <1>a, <2>1
    <3>2. \A j \in 1 .. n + 1 : j \in 1 .. n \/ j = n + 1
      BY <1>a
    <3>3. QED BY <2>1, <3>1, <3>2
  <2>3. QED BY <2>1, <2>2
<1>5. execution' =
        IF n + 1 < Len(calls)
        THEN [execution EXCEPT !.results = results]
        ELSE [execution EXCEPT
                !.messages = @ \o <<Assistant(execution.text, calls), Tool(results)>>,
                !.text = 0, !.calls = <<>>, !.results = <<>>]
  BY <1>4 DEF AnswerCall
<1>. HIDE DEF results, n
<1>6. CASE n + 1 < Len(calls)
  <2>1. execution' = [execution EXCEPT !.results = results]
    BY <1>5, <1>6
  <2>2. /\ execution' \in Execution /\ execution'.messages = messages
        /\ execution'.iteration = iteration /\ execution'.text = text
        /\ execution'.calls = calls /\ execution'.results = results
    BY <1>4, <2>1 DEF Execution
  <2>. HIDE DEF calls, messages, text, iteration
  <2>3. QED BY <1>0, <1>1, <1>4, <1>6, <2>2 DEF StateOK, M
<1>7. CASE ~(n + 1 < Len(calls))
  <2>. DEFINE pair == Answered(text, calls, results)
              after == messages \o pair
  <2>1. n + 1 = Len(calls)
    <3>. HIDE DEF calls
    <3>1. n < Len(calls) /\ n \in Nat /\ Len(calls) \in Nat
      BY <1>0, <1>a
    <3>2. QED BY <3>1, <1>7
  <2>2. /\ Conversing(pair) /\ Len(pair) = 2
        /\ pair[1].role = "assistant" /\ pair[2].role = "tool" /\ Last(pair) = pair[2]
    <3>. HIDE DEF calls, text
    <3>1. /\ text \in Nat /\ calls \in Seq(ToolCall) /\ calls # <<>>
          /\ Len(calls) <= MaxToolCallsPerTurn
      BY <1>0
    <3>2. /\ results \in Seq(CallIDs) /\ Len(results) = Len(calls)
          /\ \A j \in DOMAIN results : results[j] = calls[j].id
      BY <1>4, <2>1
    <3>. HIDE DEF M, after, messages, iteration
    <3>3. IsAnswered(pair)
      BY <3>1, <3>2, AnsweredMessages
    <3>4. QED BY <3>3 DEF IsAnswered
  <2>. HIDE DEF pair
  <2>3. execution' = [execution EXCEPT !.messages = after, !.text = 0, !.calls = <<>>,
                                       !.results = <<>>]
    BY <1>5, <1>7 DEF pair, Answered
  <2>4. Conversing(after)
    <3>. HIDE DEF messages
    <3>1. QED BY <1>1, <2>2, ConversingConcat
  <2>5. /\ after \in Seq(Message) /\ Len(after) = M + 2
        /\ \A k \in 1 .. M + 2 : after[k] = IF k <= M THEN messages[k] ELSE pair[k - M]
    <3>. HIDE DEF messages
    <3>1. pair \in Seq(Message) /\ messages \in Seq(Message) /\ Len(pair) = 2
      BY <1>1, <2>2 DEF Conversing
    <3>2. /\ after \in Seq(Message) /\ Len(after) = M + Len(pair)
          /\ \A k \in 1 .. M + Len(pair) :
               after[k] = IF k <= M THEN messages[k] ELSE pair[k - M]
      <4>1. after \in Seq(Message)
        BY <3>1, ConcatProperties, Zenon
      <4>2. Len(after) = M + Len(pair)
        BY <3>1, ConcatProperties, ZenonT(40)
      <4>3. \A k \in 1 .. M + Len(pair) :
              after[k] = IF k <= M THEN messages[k] ELSE pair[k - M]
        BY <3>1, ConcatProperties, ZenonT(40)
      <4>4. QED BY <4>1, <4>2, <4>3
    <3>3. QED BY <3>1, <3>2
  <2>. HIDE DEF after, messages, M
  <2>7. after[M + 2] = pair[2] /\ after[M + 1] = pair[1]
    <3>1. M + 2 \in 1 .. M + 2 /\ M + 1 \in 1 .. M + 2 /\ (M + 2) - M = 2 /\ (M + 1) - M = 1
          /\ ~(M + 2 <= M) /\ ~(M + 1 <= M)
      BY <1>b
    <3>2. QED BY <2>5, <3>1
  <2>8. ASSUME NEW k \in DOMAIN after PROVE after[k].role = "user" <=> k = 1
    <3>1. k \in 1 .. M + 2 /\ M \in Nat
      BY <1>b, <2>5
    <3>2. CASE k <= M
      <4>1. k \in 1 .. M /\ after[k] = messages[k]
        <5>1. k \in 1 .. M
          BY <3>1, <3>2
        <5>2. after[k] = IF k <= M THEN messages[k] ELSE pair[k - M]
          BY <2>5, <3>1
        <5>3. QED BY <3>2, <5>1, <5>2
      <4>2. messages[k].role = "user" <=> k = 1
        BY <1>1, <1>b, <4>1
      <4>3. QED BY <4>1, <4>2
    <3>3. CASE k = M + 1 \/ k = M + 2
      <4>1. k # 1
        <5>1. M >= 1 /\ M \in Nat
          BY <1>b
        <5>2. QED BY <3>3, <5>1, SMTT(30)
      <4>2. QED BY <2>2, <2>7, <3>3, <4>1
    <3>4. k <= M \/ k = M + 1 \/ k = M + 2
      <4>1. \A m \in Nat : \A i \in 1 .. m + 2 : i <= m \/ i = m + 1 \/ i = m + 2
        OBVIOUS
      <4>2. QED BY <3>1, <4>1
    <3>5. QED BY <3>2, <3>3, <3>4
  <2>9. after # <<>> /\ NextRole(Last(after)) = "assistant"
    <3>1. after # <<>>
      BY <1>b, <2>5, EmptySeq
    <3>2. Last(after) = pair[2]
      BY <2>5, <2>7 DEF Last
    <3>3. QED BY <2>2, <3>1, <3>2 DEF NextRole
  <2>10. /\ execution' \in Execution /\ execution'.messages = after
         /\ execution'.iteration = iteration /\ execution'.text = 0
         /\ execution'.calls = <<>> /\ execution'.results = <<>>
    <3>1. <<>> \in Seq(ToolCall) /\ <<>> \in Seq(CallIDs)
      OBVIOUS
    <3>2. QED BY <2>3, <2>5, <3>1 DEF Execution
  <2>11. Len(after) = 2 * iteration + 1
    <3>. HIDE DEF iteration
    <3>1. MaxIterations \in Nat
      BY DEF MessagesConstants
    <3>2. QED BY <1>0, <2>5, <3>1
  <2>12. /\ Len(<<>>) = 0 /\ 0 <= MaxToolCallsPerTurn /\ DOMAIN <<>> = {}
         /\ <<>> \in Seq(ToolCall) /\ <<>> \in Seq(CallIDs)
    BY DEF MessagesConstants
  <2>. HIDE DEF iteration
  <2>13. QED BY <1>0, <2>4, <2>8, <2>9, <2>10, <2>11, <2>12 DEF StateOK
<1>8. QED BY <1>6, <1>7

(***************************************************************************)
(* A suspended run is a run, and its next call is the encoded one.         *)
(***************************************************************************)
LEMMA MarshalStateOK ==
    ASSUME NEW state, StateOK(state), state.calls # <<>>
    PROVE  /\ StateOK(MarshalState(state)) /\ MarshalState(state).calls # <<>>
           /\ PendingCall(state).arguments \in Arguments
           /\ PendingCall(MarshalState(state)).arguments = Marshal(PendingCall(state).arguments)
<1>. DEFINE s == MarshalState(state)
            messages == state.messages
            calls == state.calls
            n == Len(state.results)
            encoded == MarshalMessages(messages)
<1>1. /\ s.messages = encoded /\ s.iteration = state.iteration
      /\ s.text = state.text /\ s.calls = MarshalCalls(calls) /\ s.results = state.results
  BY DEF MarshalState
<1>2. /\ Conversing(messages) /\ messages \in Seq(Message) /\ messages # <<>>
      /\ \A k \in DOMAIN messages : messages[k].role = "user" <=> k = 1
      /\ NextRole(Last(messages)) = "assistant"
  BY DEF StateOK, Conversing
<1>3. /\ calls \in Seq(ToolCall) /\ Len(calls) <= MaxToolCallsPerTurn
      /\ state.results \in Seq(CallIDs) /\ n < Len(calls)
      /\ \A j \in DOMAIN state.results : state.results[j] = calls[j].id
  BY DEF StateOK
<1>4. /\ state.iteration \in 0 .. MaxIterations
      /\ Len(messages) = 2 * (state.iteration - 1) + 1
      /\ state.text \in Nat
  BY DEF StateOK
<1>5. /\ DOMAIN calls = 1 .. Len(calls) /\ Len(calls) \in Nat
      /\ DOMAIN state.results = 1 .. n /\ n \in Nat
  <2>. HIDE DEF calls
  <2>1. QED BY <1>3, LenProperties
<1>6. n + 1 \in DOMAIN calls /\ \A j \in 1 .. n : j \in DOMAIN calls
  <2>1. n < Len(calls)
    BY <1>3
  <2>. HIDE DEF calls, n
  <2>2. QED BY <1>5, <2>1
<1>7. /\ Conversing(encoded) /\ encoded \in Seq(Message) /\ Len(encoded) = Len(messages)
      /\ DOMAIN encoded = DOMAIN messages /\ DOMAIN messages = 1 .. Len(messages)
      /\ \A k \in DOMAIN messages :
           /\ encoded[k].role = messages[k].role
           /\ encoded[k].calls = MarshalCalls(messages[k].calls)
  <2>. HIDE DEF messages
  <2>1. Conversing(encoded)
    BY <1>2, MarshalConversing
  <2>2. /\ encoded \in Seq(Message) /\ Len(encoded) = Len(messages)
        /\ DOMAIN messages = 1 .. Len(messages)
    BY <1>2, MarshalMessagesType
  <2>3. QED BY <1>2, <2>1, <2>2, MarshalMessagesType
<1>8. encoded # <<>> /\ NextRole(Last(encoded)) = "assistant"
  <2>. HIDE DEF messages, encoded
  <2>. DEFINE M == Len(messages)
  <2>1. M \in DOMAIN messages /\ encoded # <<>>
    BY <1>2, <1>7, EmptySeq
  <2>2. messages[M] \in Message
    BY <1>2, <2>1
  <2>3. messages[M].calls \in Seq(ToolCall)
    BY <2>2 DEF Message
  <2>4. MarshalCalls(messages[M].calls) = <<>> <=> messages[M].calls = <<>>
    BY <2>3, MarshalCallsType
  <2>5. Last(encoded) = encoded[M] /\ Last(messages) = messages[M]
    BY <1>7 DEF Last
  <2>. HIDE DEF M
  <2>6. QED BY <1>2, <1>7, <2>1, <2>4, <2>5 DEF NextRole
<1>9. /\ MarshalCalls(calls) \in Seq(ToolCall) /\ Len(MarshalCalls(calls)) = Len(calls)
      /\ MarshalCalls(calls) # <<>>
      /\ \A k \in DOMAIN calls : MarshalCalls(calls)[k].id = calls[k].id
      /\ \A k \in DOMAIN calls :
           MarshalCalls(calls)[k].arguments = Marshal(calls[k].arguments)
  <2>1. calls \in Seq(ToolCall) /\ calls # <<>>
    BY <1>3
  <2>. HIDE DEF calls
  <2>2. QED BY <2>1, MarshalCallsType
<1>10. StateOK(s)
  <2>. HIDE DEF s, messages, encoded, calls, n
  <2>1. \A k \in DOMAIN encoded : encoded[k].role = "user" <=> k = 1
    BY <1>2, <1>7
  <2>2. \A j \in DOMAIN s.results : s.results[j] = s.calls[j].id
    BY <1>1, <1>3, <1>5, <1>6, <1>9
  <2>3. Len(s.results) < Len(s.calls) /\ Len(s.calls) <= MaxToolCallsPerTurn
    BY <1>1, <1>3, <1>9 DEF n
  <2>4. Len(s.messages) = 2 * (s.iteration - 1) + 1
    BY <1>1, <1>4, <1>7
  <2>5. s.calls # <<>> /\ s.calls \in Seq(ToolCall) /\ s.results \in Seq(CallIDs)
        /\ s.iteration \in 0 .. MaxIterations /\ s.text \in Nat
    BY <1>1, <1>3, <1>4, <1>9
  <2>6. Conversing(s.messages) /\ s.messages # <<>> /\ NextRole(Last(s.messages)) = "assistant"
        /\ \A k \in DOMAIN s.messages : s.messages[k].role = "user" <=> k = 1
    BY <1>1, <1>7, <1>8, <2>1
  <2>7. QED BY <2>2, <2>3, <2>4, <2>5, <2>6 DEF StateOK
<1>11. calls[n + 1].arguments \in Arguments
  <2>1. calls[n + 1] \in ToolCall
    <3>1. calls \in Seq(ToolCall)
      BY <1>3
    <3>. HIDE DEF calls, n
    <3>2. QED BY <1>6, <3>1
  <2>2. QED BY <2>1 DEF ToolCall
<1>12. PendingCall(state) = calls[n + 1] /\ PendingCall(s) = MarshalCalls(calls)[n + 1]
  BY <1>1 DEF PendingCall
<1>13. PendingCall(s).arguments = Marshal(PendingCall(state).arguments)
  <2>. HIDE DEF s, calls, n
  <2>1. QED BY <1>6, <1>9, <1>12
<1>14. QED BY <1>1, <1>9, <1>10, <1>11, <1>12, <1>13

-------------------------------------------------------------------------------
(* What is stored *)

(***************************************************************************)
(* The calls of messages that encodeMessages accepts have their own IDs:   *)
(* each message with calls is followed by its results.                     *)
(***************************************************************************)
LEMMA EncodableDistinct ==
    ASSUME NEW messages, Conversing(messages), messages # <<>>, Encodable(messages)
    PROVE  /\ \A k \in DOMAIN messages : DistinctIDs(messages[k].calls)
           /\ messages[1].role = "user" /\ NextRole(Last(messages)) = "user"
<1>1. /\ messages \in Seq(Message) /\ DOMAIN messages = 1 .. Len(messages)
      /\ Len(messages) \in Nat
  BY DEF Conversing
<1>2. /\ messages[1].role = "user" /\ NextRole(Last(messages)) = "user"
      /\ \A k \in DOMAIN messages :
           messages[k].role = "tool" =>
             matchToolResults(messages[k - 1].calls, messages[k].results)
  BY DEF Encodable, SequenceValid
<1>3. ASSUME NEW k \in DOMAIN messages PROVE DistinctIDs(messages[k].calls)
  <2>1. CASE messages[k].calls = <<>>
    BY <2>1 DEF DistinctIDs
  <2>2. CASE messages[k].calls # <<>>
    <3>1. messages[k].role = "assistant"
      BY <2>2 DEF Conversing
    <3>2. NextRole(messages[k]) = "tool"
      BY <2>2, <3>1 DEF NextRole
    <3>3. k # Len(messages)
      BY <1>2, <3>2 DEF Last
    <3>4. k + 1 \in DOMAIN messages /\ k + 1 > 1 /\ (k + 1) - 1 = k
      BY <1>1, <3>3
    <3>5. messages[k + 1].role = NextRole(messages[k])
      BY <3>4 DEF Conversing
    <3>6. matchToolResults(messages[k].calls, messages[k + 1].results)
      BY <1>2, <3>2, <3>4, <3>5
    <3>7. QED BY <3>6 DEF matchToolResults
  <2>3. QED BY <2>1, <2>2
<1>4. QED BY <1>2, <1>3

(***************************************************************************)
(* Encoded, they are the rows of a turn; and the rows of turns followed by *)
(* those of other turns are the rows of turns.                             *)
(***************************************************************************)
LEMMA EncodedStored ==
    ASSUME NEW messages, Conversing(messages), messages # <<>>, Encodable(messages)
    PROVE  /\ Stored(MarshalMessages(messages))
           /\ MarshalMessages(messages) # <<>>
<1>. DEFINE encoded == MarshalMessages(messages)
            M == Len(messages)
<1>1. /\ messages \in Seq(Message) /\ DOMAIN messages = 1 .. M
      /\ M \in Nat /\ M \in DOMAIN messages /\ 1 \in DOMAIN messages
  <2>1. messages \in Seq(Message)
    BY DEF Conversing
  <2>2. QED BY <2>1, EmptySeq
<1>2. /\ \A k \in DOMAIN messages : DistinctIDs(messages[k].calls)
      /\ messages[1].role = "user" /\ NextRole(messages[M]) = "user"
  BY EncodableDistinct DEF Last
<1>3. /\ Conversing(encoded) /\ encoded \in Seq(Message) /\ Len(encoded) = M
      /\ DOMAIN encoded = 1 .. M
      /\ \A k \in DOMAIN messages :
           /\ encoded[k].role = messages[k].role
           /\ encoded[k].calls = MarshalCalls(messages[k].calls)
  <2>. HIDE DEF M
  <2>1. Conversing(encoded)
    BY MarshalConversing
  <2>2. encoded \in Seq(Message) /\ Len(encoded) = M
    BY <1>1, MarshalMessagesType DEF M
  <2>3. QED BY <1>1, <2>1, <2>2, MarshalMessagesType
<1>4. ASSUME NEW k \in DOMAIN messages
      PROVE  /\ MarshalCalls(messages[k].calls) = <<>> <=> messages[k].calls = <<>>
             /\ DistinctIDs(MarshalCalls(messages[k].calls)) <=> DistinctIDs(messages[k].calls)
  <2>1. messages[k] \in Message
    BY <1>1
  <2>2. messages[k].calls \in Seq(ToolCall)
    BY <2>1 DEF Message
  <2>3. QED BY <2>2, MarshalCallsType
<1>. HIDE DEF encoded, M
<1>5. \A k \in DOMAIN encoded : DistinctIDs(encoded[k].calls)
  BY <1>1, <1>2, <1>3, <1>4
<1>6. encoded # <<>> /\ encoded[1].role = "user" /\ Last(encoded) = encoded[M]
  BY <1>1, <1>2, <1>3, EmptySeq DEF Last
<1>7. NextRole(encoded[M]) = "user"
  BY <1>1, <1>2, <1>3, <1>4 DEF NextRole
<1>8. QED BY <1>3, <1>5, <1>6, <1>7 DEF Stored, encoded

\* The rows of completed turns, put together, are rows of completed turns.
LEMMA StoredConcat ==
    ASSUME NEW a, NEW b, Stored(a), Stored(b)
    PROVE  Stored(a \o b)
<1>. DEFINE M == Len(a)
            N == Len(b)
            ab == a \o b
<1>1. /\ a \in Seq(Message) /\ b \in Seq(Message) /\ Conversing(a) /\ Conversing(b)
      /\ a # <<>> => a[1].role = "user" /\ NextRole(Last(a)) = "user"
      /\ b # <<>> => b[1].role = "user" /\ NextRole(Last(b)) = "user"
  BY DEF Stored, Conversing
<1>2. /\ ab \in Seq(Message) /\ Len(ab) = M + N /\ M \in Nat /\ N \in Nat
      /\ \A k \in 1 .. M + N : ab[k] = IF k <= M THEN a[k] ELSE b[k - M]
      /\ DOMAIN a = 1 .. M /\ DOMAIN b = 1 .. N /\ DOMAIN ab = 1 .. M + N
      /\ (a # <<>> <=> M >= 1) /\ (b # <<>> <=> N >= 1)
  BY <1>1, ConcatProperties
<1>3. Conversing(ab)
  BY <1>1, ConversingConcat
<1>. HIDE DEF M, N, ab
<1>4. ASSUME NEW k \in DOMAIN ab PROVE DistinctIDs(ab[k].calls)
  <2>1. CASE k <= M
    <3>1. k \in DOMAIN a /\ ab[k] = a[k]
      BY <1>2, <2>1
    <3>2. QED BY <3>1 DEF Stored
  <2>2. CASE ~(k <= M)
    <3>1. k - M \in DOMAIN b /\ ab[k] = b[k - M]
      BY <1>2, <2>2
    <3>2. QED BY <3>1 DEF Stored
  <2>3. QED BY <2>1, <2>2
<1>5. ASSUME ab # <<>> PROVE ab[1].role = "user" /\ NextRole(Last(ab)) = "user"
  <2>1. CASE N >= 1
    <3>1. M + N \in 1 .. M + N /\ ~(M + N <= M) /\ (M + N) - M = N
      BY <1>2, <2>1
    <3>2. Last(ab) = b[N] /\ Last(b) = b[N]
      BY <1>2, <3>1 DEF Last, N
    <3>3. 1 \in 1 .. M + N /\ (M = 0 => ~(1 <= M) /\ 1 - M = 1) /\ (M >= 1 => 1 <= M)
          /\ (M = 0 \/ M >= 1)
      BY <1>2, <2>1
    <3>4. (ab[1] = a[1] /\ M >= 1) \/ ab[1] = b[1]
      BY <1>2, <3>3
    <3>5. QED BY <1>1, <1>2, <2>1, <3>2, <3>4
  <2>2. CASE ~(N >= 1)
    <3>1. b = <<>>
      BY <1>2, <2>2
    <3>2. ab = a
      BY <1>1, <3>1, ConcatEmptySeq DEF ab
    <3>3. QED BY <1>1, <1>5, <3>2
  <2>3. QED BY <2>1, <2>2
<1>6. QED BY <1>3, <1>4, <1>5 DEF Stored, ab

-------------------------------------------------------------------------------
(* The rows of the turns *)

(***************************************************************************)
(* The least number of a set of them.                                      *)
(***************************************************************************)
LEMMA MinProperties ==
    ASSUME NEW S \in SUBSET Nat, S # {}
    PROVE  Min(S) \in S /\ \A n \in S : Min(S) <= n
<1>1. \E n \in S : \A m \in S : n <= m
  BY LeastNumber
<1>2. QED BY <1>1 DEF Min

\* A least element is the minimum.
LEMMA MinIs ==
    ASSUME NEW S \in SUBSET Nat, NEW n \in S, \A m \in S : n <= m
    PROVE  Min(S) = n
<1>1. Min(S) \in S /\ Min(S) <= n /\ n <= Min(S)
  BY MinProperties
<1>2. Min(S) \in Nat /\ n \in Nat
  BY <1>1
<1>3. QED BY <1>1, <1>2

(***************************************************************************)
(* A history is a sequence of messages.                                    *)
(***************************************************************************)
LEMMA BoundHistoryType ==
    ASSUME NEW rows \in Seq(Message) PROVE boundHistory(rows) \in Seq(Message)
<1>. DEFINE fitting == {k \in Starts(rows) : Fits(From(rows, k))}
<1>1. fitting \in SUBSET (1 .. Len(rows)) /\ fitting \in SUBSET Nat
  BY DEF Starts
<1>2. boundHistory(rows) = IF fitting = {} THEN <<>> ELSE From(rows, Min(fitting))
  BY DEF boundHistory
<1>3. CASE fitting = {}
  BY <1>2, <1>3
<1>4. CASE fitting # {}
  <2>1. Min(fitting) \in 1 .. Len(rows)
    BY <1>1, <1>4, MinProperties
  <2>2. From(rows, Min(fitting)) \in Seq(Message)
    BY <2>1, FromProperties
  <2>3. QED BY <1>2, <1>4, <2>2
<1>5. QED BY <1>3, <1>4

(***************************************************************************)
(* Nothing is stored by a turn that did not complete.                      *)
(***************************************************************************)
LEMMA NoRows == IsTurn(<<>>)
<1>1. <<>> \in Seq(Message) /\ DOMAIN <<>> = {}
  OBVIOUS
<1>2. QED BY <1>1 DEF IsTurn, Stored, Conversing

(***************************************************************************)
(* What holds of the rows of each turn holds of the rows of them all: they *)
(* are stored, and each user message is the first of a turn.               *)
(***************************************************************************)
AllTurns(some) == \A t \in DOMAIN some : IsTurn(some[t].messages)

StartsAt(some) ==
    \A k \in Starts(MessagesOf(some)) : \E t \in 1 .. Len(some) :
        k = Len(MessagesOf(SubSeq(some, 1, t - 1))) + 1

\* The rows of turns are stored rows, and user messages start the turns.
LEMMA RowsOfTurns ==
    ASSUME NEW some \in Seq(Turn), AllTurns(some)
    PROVE  Stored(MessagesOf(some)) /\ StartsAt(some)
<1>. DEFINE good == {s \in Seq(Turn) : AllTurns(s) => Stored(MessagesOf(s)) /\ StartsAt(s)}
<1>1. <<>> \in good
  <2>1. MessagesOf(<<>>) = <<>> /\ DOMAIN <<>> = {} /\ <<>> \in Seq(Turn)
    BY MessagesOfNone
  <2>2. Stored(<<>>)
    BY NoRows DEF IsTurn
  <2>3. StartsAt(<<>>)
    BY <2>1 DEF StartsAt, Starts
  <2>4. QED BY <2>1, <2>2, <2>3
<1>2. ASSUME NEW s \in Seq(Turn), NEW turn \in Turn, s \in good
      PROVE  Append(s, turn) \in good
  <2>. DEFINE more == Append(s, turn)
              N == Len(s)
              rows == MessagesOf(s)
              new == MessagesIn(turn)
              M == Len(rows)
  <2>1. /\ more \in Seq(Turn) /\ Len(more) = N + 1 /\ N \in Nat
        /\ more[N + 1] = turn /\ \A t \in 1 .. N : more[t] = s[t]
        /\ DOMAIN more = 1 .. N + 1 /\ DOMAIN s = 1 .. N
    BY AppendProperties
  <2>2. /\ MessagesOf(more) = rows \o new /\ rows \in Seq(Message) /\ new \in Seq(Message)
        /\ MessagesOf(more) \in Seq(Message)
    BY <2>1, MessagesOfAppend, MessagesOfType, MessagesInType
  <2>3. SUFFICES ASSUME AllTurns(more) PROVE Stored(MessagesOf(more)) /\ StartsAt(more)
    BY <2>1
  <2>4. ASSUME NEW t \in 1 .. N + 1 PROVE SubSeq(more, 1, t - 1) = SubSeq(s, 1, t - 1)
    <3>. DEFINE n == t - 1
    <3>1. n \in 0 .. N /\ n \in Int /\ n - 1 + 1 = n
      BY <2>1
    <3>. HIDE DEF more, n
    <3>2. \A i \in 1 .. n : more[i] = s[i] /\ s[i] \in Turn /\ more[i] \in Turn
      BY <2>1, <3>1
    <3>3. /\ SubSeq(more, 1, n) \in Seq(Turn) /\ SubSeq(s, 1, n) \in Seq(Turn)
          /\ Len(SubSeq(more, 1, n)) = n /\ Len(SubSeq(s, 1, n)) = n
          /\ \A i \in 1 .. n : SubSeq(more, 1, n)[i] = more[i]
          /\ \A i \in 1 .. n : SubSeq(s, 1, n)[i] = s[i]
      BY <3>1, <3>2, SubSeqProperties
    <3>4. SubSeq(more, 1, n) = SubSeq(s, 1, n)
      BY <3>2, <3>3, SeqEqual
    <3>5. QED BY <3>4 DEF n
  <2>5. AllTurns(s) /\ IsTurn(turn.messages)
    <3>. HIDE DEF more
    <3>1. QED BY <2>1, <2>3 DEF AllTurns
  <2>6. Stored(rows) /\ StartsAt(s)
    BY <1>2, <2>5
  <2>7. IsTurn(new)
    BY <2>5, NoRows DEF MessagesIn
  <2>. HIDE DEF more, rows, new
  <2>8. Stored(rows \o new)
    BY <2>6, <2>7, StoredConcat DEF IsTurn
  <2>9. ASSUME NEW k \in Starts(MessagesOf(more))
        PROVE  \E t \in 1 .. Len(more) : k = Len(MessagesOf(SubSeq(more, 1, t - 1))) + 1
    <3>. DEFINE L == Len(new)
    <3>1. /\ k \in 1 .. M + L /\ M \in Nat /\ L \in Nat /\ (rows \o new)[k].role = "user"
          /\ (rows \o new)[k] = IF k <= M THEN rows[k] ELSE new[k - M]
          /\ DOMAIN rows = 1 .. M /\ DOMAIN new = 1 .. L
      <4>1. k \in DOMAIN (rows \o new) /\ (rows \o new)[k].role = "user"
        BY <2>2 DEF Starts
      <4>2. QED BY <2>2, <4>1, ConcatProperties
    <3>. HIDE DEF M, L
    <3>2. CASE k <= M
      <4>1. k \in DOMAIN rows /\ rows[k].role = "user"
        BY <3>1, <3>2
      <4>2. k \in Starts(MessagesOf(s))
        BY <4>1 DEF Starts, rows
      <4>3. PICK t \in 1 .. N : k = Len(MessagesOf(SubSeq(s, 1, t - 1))) + 1
        BY <2>6, <4>2 DEF StartsAt
      <4>4. t \in 1 .. N + 1
        BY <2>1
      <4>5. k = Len(MessagesOf(SubSeq(more, 1, t - 1))) + 1
        BY <2>4, <4>3, <4>4
      <4>6. QED BY <2>1, <4>4, <4>5
    <3>3. CASE ~(k <= M)
      <4>1. k - M \in DOMAIN new /\ new[k - M].role = "user"
        BY <3>1, <3>3
      <4>2. k - M = 1
        BY <2>7, <4>1 DEF IsTurn
      <4>3. k = M + 1 /\ N + 1 \in 1 .. N + 1 /\ (N + 1) - 1 = N
        BY <2>1, <3>1, <4>2
      <4>4. SubSeq(more, 1, (N + 1) - 1) = s
        BY <2>4, <4>3, SubSeqFull
      <4>5. k = Len(MessagesOf(SubSeq(more, 1, (N + 1) - 1))) + 1
        BY <4>3, <4>4 DEF M, rows
      <4>6. QED BY <2>1, <4>3, <4>5
    <3>4. QED BY <3>2, <3>3
  <2>10. StartsAt(more)
    BY <2>9 DEF StartsAt
  <2>11. QED BY <2>2, <2>8, <2>10
<1>. HIDE DEF good
<1>3. \A s \in Seq(Turn) : s \in good
  BY <1>1, <1>2, SequenceInduction
<1>4. QED BY <1>3 DEF good

-------------------------------------------------------------------------------
(* The turns and their runs are an invariant *)

(***************************************************************************)
(* A turn is added only after finished ones; the last turn changes only    *)
(* when it did not finish.  Rows are added by a turn that completes.       *)
(***************************************************************************)
Empty(status) == [status |-> status, messages |-> <<>>]

\* A turn without messages is a turn.
LEMMA TurnType ==
    /\ \A status \in Statuses : Empty(status) \in Turn
    /\ \A messages \in Seq(Message) : [status |-> "completed", messages |-> messages] \in Turn
<1>1. <<>> \in Seq(Message) /\ "completed" \in Statuses
  BY DEF Statuses
<1>2. QED BY <1>1 DEF Empty, Turn

\* A new turn keeps the turns in order and adds no rows.
LEMMA AddTurn ==
    ASSUME NEW some, NEW status \in {"running", "failed"}, TurnsOK(some),
           \A t \in DOMAIN some : some[t].status \in {"completed", "failed"},
           Len(some) < MaxTurns, MessagesConstants
    PROVE  LET after == Append(some, Empty(status))
           IN  /\ TurnsOK(after) /\ MessagesOf(after) = MessagesOf(some)
               /\ after # <<>> /\ Last(after).status = status
<1>. DEFINE turn == Empty(status)
            after == Append(some, turn)
            N == Len(some)
<1>1. status \in Statuses /\ turn \in Turn /\ turn.status = status /\ turn.messages = <<>>
  BY TurnType DEF Empty, Statuses
<1>2. /\ some \in Seq(Turn) /\ N \in Nat /\ N + 1 <= MaxTurns
      /\ \A t \in DOMAIN some :
           /\ some[t].messages # <<>> <=> some[t].status = "completed"
           /\ IsTurn(some[t].messages)
  <2>1. some \in Seq(Turn) /\ MaxTurns \in Nat /\ N < MaxTurns
    BY DEF TurnsOK, MessagesConstants
  <2>2. N \in Nat
    BY <2>1
  <2>3. N + 1 <= MaxTurns
    BY <2>1, <2>2
  <2>. HIDE DEF N
  <2>4. QED BY <2>1, <2>2, <2>3 DEF TurnsOK
<1>. HIDE DEF turn, N
<1>3. /\ after \in Seq(Turn) /\ Len(after) = N + 1 /\ after # <<>>
      /\ after[N + 1] = turn /\ \A t \in 1 .. N : after[t] = some[t]
      /\ DOMAIN after = 1 .. N + 1 /\ DOMAIN some = 1 .. N
  <2>1. /\ after \in Seq(Turn) /\ Len(after) = N + 1 /\ after # <<>>
        /\ after[N + 1] = turn /\ \A t \in 1 .. N : after[t] = some[t]
    <3>1. some \in Seq(Turn) /\ turn \in Turn
      BY <1>1, <1>2
    <3>2. after \in Seq(Turn) /\ after # <<>>
      <4>1. after \in Seq(Turn)
        BY <3>1, AppendProperties, Zenon
      <4>2. after # <<>>
        <5>1. Len(after) = N + 1
          BY <3>1, AppendProperties DEF N
        <5>2. Len(<<>>) = 0 /\ \A n \in Nat : n + 1 # 0
          OBVIOUS
        <5>3. QED BY <1>2, <5>1, <5>2, Zenon
      <4>3. QED BY <4>1, <4>2
    <3>3. Len(after) = N + 1
      BY <3>1, AppendProperties DEF N
    <3>4. after[N + 1] = turn
      BY <3>1, AppendProperties DEF N
    <3>5. \A t \in 1 .. N : after[t] = some[t]
      BY <3>1, AppendProperties DEF N
    <3>6. QED BY <3>2, <3>3, <3>4, <3>5
  <2>2. DOMAIN some = 1 .. N
    BY <1>2 DEF N
  <2>. HIDE DEF after
  <2>3. DOMAIN after = 1 .. N + 1
    BY <2>1
  <2>4. QED BY <2>1, <2>2, <2>3
<1>4. MessagesOf(after) = MessagesOf(some)
  <2>1. MessagesOf(after) = MessagesOf(some) \o MessagesIn(turn)
    BY <1>1, <1>2, MessagesOfAppend
  <2>2. MessagesIn(turn) = <<>> /\ MessagesOf(some) \in Seq(Message)
    BY <1>1, <1>2, MessagesOfType DEF MessagesIn
  <2>3. QED BY <2>1, <2>2, ConcatEmptySeq
<1>. HIDE DEF after
<1>5. ASSUME NEW t \in DOMAIN after
      PROVE  /\ after[t].messages # <<>> <=> after[t].status = "completed"
             /\ after[t].status \in {"running", "awaiting_confirmation"} => t = N + 1
             /\ IsTurn(after[t].messages)
  <2>1. CASE t = N + 1
    BY <1>1, <1>3, <2>1, NoRows
  <2>2. CASE t # N + 1
    <3>1. t \in 1 .. N
      <4>1. \A n \in Nat : \A k \in 1 .. n + 1 : k # n + 1 => k \in 1 .. n
        OBVIOUS
      <4>2. N \in Nat /\ t \in 1 .. N + 1
        BY <1>2, <1>3
      <4>3. QED BY <2>2, <4>1, <4>2, Zenon
    <3>2. QED BY <1>2, <1>3, <3>1
  <2>3. QED BY <2>1, <2>2
<1>6. TurnsOK(after)
  BY <1>2, <1>3, <1>5 DEF TurnsOK
<1>7. QED BY <1>1, <1>3, <1>4, <1>6 DEF Last, after, turn

\* The last turn may take the outcome of its run, with the rows of one turn.
LEMMA ChangeLastTurn ==
    ASSUME NEW some, NEW turn \in Turn, TurnsOK(some), some # <<>>,
           Last(some).status # "completed",
           turn.messages # <<>> <=> turn.status = "completed", IsTurn(turn.messages)
    PROVE  LET after == [some EXCEPT ![Len(some)] = turn]
           IN  /\ TurnsOK(after) /\ MessagesOf(after) = MessagesOf(some) \o turn.messages
               /\ after # <<>> /\ Last(after).status = turn.status
<1>. DEFINE after == [some EXCEPT ![Len(some)] = turn]
            N == Len(some)
<1>1. /\ some \in Seq(Turn) /\ N <= MaxTurns
      /\ \A t \in DOMAIN some :
           /\ some[t].messages # <<>> <=> some[t].status = "completed"
           /\ some[t].status \in {"running", "awaiting_confirmation"} => t = N
           /\ IsTurn(some[t].messages)
      /\ DOMAIN some = 1 .. N
  BY DEF TurnsOK
<1>2. MessagesIn(Last(some)) = <<>> /\ MessagesIn(turn) = turn.messages
  BY DEF MessagesIn
<1>3. /\ after \in Seq(Turn) /\ Len(after) = N
      /\ after # <<>> /\ Last(after) = turn
      /\ \A t \in 1 .. N : after[t] = IF t = N THEN turn ELSE some[t]
      /\ MessagesOf(after) = MessagesOf(some) \o turn.messages
  BY <1>1, <1>2, ReplaceLastTurn
<1>. HIDE DEF after, N
<1>4. DOMAIN after = 1 .. N
  BY <1>3
<1>5. TurnsOK(after)
  BY <1>1, <1>3, <1>4 DEF TurnsOK
<1>6. QED BY <1>3, <1>5 DEF after

\* The last turn stays without messages.
LEMMA ChangeStatus ==
    ASSUME NEW some, NEW status \in Statuses \ {"completed"}, TurnsOK(some), some # <<>>,
           Last(some).status # "completed"
    PROVE  LET after == [some EXCEPT ![Len(some)] = Empty(status)]
           IN  /\ TurnsOK(after) /\ MessagesOf(after) = MessagesOf(some)
               /\ after # <<>> /\ Last(after).status = status
<1>. DEFINE turn == Empty(status)
            after == [some EXCEPT ![Len(some)] = turn]
<1>1. turn \in Turn /\ turn.status = status /\ turn.messages = <<>>
  BY TurnType DEF Empty
<1>2. turn.messages # <<>> <=> turn.status = "completed"
  BY <1>1
<1>3. IsTurn(turn.messages)
  BY <1>1, NoRows
<1>4. MessagesOf(some) \in Seq(Message)
  BY MessagesOfType DEF TurnsOK
<1>. HIDE DEF turn
<1>5. /\ TurnsOK(after) /\ MessagesOf(after) = MessagesOf(some) \o turn.messages
      /\ after # <<>> /\ Last(after).status = turn.status
  BY <1>1, <1>2, <1>3, ChangeLastTurn
<1>6. MessagesOf(after) = MessagesOf(some)
  BY <1>1, <1>4, <1>5, ConcatEmptySeq
<1>7. QED BY <1>1, <1>5, <1>6 DEF turn

(***************************************************************************)
(* What LoadHistory returned has no arguments above the limit.             *)
(***************************************************************************)
LEMMA PreparedNotGrown ==
    ASSUME NEW rows \in Seq(Message), Preparation(rows) = "prepared", MessagesConstants
    PROVE  ~Grown(rows)
<1>1. ~LoadFails(rows)
  BY DEF Preparation
<1>2. CASE rows = <<>>
  BY <1>2 DEF Grown
<1>3. CASE rows # <<>>
  <2>1. CallsWithin(rows)
    BY <1>1, <1>3 DEF LoadFails
  <2>2. ASSUME NEW k \in DOMAIN rows, NEW j \in DOMAIN rows[k].calls
        PROVE  ~(ArgumentsSize(rows[k].calls[j].arguments) > MaxToolArguments)
    <3>1. rows[k] \in Message
      BY SMTT(30)
    <3>2. rows[k].calls \in Seq(ToolCall)
      BY <3>1 DEF Message
    <3>3. ArgumentsSize(rows[k].calls[j].arguments) \in Nat
      BY <3>2, ArgumentsSizeType
    <3>4. ArgumentsSize(rows[k].calls[j].arguments) <= MaxToolArguments
      BY <2>1 DEF CallsWithin
    <3>5. MaxToolArguments \in Nat
      BY DEF MessagesConstants
    <3>. DEFINE n == ArgumentsSize(rows[k].calls[j].arguments)
    <3>. HIDE DEF n
    <3>6. n \in Nat /\ n <= MaxToolArguments => ~(n > MaxToolArguments)
      BY <3>5
    <3>7. QED BY <3>3, <3>4, <3>6 DEF n
  <2>3. QED BY <2>2 DEF Grown
<1>4. QED BY <1>2, <1>3

\* No execution is an execution.
LEMMA IdleType == Idle \in Execution /\ ~Idle.running
<1>1. <<>> \in Seq(Message) /\ <<>> \in Seq(ToolCall) /\ <<>> \in Seq(CallIDs)
  OBVIOUS
<1>2. QED BY <1>1 DEF Idle, Execution

(***************************************************************************)
(* Every step keeps the turns, their rows, the run and the confirmation.   *)
(***************************************************************************)
LEMMA RunInvInit ==
    ASSUME MessagesConstants, Init PROVE RunInv
<1>1. TurnsInv
  <2>1. <<>> \in Seq(Turn) /\ Len(<<>>) = 0 /\ DOMAIN <<>> = {} /\ MaxTurns \in Nat
    BY DEF MessagesConstants
  <2>2. QED BY <2>1 DEF TurnsInv, TurnsOK, Init
<1>2. RowsInv
  <2>1. Rows = <<>> /\ Len(<<>>) = 0
    BY MessagesOfNone DEF Rows, Init
  <2>2. QED BY <2>1, SizeEmpty DEF RowsInv, MessagesConstants
<1>3. ExecutionInv
  BY IdleType DEF ExecutionInv, Init
<1>4. ConfirmationInv
  BY DEF ConfirmationInv, Init
<1>5. QED BY <1>1, <1>2, <1>3, <1>4 DEF RunInv

\* The rows of the conversation are messages.
LEMMA RowsType ==
    ASSUME TurnsInv PROVE Rows \in Seq(Message) /\ Stored(Rows)
<1>1. turns \in Seq(Turn) /\ AllTurns(turns)
  BY DEF TurnsInv, TurnsOK, AllTurns
<1>2. QED BY <1>1, RowsOfTurns, MessagesOfType DEF Rows

\* What changes only the reader or the preparation keeps the invariant.
LEMMA RunInvStutter ==
    ASSUME RunInv, UNCHANGED <<turns, confirmation, execution>> PROVE RunInv'
<1>1. turns' = turns /\ confirmation' = confirmation /\ execution' = execution /\ Rows' = Rows
  BY DEF Rows
<1>2. QED BY <1>1 DEF RunInv, TurnsInv, RowsInv, ExecutionInv, ConfirmationInv

\* PrepareTurn keeps the invariant: a turn begins with a history that loads.
LEMMA RunInvPrepareTurn ==
    ASSUME MessagesConstants, RunInv, NEW prompt \in Prompts, PrepareTurn(prompt)
    PROVE  RunInv'
<1>1. /\ TurnsOK(turns) /\ turns \in Seq(Turn) /\ Len(turns) < MaxTurns
      /\ \A t \in DOMAIN turns : turns[t].status \in {"completed", "failed"}
      /\ Rows \in Seq(Message)
  BY RowsType DEF RunInv, TurnsInv, TurnsOK, PrepareTurn
<1>2. turns # <<>> => Last(turns).status \in {"completed", "failed"}
  <2>1. turns # <<>> => Len(turns) \in DOMAIN turns
    BY <1>1, EmptySeq, SMTT(30)
  <2>2. QED BY <1>1, <2>1 DEF Last
<1>3. ~execution.running /\ execution = Idle /\ confirmation = NoConfirmation
  BY <1>2 DEF RunInv, ExecutionInv, ConfirmationInv
<1>4. confirmation' = NoConfirmation
  BY <1>3 DEF PrepareTurn
<1>5. CASE Preparation(Rows) = "prepared"
  <2>1. /\ turns' = Append(turns, Empty("running"))
        /\ execution' = [Idle EXCEPT !.running = TRUE, !.messages = <<User(prompt)>>,
                                     !.history = boundHistory(Rows)]
    BY <1>5 DEF PrepareTurn, Empty
  <2>2. /\ TurnsOK(turns') /\ MessagesOf(turns') = MessagesOf(turns)
        /\ turns' # <<>> /\ Last(turns').status = "running"
    BY <1>1, <2>1, AddTurn
  <2>3. Rows' = Rows
    BY <2>2 DEF Rows
  <2>4. boundHistory(Rows) \in Seq(Message)
    BY <1>1, BoundHistoryType
  <2>5. execution' \in Execution /\ StateOK(execution')
    BY <2>1, <2>4, StartState
  <2>6. execution'.running /\ execution'.history = boundHistory(Rows)
    BY <2>1 DEF Idle
  <2>7. ~Grown(Rows)
    BY <1>1, <1>5, PreparedNotGrown
  <2>8. ExecutionInv'
    BY <2>2, <2>3, <2>5, <2>6, <2>7 DEF ExecutionInv
  <2>9. QED BY <1>4, <2>2, <2>3, <2>8 DEF RunInv, TurnsInv, RowsInv, ConfirmationInv
<1>6. CASE Preparation(Rows) # "prepared"
  <2>1. turns' = Append(turns, Empty("failed")) /\ execution' = execution
    BY <1>6 DEF PrepareTurn, Empty
  <2>2. TurnsOK(turns') /\ MessagesOf(turns') = MessagesOf(turns)
    BY <1>1, <2>1, AddTurn
  <2>3. Rows' = Rows
    BY <2>2 DEF Rows
  <2>4. ExecutionInv'
    BY <1>3, <2>1, IdleType DEF ExecutionInv
  <2>5. QED BY <1>4, <2>2, <2>3, <2>4 DEF RunInv, TurnsInv, RowsInv, ConfirmationInv
<1>7. QED BY <1>5, <1>6

\* RequestCalls keeps the invariant.
LEMMA RunInvRequestCalls ==
    ASSUME MessagesConstants, RunInv, NEW request \in Requests, RequestCalls(request)
    PROVE  RunInv'
<1>1. execution \in Execution /\ execution.running /\ StateOK(execution)
  BY DEF RunInv, ExecutionInv, RequestCalls
<1>2. execution' \in Execution /\ StateOK(execution')
  BY <1>1, RequestCallsState
<1>3. execution'.running /\ execution'.history = execution.history
  BY <1>1 DEF RequestCalls, Execution
<1>4. turns' = turns /\ confirmation' = confirmation /\ Rows' = Rows
  BY DEF RequestCalls, Rows
<1>5. ExecutionInv'
  BY <1>1, <1>2, <1>3, <1>4 DEF RunInv, ExecutionInv
<1>6. QED BY <1>4, <1>5 DEF RunInv, TurnsInv, RowsInv, ConfirmationInv

\* AnswerCall keeps the invariant.
LEMMA RunInvAnswerCall ==
    ASSUME MessagesConstants, RunInv, AnswerCall
    PROVE  RunInv'
<1>1. execution \in Execution /\ execution.running /\ StateOK(execution)
  BY DEF RunInv, ExecutionInv, AnswerCall, CallLeft
<1>2. execution' \in Execution /\ StateOK(execution')
  BY <1>1, AnswerCallState
<1>3. execution'.running /\ execution'.history = execution.history
  BY <1>1 DEF AnswerCall, Execution
<1>4. turns' = turns /\ confirmation' = confirmation /\ Rows' = Rows
  BY DEF AnswerCall, Rows
<1>5. ExecutionInv'
  BY <1>1, <1>2, <1>3, <1>4 DEF RunInv, ExecutionInv
<1>6. QED BY <1>4, <1>5 DEF RunInv, TurnsInv, RowsInv, ConfirmationInv

(***************************************************************************)
(* The messages of a run with the final answer are those of a turn.        *)
(***************************************************************************)
LEMMA FinalMessages ==
    ASSUME MessagesConstants, NEW state, StateOK(state), NEW text \in Nat,
           Encodable(Append(state.messages, Assistant(text, <<>>)))
    PROVE  LET encoded == MarshalMessages(Append(state.messages, Assistant(text, <<>>)))
           IN  IsTurn(encoded) /\ encoded # <<>> /\ encoded \in Seq(Message)
<1>. DEFINE messages == state.messages
            a == Assistant(text, <<>>)
            M == Len(messages)
            final == Append(messages, a)
            encoded == MarshalMessages(final)
<1>1. /\ Conversing(messages) /\ messages \in Seq(Message) /\ messages # <<>>
      /\ \A k \in DOMAIN messages : messages[k].role = "user" <=> k = 1
      /\ NextRole(Last(messages)) = "assistant"
  BY DEF StateOK, Conversing
<1>2. a \in Message /\ a.role = "assistant" /\ a.calls = <<>>
  <2>1. <<>> \in Seq(ToolCall) /\ <<>> \in Seq(CallIDs)
    OBVIOUS
  <2>2. QED BY <2>1 DEF Assistant, Message, Roles
<1>. HIDE DEF messages, a
<1>3. /\ final \in Seq(Message) /\ Len(final) = M + 1 /\ final # <<>>
      /\ \A k \in 1 .. M : final[k] = messages[k]
      /\ final[M + 1] = a /\ M \in Nat /\ M >= 1
      /\ DOMAIN messages = 1 .. M /\ DOMAIN final = 1 .. M + 1
  <2>1. M \in Nat /\ M >= 1
    BY <1>1, EmptySeq
  <2>2. DOMAIN messages = 1 .. M
    BY <1>1
  <2>3. /\ final \in Seq(Message) /\ Len(final) = M + 1 /\ final # <<>>
        /\ \A k \in 1 .. M : final[k] = messages[k]
    <3>1. messages \in Seq(Message) /\ a \in Message
      BY <1>1, <1>2
    <3>2. final \in Seq(Message)
      BY <3>1, AppendProperties
    <3>3. Len(final) = M + 1
      BY <3>1, AppendProperties
    <3>4. \A k \in 1 .. M : final[k] = messages[k]
      BY <3>1, AppendProperties
    <3>. HIDE DEF final, M
    <3>5. M + 1 # 0
      BY <2>1
    <3>6. final # <<>>
      BY <3>2, <3>3, <3>5, EmptySeq
    <3>7. QED BY <3>2, <3>3, <3>4, <3>6
  <2>4. final[M + 1] = a
    BY <1>1, <1>2, AppendProperties
  <2>. HIDE DEF final
  <2>5. DOMAIN final = 1 .. M + 1
    BY <2>3
  <2>6. QED BY <2>1, <2>2, <2>3, <2>4, <2>5
<1>4. Encodable(final)
  BY DEF messages, a
<1>. DEFINE one == <<a>>
<1>5. final = messages \o one
  BY <1>1, <1>2, AppendIsConcat
<1>6. one \in Seq(Message) /\ DOMAIN one = {1} /\ one[1] = a /\ one # <<>>
  BY <1>2
<1>. HIDE DEF final, one, M
<1>7. Valid(a)
  <2>1. M + 1 \in DOMAIN final
    BY <1>3
  <2>2. QED BY <1>3, <1>4, <2>1 DEF Encodable
<1>8. Conversing(one)
  <2>1. \A k \in DOMAIN one : one[k] = a /\ ~(k > 1)
    BY <1>6
  <2>2. Len(a.calls) <= MaxToolCallsPerTurn /\ Len(<<>>) = 0
    BY <1>2 DEF MessagesConstants
  <2>3. QED BY <1>2, <1>6, <1>7, <2>1, <2>2 DEF Conversing
<1>9. Conversing(final)
  BY <1>1, <1>2, <1>5, <1>6, <1>8, ConversingConcat
<1>10. Stored(encoded) /\ encoded # <<>>
  BY <1>3, <1>4, <1>9, EncodedStored
<1>11. /\ encoded \in Seq(Message) /\ Len(encoded) = M + 1 /\ DOMAIN encoded = DOMAIN final
       /\ \A k \in DOMAIN final : encoded[k].role = final[k].role
  <2>1. encoded \in Seq(Message) /\ Len(encoded) = M + 1
    BY <1>3, MarshalMessagesType
  <2>. HIDE DEF encoded
  <2>2. DOMAIN encoded = DOMAIN final
    BY <1>3, <2>1
  <2>3. QED BY <1>3, <2>1, <2>2, MarshalMessagesType DEF encoded
<1>. HIDE DEF encoded
<1>12. ASSUME NEW k \in DOMAIN encoded PROVE encoded[k].role = "user" <=> k = 1
  <2>1. CASE k = M + 1
    <3>1. k \in DOMAIN final /\ final[k] = a /\ k # 1
      BY <1>3, <1>11, <2>1
    <3>2. encoded[k].role = "assistant"
      BY <1>2, <1>11, <3>1
    <3>3. QED BY <3>1, <3>2
  <2>2. CASE k # M + 1
    <3>1. k \in 1 .. M
      <4>1. k \in 1 .. M + 1 /\ M \in Nat
        BY <1>3, <1>11
      <4>2. QED BY <2>2, <4>1, UpToLast, Zenon
    <3>2. QED BY <1>1, <1>3, <1>11, <3>1
  <2>3. QED BY <2>1, <2>2
<1>13. IsTurn(encoded)
  BY <1>10, <1>12 DEF IsTurn
<1>14. QED BY <1>10, <1>11, <1>13 DEF encoded, final, messages, a

\* CompleteTurn keeps the invariant: what is encoded is the rows of one turn.
LEMMA RunInvCompleteTurn ==
    ASSUME MessagesConstants, RunInv, NEW text \in Answers, CompleteTurn(text)
    PROVE  RunInv'
<1>. DEFINE messages == Append(execution.messages, Assistant(text, <<>>))
            encoded == MarshalMessages(messages)
<1>1. /\ StateOK(execution) /\ text \in Nat
      /\ TurnsOK(turns) /\ turns # <<>> /\ Last(turns).status = "running"
      /\ confirmation = NoConfirmation
  BY DEF RunInv, TurnsInv, ExecutionInv, ConfirmationInv, CompleteTurn, MessagesConstants
<1>2. confirmation' = NoConfirmation /\ execution' = Idle
  BY <1>1 DEF CompleteTurn
<1>3. ExecutionInv' /\ ConfirmationInv'
  BY <1>2, IdleType DEF ExecutionInv, ConfirmationInv
<1>4. CASE /\ Encodable(messages)
           /\ Len(Rows) + Len(encoded) <= MaxMessages
           /\ Size(Rows) + Size(encoded) <= MaxConversationBytes
  <2>. DEFINE turn == [status |-> "completed", messages |-> encoded]
  <2>1. turns' = [turns EXCEPT ![Len(turns)] = turn]
    BY <1>4 DEF CompleteTurn, LastTurn
  <2>2. IsTurn(encoded) /\ encoded # <<>> /\ encoded \in Seq(Message)
    BY <1>1, <1>4, FinalMessages
  <2>. HIDE DEF encoded, messages
  <2>3. turn \in Turn /\ turn.messages = encoded /\ turn.status = "completed"
    BY <2>2, TurnType
  <2>. HIDE DEF turn
  <2>4. TurnsOK(turns') /\ MessagesOf(turns') = MessagesOf(turns) \o encoded
    BY <1>1, <2>1, <2>2, <2>3, ChangeLastTurn
  <2>5. Rows' = Rows \o encoded /\ Rows \in Seq(Message)
    BY <2>4, RowsType DEF Rows, RunInv
  <2>6. Len(Rows') = Len(Rows) + Len(encoded) /\ Size(Rows') = Size(Rows) + Size(encoded)
    BY <2>2, <2>5, ConcatProperties, SizeConcat
  <2>7. RowsInv'
    BY <1>4, <2>6 DEF RowsInv
  <2>8. QED BY <1>3, <2>4, <2>7 DEF RunInv, TurnsInv
<1>5. CASE ~ /\ Encodable(messages)
             /\ Len(Rows) + Len(encoded) <= MaxMessages
             /\ Size(Rows) + Size(encoded) <= MaxConversationBytes
  <2>1. turns' = [turns EXCEPT ![Len(turns)] = Empty("failed")]
    BY <1>5 DEF CompleteTurn, LastTurn, Empty
  <2>2. TurnsOK(turns') /\ MessagesOf(turns') = MessagesOf(turns)
    BY <1>1, <2>1, ChangeStatus DEF Statuses
  <2>3. Rows' = Rows
    BY <2>2 DEF Rows
  <2>4. QED BY <1>3, <2>2, <2>3 DEF RunInv, TurnsInv, RowsInv
<1>6. QED BY <1>4, <1>5

\* Suspend keeps the invariant: what is stored is the state of the run.
LEMMA RunInvSuspend ==
    ASSUME MessagesConstants, RunInv, Suspend
    PROVE  RunInv'
<1>. DEFINE state == MarshalState(execution)
<1>1. /\ StateOK(execution) /\ execution.calls # <<>> /\ ~Grown(Rows)
      /\ TurnsOK(turns) /\ turns # <<>> /\ Last(turns).status = "running"
      /\ confirmation = NoConfirmation
  BY DEF RunInv, TurnsInv, ExecutionInv, ConfirmationInv, Suspend, CallLeft
<1>2. execution' = Idle
  BY DEF Suspend
<1>3. ExecutionInv'
  BY <1>2, IdleType DEF ExecutionInv
<1>4. CASE StateSize(state) <= MaxConfirmationState
  <2>1. /\ turns' = [turns EXCEPT ![Len(turns)] = Empty("awaiting_confirmation")]
        /\ confirmation' = [hash |-> PendingCall(execution).arguments, state |-> state]
    BY <1>4 DEF Suspend, LastTurn, Empty
  <2>2. /\ TurnsOK(turns') /\ MessagesOf(turns') = MessagesOf(turns)
        /\ turns' # <<>> /\ Last(turns').status = "awaiting_confirmation"
    BY <1>1, <2>1, ChangeStatus DEF Statuses
  <2>3. Rows' = Rows
    BY <2>2 DEF Rows
  <2>4. /\ StateOK(state) /\ state.calls # <<>>
        /\ PendingCall(execution).arguments \in Arguments
        /\ PendingCall(state).arguments = Marshal(PendingCall(execution).arguments)
    BY <1>1, MarshalStateOK
  <2>. HIDE DEF state
  <2>5. ConfirmationInv'
    BY <1>1, <2>1, <2>2, <2>3, <2>4 DEF ConfirmationInv
  <2>6. QED BY <1>3, <2>2, <2>3, <2>5 DEF RunInv, TurnsInv, RowsInv
<1>5. CASE ~(StateSize(state) <= MaxConfirmationState)
  <2>1. turns' = [turns EXCEPT ![Len(turns)] = Empty("failed")] /\ confirmation' = NoConfirmation
    BY <1>1, <1>5 DEF Suspend, LastTurn, Empty
  <2>2. TurnsOK(turns') /\ MessagesOf(turns') = MessagesOf(turns)
    BY <1>1, <2>1, ChangeStatus DEF Statuses
  <2>3. Rows' = Rows
    BY <2>2 DEF Rows
  <2>4. QED BY <1>3, <2>1, <2>2, <2>3 DEF RunInv, TurnsInv, RowsInv, ConfirmationInv
<1>6. QED BY <1>4, <1>5

\* PrepareConfirmation keeps the invariant: the stored state runs again.
LEMMA RunInvPrepareConfirmation ==
    ASSUME MessagesConstants, RunInv, PrepareConfirmation
    PROVE  RunInv'
<1>. DEFINE state == confirmation.state
            outcome == Resumption(state, confirmation.hash)
<1>1. /\ StateOK(state) /\ ~Grown(Rows) /\ Rows \in Seq(Message)
      /\ TurnsOK(turns) /\ turns # <<>> /\ Last(turns).status = "awaiting_confirmation"
  BY RowsType DEF RunInv, TurnsInv, ConfirmationInv, PrepareConfirmation
<1>2. ~execution.running /\ execution = Idle
  BY <1>1 DEF RunInv, ExecutionInv
<1>3. confirmation' = NoConfirmation
  BY DEF PrepareConfirmation
<1>4. CASE outcome = "prepared"
  <2>1. /\ turns' = [turns EXCEPT ![Len(turns)] = Empty("running")]
        /\ execution' = [running |-> TRUE, history |-> boundHistory(Rows),
                         messages |-> state.messages,
                         iteration |-> state.iteration, text |-> state.text,
                         calls |-> state.calls, results |-> state.results]
    BY <1>4 DEF PrepareConfirmation, LastTurn, Empty
  <2>2. /\ TurnsOK(turns') /\ MessagesOf(turns') = MessagesOf(turns)
        /\ turns' # <<>> /\ Last(turns').status = "running"
    BY <1>1, <2>1, ChangeStatus DEF Statuses
  <2>3. Rows' = Rows
    BY <2>2 DEF Rows
  <2>4. boundHistory(Rows) \in Seq(Message)
    BY <1>1, BoundHistoryType
  <2>. HIDE DEF state
  <2>5. execution' \in Execution
    <3>1. /\ state.messages \in Seq(Message) /\ state.iteration \in Nat
          /\ state.text \in Nat /\ state.calls \in Seq(ToolCall) /\ state.results \in Seq(CallIDs)
      BY <1>1, SMTT(30) DEF StateOK, Conversing, MessagesConstants
    <3>2. QED BY <2>1, <2>4, <3>1 DEF Execution
  <2>6. /\ execution'.running /\ execution'.history = boundHistory(Rows)
        /\ execution'.messages = state.messages /\ execution'.iteration = state.iteration
        /\ execution'.text = state.text /\ execution'.calls = state.calls
        /\ execution'.results = state.results
    BY <2>1
  <2>7. StateOK(execution')
    BY <1>1, <2>6 DEF StateOK
  <2>8. ExecutionInv'
    BY <1>1, <2>2, <2>3, <2>5, <2>6, <2>7 DEF ExecutionInv
  <2>9. QED BY <1>3, <2>2, <2>3, <2>8 DEF RunInv, TurnsInv, RowsInv, ConfirmationInv
<1>5. CASE outcome # "prepared"
  <2>1. turns' = [turns EXCEPT ![Len(turns)] = Empty("failed")] /\ execution' = execution
    BY <1>5 DEF PrepareConfirmation, LastTurn, Empty
  <2>2. TurnsOK(turns') /\ MessagesOf(turns') = MessagesOf(turns)
    BY <1>1, <2>1, ChangeStatus DEF Statuses
  <2>3. Rows' = Rows
    BY <2>2 DEF Rows
  <2>4. ExecutionInv'
    BY <1>2, <2>1, IdleType DEF ExecutionInv
  <2>5. QED BY <1>3, <2>2, <2>3, <2>4 DEF RunInv, TurnsInv, RowsInv, ConfirmationInv
<1>6. QED BY <1>4, <1>5

\* FailTurn keeps the invariant.
LEMMA RunInvFailTurn ==
    ASSUME MessagesConstants, RunInv, FailTurn
    PROVE  RunInv'
<1>1. TurnsOK(turns) /\ turns # <<>> /\ Last(turns).status # "completed"
  BY DEF RunInv, TurnsInv, ExecutionInv, ConfirmationInv, FailTurn
<1>2. /\ turns' = [turns EXCEPT ![Len(turns)] = Empty("failed")]
      /\ execution' = Idle /\ confirmation' = NoConfirmation
  BY DEF FailTurn, LastTurn, Empty
<1>3. TurnsOK(turns') /\ MessagesOf(turns') = MessagesOf(turns)
  BY <1>1, <1>2, ChangeStatus DEF Statuses
<1>4. Rows' = Rows
  BY <1>3 DEF Rows
<1>5. ExecutionInv' /\ ConfirmationInv'
  BY <1>2, IdleType DEF ExecutionInv, ConfirmationInv
<1>6. QED BY <1>3, <1>4, <1>5 DEF RunInv, TurnsInv, RowsInv

\* Every step keeps the invariant of the turns, the run and the confirmation.
LEMMA RunInvNext ==
    ASSUME MessagesConstants, RunInv, [Next]_vars
    PROVE  RunInv'
<1>1. ASSUME NEW prompt \in Prompts, PrepareTurn(prompt) PROVE RunInv'
  BY <1>1, RunInvPrepareTurn
<1>2. ASSUME NEW request \in Requests, RequestCalls(request) PROVE RunInv'
  BY <1>2, RunInvRequestCalls
<1>3. CASE AnswerCall
  BY <1>3, RunInvAnswerCall
<1>4. ASSUME NEW text \in Answers, CompleteTurn(text) PROVE RunInv'
  BY <1>4, RunInvCompleteTurn
<1>5. CASE Suspend
  BY <1>5, RunInvSuspend
<1>6. CASE PrepareConfirmation
  BY <1>6, RunInvPrepareConfirmation
<1>7. CASE FailTurn
  BY <1>7, RunInvFailTurn
<1>8. CASE \E limit \in PageLimits : FirstPage(limit) \/ NextPage(limit)
  BY <1>8, RunInvStutter DEF FirstPage, NextPage
<1>9. CASE UNCHANGED vars
  BY <1>9, RunInvStutter DEF vars
<1>10. QED BY <1>1, <1>2, <1>3, <1>4, <1>5, <1>6, <1>7, <1>8, <1>9 DEF Next

(***************************************************************************)
(* The invariant of the turns, the run and the confirmation.               *)
(***************************************************************************)
THEOREM RunInvariant == Spec => []RunInv
<1>1. Init => RunInv
  BY RunInvInit, MessagesConstants
<1>2. RunInv /\ [Next]_vars => RunInv'
  BY RunInvNext, MessagesConstants
<1>3. QED BY <1>1, <1>2, PTL DEF Spec

-------------------------------------------------------------------------------
(* The history *)

(***************************************************************************)
(* The messages of the turns are those before a turn, and those from it    *)
(* on, which are stored as well; of a later turn, more are before it.      *)
(***************************************************************************)
Earlier(some, t) == MessagesOf(SubSeq(some, 1, t - 1))

SplitsAt(some, t) ==
    LET later == MessagesOf(From(some, t))
        k == Len(Earlier(some, t)) + 1
    IN  /\ MessagesOf(some) = Earlier(some, t) \o later
        /\ Earlier(some, t) \in Seq(Message) /\ later \in Seq(Message) /\ Stored(later)
        /\ Len(Earlier(some, t)) \in Nat
        /\ Len(MessagesOf(some)) = Len(Earlier(some, t)) + Len(later)
        /\ later # <<>> => k \in Starts(MessagesOf(some)) /\ From(MessagesOf(some), k) = later

\* The rows split at a turn: those before it, and those from it.
LEMMA SplitTurns ==
    ASSUME NEW some \in Seq(Turn), AllTurns(some), NEW t \in DOMAIN some
    PROVE  SplitsAt(some, t)
<1>. DEFINE first == SubSeq(some, 1, t - 1)
            last == From(some, t)
            a == MessagesOf(first)
            b == MessagesOf(last)
            rows == MessagesOf(some)
            M == Len(a)
            N == Len(b)
<1>1. t \in 1 .. Len(some) /\ Len(some) \in Nat
  OBVIOUS
<1>2. /\ first \in Seq(Turn) /\ last \in Seq(Turn) /\ some = first \o last
      /\ Len(last) = Len(some) - t + 1
      /\ \A i \in 1 .. Len(some) - t + 1 : last[i] = some[i + t - 1]
  BY <1>1, FromProperties
<1>3. AllTurns(last)
  <2>1. ASSUME NEW i \in DOMAIN last PROVE IsTurn(last[i].messages)
    <3>. HIDE DEF last
    <3>1. i \in 1 .. Len(some) - t + 1
      BY <1>2
    <3>2. i + t - 1 \in DOMAIN some
      BY <1>1, <3>1
    <3>3. QED BY <1>2, <3>1, <3>2 DEF AllTurns
  <2>2. QED BY <2>1 DEF AllTurns
<1>. HIDE DEF first, last
<1>4. rows = a \o b
  BY <1>2, MessagesOfConcat
<1>5. a \in Seq(Message) /\ b \in Seq(Message) /\ Stored(b)
  BY <1>2, <1>3, MessagesOfType, RowsOfTurns
<1>. HIDE DEF a, b
<1>6. /\ M \in Nat /\ N \in Nat /\ rows \in Seq(Message) /\ Len(rows) = M + N
      /\ \A k \in 1 .. M + N : rows[k] = IF k <= M THEN a[k] ELSE b[k - M]
  BY <1>4, <1>5, ConcatProperties
<1>7. ASSUME b # <<>> PROVE M + 1 \in Starts(rows) /\ From(rows, M + 1) = b
  <2>. HIDE DEF rows, M, N
  <2>1. N >= 1
    BY <1>5, <1>7, EmptySeq DEF N
  <2>2. M + 1 \in 1 .. Len(rows) /\ M + 1 \in 1 .. M + N /\ ~(M + 1 <= M) /\ (M + 1) - M = 1
        /\ Len(rows) - (M + 1) + 1 = N
    BY <1>6, <2>1
  <2>3. rows[M + 1] = b[1] /\ b[1].role = "user"
    BY <1>5, <1>6, <1>7, <2>2 DEF Stored
  <2>4. M + 1 \in Starts(rows)
    <3>1. rows \in Seq(Message) /\ M + 1 \in 1 .. Len(rows)
      BY <1>6, <2>2
    <3>2. M + 1 \in DOMAIN rows
      BY <3>1
    <3>3. QED BY <2>3, <3>2 DEF Starts
  <2>5. /\ From(rows, M + 1) \in Seq(Message) /\ Len(From(rows, M + 1)) = N
        /\ \A i \in 1 .. N : From(rows, M + 1)[i] = rows[i + (M + 1) - 1]
    BY <1>6, <2>2, FromProperties
  <2>6. ASSUME NEW i \in 1 .. N PROVE From(rows, M + 1)[i] = b[i]
    <3>1. i + (M + 1) - 1 \in 1 .. M + N /\ ~(i + (M + 1) - 1 <= M)
          /\ (i + (M + 1) - 1) - M = i
      BY <1>6
    <3>2. QED BY <1>6, <2>5, <3>1
  <2>7. From(rows, M + 1) = b
    BY <1>5, <2>5, <2>6, SeqEqual DEF N
  <2>8. QED BY <2>4, <2>7
<1>8. QED BY <1>4, <1>5, <1>6, <1>7 DEF SplitsAt, Earlier, first, last, a, b

\* A later turn has no fewer rows before it.
LEMMA EarlierGrows ==
    ASSUME NEW some \in Seq(Turn), NEW s \in DOMAIN some, NEW t \in DOMAIN some, s <= t
    PROVE  Len(Earlier(some, s)) <= Len(Earlier(some, t))
<1>. DEFINE m == s - 1
            n == t - 1
            a == SubSeq(some, 1, m)
            b == SubSeq(some, m + 1, n)
<1>1. /\ m \in 0 .. Len(some) /\ n \in m .. Len(some) /\ Len(some) \in Nat
      /\ m \in Int /\ n \in Int /\ m \in (1 - 1) .. Len(some) /\ 1 \in 1 .. Len(some) + 1
      /\ m + 1 \in Int
  OBVIOUS
<1>. HIDE DEF m, n
<1>2. /\ \A i \in 1 .. m : some[i] \in Turn
      /\ \A i \in m + 1 .. n : some[i] \in Turn
  BY <1>1
<1>3. a \in Seq(Turn) /\ b \in Seq(Turn)
  BY <1>1, <1>2, SubSeqProperties
<1>4. a \o b = SubSeq(some, 1, n)
  BY <1>1, ConcatAdjacentSubSeq
<1>5. MessagesOf(a \o b) = MessagesOf(a) \o MessagesOf(b)
  BY <1>3, MessagesOfConcat
<1>6. MessagesOf(a) \in Seq(Message) /\ MessagesOf(b) \in Seq(Message)
  BY <1>3, MessagesOfType
<1>7. Len(MessagesOf(a) \o MessagesOf(b)) = Len(MessagesOf(a)) + Len(MessagesOf(b))
  BY <1>6, ConcatProperties
<1>8. Len(MessagesOf(a)) \in Nat /\ Len(MessagesOf(b)) \in Nat
  BY <1>6
<1>. HIDE DEF a, b
<1>9. Len(MessagesOf(a)) <= Len(MessagesOf(a \o b))
  BY <1>5, <1>7, <1>8
<1>10. QED BY <1>4, <1>9 DEF Earlier, a, m, n

(***************************************************************************)
(* When the last turn has no messages, the history boundHistory finds      *)
(* among the messages is that of the earliest turn from which the messages *)
(* fit.                                                                    *)
(***************************************************************************)
FittingTurns(some) == {t \in DOMAIN some : Fits(MessagesOf(From(some, t)))}

\* boundHistory of the rows of turns is the rows of the longest end that fits.
LEMMA HistoryOfTurns ==
    ASSUME MessagesConstants, NEW some \in Seq(Turn), AllTurns(some), some # <<>>,
           MessagesIn(Last(some)) = <<>>
    PROVE  boundHistory(MessagesOf(some)) = MessagesOf(From(some, Min(FittingTurns(some))))
<1>. DEFINE rows == MessagesOf(some)
            fitting == {k \in Starts(rows) : Fits(From(rows, k))}
            N == Len(some)
            t0 == Min(FittingTurns(some))
            later(t) == MessagesOf(From(some, t))
            P(t) == Len(Earlier(some, t))
<1>1. N \in DOMAIN some /\ DOMAIN some = 1 .. N /\ N \in Nat
  BY EmptySeq
<1>2. From(some, N) = <<Last(some)>>
  <2>1. N \in 1 .. Len(some) /\ Len(some) - N + 1 = 1
    BY <1>1
  <2>2. /\ From(some, N) \in Seq(Turn) /\ Len(From(some, N)) = 1
        /\ Last(From(some, N)) = Last(some)
    <3>1. some \in Seq(Turn)
      OBVIOUS
    <3>2. /\ From(some, N) \in Seq(Turn) /\ Len(From(some, N)) = Len(some) - N + 1
          /\ Last(From(some, N)) = Last(some)
      BY <2>1, <3>1, FromProperties, ZenonT(40)
    <3>3. QED BY <2>1, <3>2, Zenon
  <2>. DEFINE f == From(some, N)
  <2>. HIDE DEF f
  <2>3. f \in Seq(Turn) /\ Len(f) = 1 => f = <<f[1]>>
    OBVIOUS
  <2>4. QED BY <2>2, <2>3 DEF f, Last
<1>3. later(N) = <<>>
  <2>. DEFINE last == Last(some)
  <2>1. last \in Turn /\ MessagesIn(last) = <<>> /\ <<>> \in Seq(Turn)
    BY <1>1 DEF Last
  <2>. HIDE DEF last
  <2>2. Append(<<>>, last) = <<last>>
    OBVIOUS
  <2>3. MessagesOf(Append(<<>>, last)) = MessagesOf(<<>>) \o MessagesIn(last)
    BY <2>1, MessagesOfAppend
  <2>4. MessagesOf(<<>>) \o MessagesIn(last) = <<>>
    BY <2>1, MessagesOfNone
  <2>5. MessagesOf(<<last>>) = <<>>
    BY <2>2, <2>3, <2>4
  <2>6. QED BY <1>2, <2>5 DEF last
<1>4. N \in FittingTurns(some)
  <2>1. Fits(<<>>)
    <3>1. Len(<<>>) = 0
      OBVIOUS
    <3>2. QED BY <3>1, SizeEmpty DEF Fits, MessagesConstants
  <2>2. QED BY <1>1, <1>3, <2>1 DEF FittingTurns
<1>5. FittingTurns(some) \in SUBSET Nat /\ FittingTurns(some) # {}
      /\ FittingTurns(some) \subseteq DOMAIN some
  BY <1>1, <1>4, SMTT(30) DEF FittingTurns
<1>6. t0 \in FittingTurns(some) /\ \A t \in FittingTurns(some) : t0 <= t
  BY <1>5, MinProperties
<1>7. t0 \in DOMAIN some /\ Fits(later(t0))
  BY <1>6 DEF FittingTurns
<1>. HIDE DEF t0
<1>8. \A t \in DOMAIN some : SplitsAt(some, t)
  BY SplitTurns
<1>9. \A t \in DOMAIN some :
        /\ P(t) \in Nat /\ later(t) \in Seq(Message) /\ Len(rows) = P(t) + Len(later(t))
        /\ later(t) # <<>> => P(t) + 1 \in Starts(rows) /\ From(rows, P(t) + 1) = later(t)
  BY <1>8 DEF SplitsAt
<1>10. fitting \in SUBSET Nat /\ fitting \subseteq DOMAIN rows
       /\ DOMAIN rows = 1 .. Len(rows) /\ Len(rows) \in Nat
  <2>1. rows \in Seq(Message)
    BY MessagesOfType
  <2>2. QED BY <2>1, SMTT(30) DEF Starts
<1>11. ASSUME NEW k \in fitting
       PROVE  \E t \in FittingTurns(some) : k = P(t) + 1 /\ later(t) # <<>>
  <2>1. StartsAt(some) /\ k \in Starts(rows) /\ k \in 1 .. Len(rows) /\ Fits(From(rows, k))
    BY <1>10, RowsOfTurns
  <2>2. PICK t \in 1 .. N : k = P(t) + 1
    BY <2>1 DEF StartsAt, Earlier
  <2>3. t \in DOMAIN some
    BY <1>1
  <2>4. later(t) # <<>>
    <3>1. CASE later(t) = <<>>
      <4>1. Len(rows) = P(t) + 0 /\ P(t) \in Nat
        BY <1>9, <2>3, <3>1
      <4>2. QED BY <2>1, <2>2, <4>1
    <3>2. QED BY <3>1
  <2>5. From(rows, k) = later(t)
    BY <1>9, <2>2, <2>3, <2>4
  <2>6. t \in FittingTurns(some)
    BY <2>1, <2>3, <2>5 DEF FittingTurns
  <2>7. QED BY <2>2, <2>4, <2>6
<1>12. ASSUME NEW t \in FittingTurns(some)
       PROVE  t \in DOMAIN some /\ P(t0) <= P(t)
  BY <1>5, <1>6, <1>7, EarlierGrows
<1>13. boundHistory(rows) = IF fitting = {} THEN <<>> ELSE From(rows, Min(fitting))
  BY DEF boundHistory
<1>. HIDE DEF fitting, P
<1>14. CASE later(t0) # <<>>
  <2>1. P(t0) + 1 \in Starts(rows) /\ From(rows, P(t0) + 1) = later(t0)
    BY <1>7, <1>9, <1>14
  <2>2. P(t0) + 1 \in fitting
    BY <1>7, <2>1 DEF fitting
  <2>3. ASSUME NEW k \in fitting PROVE P(t0) + 1 <= k
    <3>1. PICK t \in FittingTurns(some) : k = P(t) + 1 /\ later(t) # <<>>
      BY <1>11
    <3>2. P(t0) <= P(t) /\ P(t) \in Nat /\ P(t0) \in Nat
      BY <1>7, <1>9, <1>12
    <3>3. QED BY <3>1, <3>2, SMTT(30)
  <2>4. Min(fitting) = P(t0) + 1
    BY <1>10, <2>2, <2>3, MinIs
  <2>5. QED BY <1>13, <2>1, <2>2, <2>4 DEF t0
<1>15. CASE later(t0) = <<>>
  <2>1. ASSUME NEW k \in fitting PROVE FALSE
    <3>1. PICK t \in FittingTurns(some) : k = P(t) + 1 /\ later(t) # <<>>
      BY <1>11
    <3>2. P(t0) <= P(t) /\ t \in DOMAIN some
      BY <1>12
    <3>3. Len(rows) = P(t0) + 0 /\ P(t0) \in Nat
      BY <1>7, <1>9, <1>15
    <3>4. Len(rows) = P(t) + Len(later(t)) /\ P(t) \in Nat /\ later(t) \in Seq(Message)
      BY <1>9, <3>2
    <3>5. Len(later(t)) \in Nat /\ Len(later(t)) > 0
      BY <3>1, <3>4, EmptySeq
    <3>6. \A a, b, c \in Nat : a <= b /\ c > 0 => a + 0 # b + c
      BY SMTT(30)
    <3>7. QED BY <3>2, <3>3, <3>4, <3>5, <3>6, Zenon
  <2>2. fitting = {}
    BY <2>1
  <2>3. QED BY <1>13, <1>15, <2>2 DEF t0
<1>16. QED BY <1>14, <1>15

(***************************************************************************)
(* The model is given the most recent completed turns that fit, whole.     *)
(***************************************************************************)
THEOREM MessagesHistoryIsLongestThatFits == Spec => []HistoryIsLongestThatFits
<1>1. ASSUME RunInv PROVE HistoryIsLongestThatFits
  <2>1. SUFFICES ASSUME execution.running
                 PROVE  execution.history = MessagesOf(From(turns, Min(FittingTurns(turns))))
    BY DEF HistoryIsLongestThatFits, FittingTurns
  <2>2. /\ turns \in Seq(Turn) /\ AllTurns(turns) /\ turns # <<>>
        /\ Last(turns).status = "running" /\ execution.history = boundHistory(Rows)
    BY <1>1, <2>1 DEF RunInv, TurnsInv, TurnsOK, AllTurns, ExecutionInv
  <2>3. MessagesIn(Last(turns)) = <<>>
    BY <2>2 DEF MessagesIn
  <2>4. QED BY <2>2, <2>3, HistoryOfTurns, MessagesConstants DEF Rows
<1>2. QED BY <1>1, RunInvariant, PTL

-------------------------------------------------------------------------------
(* What is stored is accepted *)

(***************************************************************************)
(* Every check of a sequence accepts a conversation that the user begins   *)
(* and whose calls have their own IDs.                                     *)
(***************************************************************************)
LEMMA SequenceAccepted ==
    ASSUME NEW messages, Conversing(messages), messages # <<>>, messages[1].role = "user",
           \A k \in DOMAIN messages : DistinctIDs(messages[k].calls)
    PROVE  SequenceValid(messages, NextRole(Last(messages)))
<1>1. /\ messages \in Seq(Message) /\ DOMAIN messages = 1 .. Len(messages)
      /\ Len(messages) \in Nat
  BY DEF Conversing
<1>2. ASSUME NEW k \in 1 .. Len(messages) - 1
      PROVE  messages[k + 1].role = NextRole(messages[k])
  <2>1. k + 1 \in DOMAIN messages /\ k + 1 > 1 /\ (k + 1) - 1 = k
    BY <1>1
  <2>2. QED BY <2>1 DEF Conversing
<1>3. ASSUME NEW k \in DOMAIN messages, messages[k].role = "tool"
      PROVE  matchToolResults(messages[k - 1].calls, messages[k].results)
  <2>. DEFINE calls == messages[k - 1].calls
              results == messages[k].results
  <2>1. /\ k > 1 /\ Len(results) = Len(calls)
        /\ \A j \in DOMAIN results : results[j] = calls[j].id
    BY <1>3 DEF Conversing
  <2>2. k - 1 \in DOMAIN messages
    BY <1>1, <2>1
  <2>3. messages[k] \in Message /\ messages[k - 1] \in Message
    BY <1>1, <2>2
  <2>4. results \in Seq(CallIDs) /\ calls \in Seq(ToolCall) /\ DistinctIDs(calls)
    BY <2>2, <2>3 DEF Message
  <2>. HIDE DEF calls, results
  <2>5. DOMAIN results = DOMAIN calls
    BY <2>1, <2>4
  <2>6. ToSet(results) = IDs(calls)
    BY <2>1, <2>5 DEF ToSet, IDs
  <2>7. QED BY <2>1, <2>4, <2>6 DEF matchToolResults, calls, results
<1>4. QED BY <1>2, <1>3 DEF SequenceValid

(***************************************************************************)
(* Calls are within the limits unless their arguments are too large.       *)
(***************************************************************************)
LEMMA CallsAccepted ==
    ASSUME MessagesConstants, NEW messages, Conversing(messages)
    PROVE  CallsWithin(messages) <=> ~Grown(messages)
<1>1. \A k \in DOMAIN messages : Len(messages[k].calls) <= MaxToolCallsPerTurn
  BY DEF Conversing
<1>2. ASSUME NEW k \in DOMAIN messages, NEW j \in DOMAIN messages[k].calls
      PROVE  ArgumentsSize(messages[k].calls[j].arguments) <= MaxToolArguments
               <=> ~(ArgumentsSize(messages[k].calls[j].arguments) > MaxToolArguments)
  <2>1. messages[k] \in Message
    BY DEF Conversing
  <2>2. messages[k].calls \in Seq(ToolCall)
    BY <2>1 DEF Message
  <2>. DEFINE n == ArgumentsSize(messages[k].calls[j].arguments)
  <2>3. n \in Nat /\ MaxToolArguments \in Nat
    BY <2>2, ArgumentsSizeType DEF MessagesConstants
  <2>. HIDE DEF n
  <2>4. n <= MaxToolArguments <=> ~(n > MaxToolArguments)
    BY <2>3
  <2>5. QED BY <2>4 DEF n
<1>3. QED BY <1>1, <1>2 DEF CallsWithin, Grown

(***************************************************************************)
(* The agent accepts a conversation within its limits.                     *)
(***************************************************************************)
LEMMA AgentAccepts ==
    ASSUME MessagesConstants, NEW messages, Conversing(messages), messages # <<>>,
           messages[1].role = "user",
           \A k \in DOMAIN messages : DistinctIDs(messages[k].calls),
           Len(messages) <= AgentHistoryMessages, Size(messages) <= AgentHistoryBytes,
           ~Grown(messages)
    PROVE  prepareMessages(messages, NextRole(Last(messages)))
<1>1. CallsWithin(messages)
  BY CallsAccepted
<1>2. \A k \in DOMAIN messages : Valid(messages[k])
  BY DEF Conversing
<1>3. SequenceValid(messages, NextRole(Last(messages)))
  BY SequenceAccepted
<1>4. QED BY <1>1, <1>2, <1>3 DEF prepareMessages

(***************************************************************************)
(* The rest of stored rows from a user message is stored, and has no       *)
(* arguments that the rows do not have.                                    *)
(***************************************************************************)
LEMMA StoredFrom ==
    ASSUME NEW rows, Stored(rows), NEW k \in Starts(rows)
    PROVE  /\ Stored(From(rows, k)) /\ From(rows, k) # <<>>
           /\ Grown(From(rows, k)) => Grown(rows)
<1>. DEFINE rest == From(rows, k)
            N == Len(rows) - k + 1
<1>1. /\ rows \in Seq(Message) /\ k \in 1 .. Len(rows) /\ k \in DOMAIN rows
      /\ rows[k].role = "user" /\ Conversing(rows)
      /\ DOMAIN rows = 1 .. Len(rows) /\ Len(rows) \in Nat
  BY DEF Stored, Conversing, Starts
<1>2. /\ rest \in Seq(Message) /\ Len(rest) = N /\ rest # <<>> /\ Last(rest) = Last(rows)
      /\ \A i \in 1 .. N : rest[i] = rows[i + k - 1]
  BY <1>1, FromProperties
<1>3. Conversing(rest)
  BY <1>1, ConversingFrom
<1>4. rows # <<>>
  BY <1>1
<1>. HIDE DEF rest
<1>5. DOMAIN rest = 1 .. N
  BY <1>2
<1>6. \A i \in DOMAIN rest : i + k - 1 \in DOMAIN rows /\ rest[i] = rows[i + k - 1]
  <2>1. \A n \in Nat : \A j \in 1 .. n : \A i \in 1 .. n - j + 1 : i + j - 1 \in 1 .. n
    OBVIOUS
  <2>2. \A i \in 1 .. N : i + k - 1 \in 1 .. Len(rows)
    BY <1>1, <2>1, Zenon
  <2>3. QED BY <1>1, <1>2, <1>5, <2>2, Zenon
<1>7. rest[1].role = "user"
  <2>1. 1 \in 1 .. N /\ 1 + k - 1 = k
    BY <1>1
  <2>2. QED BY <1>1, <1>2, <2>1
<1>8. NextRole(Last(rest)) = "user"
  BY <1>2, <1>4 DEF Stored
<1>9. \A i \in DOMAIN rest : DistinctIDs(rest[i].calls)
  BY <1>6 DEF Stored
<1>10. Grown(rest) => Grown(rows)
  BY <1>6 DEF Grown
<1>11. QED BY <1>2, <1>3, <1>7, <1>8, <1>9, <1>10 DEF Stored, rest

(***************************************************************************)
(* The history of stored rows is empty, or stored rows that fit.           *)
(***************************************************************************)
LEMMA HistoryStored ==
    ASSUME NEW rows, Stored(rows)
    PROVE  /\ Stored(boundHistory(rows))
           /\ boundHistory(rows) # <<>> => Fits(boundHistory(rows))
           /\ Grown(boundHistory(rows)) => Grown(rows)
<1>. DEFINE fitting == {k \in Starts(rows) : Fits(From(rows, k))}
<1>1. fitting \in SUBSET Nat
  BY DEF Starts, Stored, Conversing
<1>2. boundHistory(rows) = IF fitting = {} THEN <<>> ELSE From(rows, Min(fitting))
  BY DEF boundHistory
<1>3. CASE fitting = {}
  <2>1. Stored(<<>>) /\ ~Grown(<<>>)
    BY NoRows DEF IsTurn, Grown
  <2>2. QED BY <1>2, <1>3, <2>1
<1>4. CASE fitting # {}
  <2>1. Min(fitting) \in fitting
    BY <1>1, <1>4, MinProperties
  <2>2. boundHistory(rows) = From(rows, Min(fitting))
    BY <1>2, <1>4
  <2>3. QED BY <2>1, <2>2, StoredFrom
<1>5. QED BY <1>3, <1>4

(***************************************************************************)
(* Stored rows within the limits prepare a turn, unless arguments that     *)
(* grew are among them.                                                    *)
(***************************************************************************)
LEMMA StoredPrepares ==
    ASSUME MessagesConstants, NEW rows, Stored(rows),
           Len(rows) <= MaxMessages, Size(rows) <= MaxConversationBytes
    PROVE  Preparation(rows) = IF Grown(rows) THEN "history_failed" ELSE "prepared"
<1>1. LoadFails(rows) <=> Grown(rows)
  <2>1. CASE rows = <<>>
    BY <2>1 DEF LoadFails, Grown
  <2>2. CASE rows # <<>>
    <3>1. SequenceValid(rows, "user")
      <4>1. /\ Conversing(rows) /\ rows[1].role = "user" /\ NextRole(Last(rows)) = "user"
            /\ \A k \in DOMAIN rows : DistinctIDs(rows[k].calls)
        BY <2>2 DEF Stored
      <4>2. SequenceValid(rows, NextRole(Last(rows)))
        BY <2>2, <4>1, SequenceAccepted
      <4>3. QED BY <4>1, <4>2
    <3>2. \A k \in DOMAIN rows : Valid(rows[k])
      BY DEF Stored, Conversing
    <3>3. CallsWithin(rows) <=> ~Grown(rows)
      BY CallsAccepted DEF Stored
    <3>4. QED BY <2>2, <3>1, <3>2, <3>3 DEF LoadFails
  <2>3. QED BY <2>1, <2>2
<1>2. ~BoundFails(rows)
  <2>1. rows # <<>> => 1 \in Starts(rows)
    <3>1. rows # <<>> => 1 \in DOMAIN rows /\ rows[1].role = "user"
      BY EmptySeq, SMTT(30) DEF Stored, Conversing
    <3>2. QED BY <3>1 DEF Starts
  <2>2. QED BY <2>1 DEF BoundFails
<1>. DEFINE history == boundHistory(rows)
<1>3. ASSUME ~Grown(rows) PROVE prepareMessages(history, "user")
  <2>1. CASE history = <<>>
    BY <2>1 DEF prepareMessages
  <2>2. CASE history # <<>>
    <3>. HIDE DEF history
    <3>1. /\ Stored(history) /\ Fits(history) /\ ~Grown(history)
      BY <1>3, <2>2, HistoryStored DEF history
    <3>2. /\ Conversing(history) /\ history[1].role = "user"
          /\ NextRole(Last(history)) = "user"
          /\ \A k \in DOMAIN history : DistinctIDs(history[k].calls)
          /\ history \in Seq(Message)
      BY <2>2, <3>1 DEF Stored, Conversing
    <3>3. Len(history) <= AgentHistoryMessages /\ Size(history) <= AgentHistoryBytes
      <4>. DEFINE n == Len(history)
                  b == Size(history)
      <4>1. n <= MaxHistoryMessages /\ b <= MaxHistoryBytes
        BY <3>1 DEF Fits
      <4>2. b \in Nat
        BY <3>2, SizeType
      <4>3. n \in Nat
        BY <3>2
      <4>4. /\ AgentHistoryMessages >= MaxHistoryMessages /\ AgentHistoryBytes >= MaxHistoryBytes
            /\ MaxHistoryMessages \in Nat /\ MaxHistoryBytes \in Nat
            /\ AgentHistoryMessages \in Nat /\ AgentHistoryBytes \in Nat
        BY DEF MessagesConstants
      <4>. HIDE DEF n, b
      <4>5. n <= AgentHistoryMessages /\ b <= AgentHistoryBytes
        BY <4>1, <4>2, <4>3, <4>4
      <4>6. QED BY <4>5 DEF n, b
    <3>4. prepareMessages(history, NextRole(Last(history)))
      BY <2>2, <3>1, <3>2, <3>3, AgentAccepts
    <3>5. QED BY <3>2, <3>4
  <2>3. QED BY <2>1, <2>2
<1>4. QED BY <1>1, <1>2, <1>3 DEF Preparation

-------------------------------------------------------------------------------
(* What the Messages protocol takes *)

Wires == [ok: BOOLEAN, pending: SUBSET CallIDs, seen: SUBSET CallIDs]

NewWire == [ok |-> TRUE, pending |-> {}, seen |-> {}]

\* The recursive function newCreateRequest is defined by, without its choice.
WiresUp(f, messages) ==
    f = [n \in 0 .. Len(messages) |->
          IF n = 0 THEN [ok |-> TRUE, pending |-> {}, seen |-> {}]
          ELSE AppendMessage(f[n - 1], messages[n])]

(***************************************************************************)
(* The IDs of calls and of results are IDs, and none are those of none.    *)
(***************************************************************************)
LEMMA IDsType ==
    ASSUME NEW calls \in Seq(ToolCall)
    PROVE  IDs(calls) \in SUBSET CallIDs /\ (IDs(calls) = {} <=> calls = <<>>)
<1>1. \A k \in DOMAIN calls : calls[k] \in ToolCall /\ calls[k].id \in CallIDs
  <2>1. \A k \in DOMAIN calls : calls[k] \in ToolCall
    OBVIOUS
  <2>2. QED BY <2>1 DEF ToolCall
<1>2. calls # <<>> => 1 \in DOMAIN calls
  BY EmptySeq
<1>3. calls = <<>> => DOMAIN calls = {}
  OBVIOUS
<1>4. QED BY <1>1, <1>2, <1>3 DEF IDs

(***************************************************************************)
(* What one message adds to a request: nothing is due but the results of   *)
(* the calls of the message before it.                                     *)
(***************************************************************************)
LEMMA AppendMessageType ==
    ASSUME NEW wire \in Wires, NEW m \in Message
    PROVE  AppendMessage(wire, m) \in Wires
<1>1. /\ m.calls \in Seq(ToolCall) /\ IDs(m.calls) \in SUBSET CallIDs
      /\ wire.pending \in SUBSET CallIDs /\ wire.seen \in SUBSET CallIDs
  BY IDsType DEF Message, Wires
<1>2. CASE wire.pending # {} /\ m.role # "tool"
  <2>1. AppendMessage(wire, m) = [wire EXCEPT !.ok = FALSE]
    BY <1>2 DEF AppendMessage
  <2>2. QED BY <2>1 DEF Wires
<1>3. CASE wire.pending = {} /\ m.role = "assistant"
  <2>. DEFINE ok == wire.ok /\ IDs(m.calls) \cap wire.seen = {} /\ DistinctIDs(m.calls)
  <2>1. AppendMessage(wire, m) =
          [ok |-> ok, pending |-> IDs(m.calls), seen |-> wire.seen \cup IDs(m.calls)]
    BY <1>3, Zenon DEF AppendMessage
  <2>2. ok \in BOOLEAN
    OBVIOUS
  <2>. HIDE DEF ok
  <2>3. QED BY <1>1, <2>1, <2>2 DEF Wires
<1>4. CASE m.role = "tool"
  <2>. DEFINE ok == wire.ok /\ ToSet(m.results) \subseteq wire.pending /\ IsInjective(m.results)
  <2>1. AppendMessage(wire, m) =
          [wire EXCEPT !.ok = ok, !.pending = wire.pending \ ToSet(m.results)]
    <3>1. ~(wire.pending # {} /\ m.role # "tool") /\ ~(m.role = "assistant")
      BY <1>4
    <3>2. QED BY <1>4, <3>1, Zenon DEF AppendMessage
  <2>2. ok \in BOOLEAN
    OBVIOUS
  <2>. HIDE DEF ok
  <2>3. QED BY <1>1, <2>1, <2>2 DEF Wires
<1>5. CASE wire.pending = {} /\ m.role # "assistant" /\ m.role # "tool"
  <2>1. AppendMessage(wire, m) = wire
    BY <1>5 DEF AppendMessage
  <2>2. QED BY <2>1
<1>6. QED BY <1>2, <1>3, <1>4, <1>5

\* newCreateRequest goes through the messages one by one.
LEMMA PartialWires ==
    ASSUME NEW messages \in Seq(Message)
    PROVE  \E f : /\ f \in [0 .. Len(messages) -> Wires]
                  /\ f[0] = NewWire
                  /\ \A n \in 1 .. Len(messages) : f[n] = AppendMessage(f[n - 1], messages[n])
                  /\ newCreateRequest(messages) <=>
                       /\ f[Len(messages)].ok /\ f[Len(messages)].pending = {}
                       /\ messages[1].role = "user" /\ Last(messages).role # "assistant"
<1>. DEFINE N == Len(messages)
            step == [p \in (1 .. N) \X Wires |-> AppendMessage(p[2], messages[p[1]])]
<1>1. N \in Nat /\ \A n \in 1 .. N : messages[n] \in Message
  OBVIOUS
<1>2. step \in [(1 .. N) \X Wires -> Wires]
  BY <1>1, AppendMessageType
<1>3. \A n \in 1 .. N, v \in Wires : step[<<n, v>>] = AppendMessage(v, messages[n])
  OBVIOUS
<1>4. NewWire \in Wires
  BY DEF NewWire, Wires
<1>. HIDE DEF step, N
<1>5. PICK f : Follows(f, N, Wires, NewWire, step)
  BY <1>1, <1>2, <1>4, RecursionExists
<1>6. \A n \in 1 .. N : f[n] = AppendMessage(f[n - 1], messages[n])
  <2>1. ASSUME NEW n \in 1 .. N PROVE f[n] = AppendMessage(f[n - 1], messages[n])
    <3>1. n - 1 \in 0 .. N
      BY <1>1
    <3>2. f[n - 1] \in Wires
      BY <1>5, <3>1 DEF Follows
    <3>3. QED BY <1>3, <1>5, <3>2 DEF Follows
  <2>2. QED BY <2>1
<1>7. WiresUp(f, messages)
  <2>1. \A n \in 0 .. N : n # 0 => n \in 1 .. N
    BY <1>1
  <2>2. f = [n \in 0 .. N |-> IF n = 0 THEN NewWire ELSE AppendMessage(f[n - 1], messages[n])]
    BY <1>5, <1>6, <2>1 DEF Follows
  <2>3. QED BY <2>2 DEF WiresUp, N, NewWire
<1>. DEFINE g == CHOOSE h : WiresUp(h, messages)
<1>8. WiresUp(g, messages)
  BY <1>7
<1>9. newCreateRequest(messages) <=>
        /\ g[N].ok /\ g[N].pending = {}
        /\ messages[1].role = "user" /\ Last(messages).role # "assistant"
  BY DEF newCreateRequest, WiresUp, N
<1>10. \A n \in 0 .. N : g[n] = IF n = 0 THEN NewWire ELSE AppendMessage(g[n - 1], messages[n])
  BY <1>8 DEF WiresUp, N, NewWire
<1>. HIDE DEF g
<1>11. \A n \in 0 .. N : g[n] = f[n]
  <2>1. g[0] = f[0]
    BY <1>1, <1>5, <1>10 DEF Follows
  <2>2. \A n \in 1 .. N : g[n - 1] = f[n - 1] => g[n] = f[n]
    <3>1. \A n \in 1 .. N : n \in 0 .. N /\ n # 0
      BY <1>1
    <3>2. QED BY <1>6, <1>10, <3>1
  <2>3. AgreeStep(g, f, N)
    BY <2>1, <2>2 DEF AgreeStep
  <2>4. Agree(g, f, N)
    BY <1>1, <2>3, RecursionUnique, Zenon
  <2>5. QED BY <2>4 DEF Agree
<1>12. g[N] = f[N]
  BY <1>1, <1>11
<1>13. /\ f \in [0 .. N -> Wires] /\ f[0] = NewWire
       /\ newCreateRequest(messages) <=>
            /\ f[N].ok /\ f[N].pending = {}
            /\ messages[1].role = "user" /\ Last(messages).role # "assistant"
  BY <1>5, <1>9, <1>12 DEF Follows
<1>14. QED BY <1>6, <1>13 DEF N

(***************************************************************************)
(* The calls of the first n messages have their own IDs: of one message    *)
(* more, its calls among themselves and none of the calls before.          *)
(***************************************************************************)
DistinctUpto(messages, n) ==
    \A k, m \in 1 .. n :
        \A i \in DOMAIN messages[k].calls, j \in DOMAIN messages[m].calls :
            messages[k].calls[i].id = messages[m].calls[j].id => k = m /\ i = j

SeenUpto(messages, n) == UNION {IDs(messages[k].calls) : k \in 1 .. n}

\* One message more shares no ID if it has none of those before, nor twice one.
LEMMA DistinctOneMore ==
    ASSUME NEW messages, NEW n \in Nat
    PROVE  /\ DistinctUpto(messages, n + 1) <=>
                /\ DistinctUpto(messages, n) /\ DistinctIDs(messages[n + 1].calls)
                /\ IDs(messages[n + 1].calls) \cap SeenUpto(messages, n) = {}
           /\ SeenUpto(messages, n + 1) = SeenUpto(messages, n) \cup IDs(messages[n + 1].calls)
<1>1. /\ \A k \in 1 .. n : k \in 1 .. n + 1 /\ k # n + 1
      /\ n + 1 \in 1 .. n + 1
      /\ \A k \in 1 .. n + 1 : k = n + 1 \/ k \in 1 .. n
  BY UpToLast
<1>. DEFINE calls == messages[n + 1].calls
<1>2. SeenUpto(messages, n + 1) = SeenUpto(messages, n) \cup IDs(calls)
  BY <1>1 DEF SeenUpto
<1>3. ASSUME DistinctUpto(messages, n + 1)
      PROVE  /\ DistinctUpto(messages, n) /\ DistinctIDs(calls)
             /\ IDs(calls) \cap SeenUpto(messages, n) = {}
  <2>1. DistinctUpto(messages, n)
    BY <1>1, <1>3 DEF DistinctUpto
  <2>2. DistinctIDs(calls)
    BY <1>1, <1>3 DEF DistinctUpto, DistinctIDs
  <2>3. ASSUME NEW id \in IDs(calls), id \in SeenUpto(messages, n) PROVE FALSE
    <3>1. PICK k \in 1 .. n : id \in IDs(messages[k].calls)
      BY <2>3 DEF SeenUpto
    <3>2. PICK i \in DOMAIN messages[k].calls : id = messages[k].calls[i].id
      BY <3>1 DEF IDs
    <3>3. PICK j \in DOMAIN calls : id = calls[j].id
      BY DEF IDs
    <3>4. k \in 1 .. n + 1 /\ n + 1 \in 1 .. n + 1 /\ k # n + 1
      BY <1>1
    <3>5. QED BY <1>3, <3>2, <3>3, <3>4 DEF DistinctUpto
  <2>4. QED BY <2>1, <2>2, <2>3
<1>4. ASSUME DistinctUpto(messages, n), DistinctIDs(calls),
             IDs(calls) \cap SeenUpto(messages, n) = {}
      PROVE  DistinctUpto(messages, n + 1)
  <2>. SUFFICES ASSUME NEW k \in 1 .. n + 1, NEW m \in 1 .. n + 1,
                       NEW i \in DOMAIN messages[k].calls, NEW j \in DOMAIN messages[m].calls,
                       messages[k].calls[i].id = messages[m].calls[j].id
                PROVE  k = m /\ i = j
    BY DEF DistinctUpto
  <2>1. \A h \in 1 .. n : \A l \in DOMAIN messages[h].calls :
          messages[h].calls[l].id \in SeenUpto(messages, n)
    BY DEF SeenUpto, IDs
  <2>2. \A l \in DOMAIN calls : calls[l].id \in IDs(calls)
    BY DEF IDs
  <2>3. CASE k \in 1 .. n /\ m \in 1 .. n
    BY <1>4, <2>3 DEF DistinctUpto
  <2>4. CASE k = n + 1 /\ m = n + 1
    BY <1>4, <2>4 DEF DistinctIDs
  <2>5. CASE k \in 1 .. n /\ m = n + 1
    BY <1>4, <2>1, <2>2, <2>5
  <2>6. CASE k = n + 1 /\ m \in 1 .. n
    BY <1>4, <2>1, <2>2, <2>6
  <2>7. QED BY <1>1, <2>3, <2>4, <2>5, <2>6
<1>5. QED BY <1>2, <1>3, <1>4

(***************************************************************************)
(* The request is refused at the first call with the ID of another one,    *)
(* and nothing else of a conversation is refused.                          *)
(***************************************************************************)
Due(messages, n) ==
    IF n > 0 /\ messages[n].role = "assistant" THEN IDs(messages[n].calls) ELSE {}

Sent(wire, messages, n) ==
    /\ wire.pending = Due(messages, n) /\ wire.seen = SeenUpto(messages, n)
    /\ wire.ok <=> DistinctUpto(messages, n)

\* After one message more, the wire still says what is due and whether an ID is shared.
LEMMA SentOneMore ==
    ASSUME NEW messages, Conversing(messages), NEW n \in Nat, n + 1 \in DOMAIN messages,
           NEW wire \in Wires, Sent(wire, messages, n)
    PROVE  Sent(AppendMessage(wire, messages[n + 1]), messages, n + 1)
<1>. DEFINE m == messages[n + 1]
            next == AppendMessage(wire, m)
<1>1. /\ messages \in Seq(Message) /\ m \in Message
      /\ m.calls \in Seq(ToolCall) /\ m.results \in Seq(CallIDs)
      /\ m.role \in Roles
      /\ m.role # "assistant" => m.calls = <<>>
  <2>1. messages \in Seq(Message)
    BY DEF Conversing
  <2>2. m \in Message
    BY <2>1
  <2>3. QED BY <2>1, <2>2 DEF Conversing, Message
<1>2. n > 0 => n \in DOMAIN messages /\ m.role = NextRole(messages[n])
  <2>1. n > 0 => n \in DOMAIN messages /\ n + 1 > 1 /\ (n + 1) - 1 = n
    BY <1>1
  <2>2. QED BY <2>1 DEF Conversing
<1>3. n > 0 => messages[n].calls \in Seq(ToolCall)
  <2>1. n > 0 => messages[n] \in Message
    BY <1>1, <1>2
  <2>2. QED BY <2>1 DEF Message
<1>4. ASSUME m.role # "tool" PROVE wire.pending = {}
  <2>1. CASE n > 0 /\ messages[n].role = "assistant"
    <3>1. messages[n].calls = <<>>
      BY <1>2, <1>4, <2>1 DEF NextRole
    <3>2. IDs(messages[n].calls) = {}
      BY <1>3, <2>1, <3>1, IDsType
    <3>3. QED BY <2>1, <3>2 DEF Sent, Due
  <2>2. CASE ~(n > 0 /\ messages[n].role = "assistant")
    BY <2>2 DEF Sent, Due
  <2>3. QED BY <2>1, <2>2
<1>5. /\ DistinctUpto(messages, n + 1) <=>
           /\ DistinctUpto(messages, n) /\ DistinctIDs(m.calls)
           /\ IDs(m.calls) \cap SeenUpto(messages, n) = {}
      /\ SeenUpto(messages, n + 1) = SeenUpto(messages, n) \cup IDs(m.calls)
  BY DistinctOneMore
<1>6. ASSUME m.role # "assistant"
      PROVE  /\ DistinctUpto(messages, n + 1) <=> DistinctUpto(messages, n)
             /\ SeenUpto(messages, n + 1) = SeenUpto(messages, n)
             /\ Due(messages, n + 1) = {}
  <2>1. IDs(m.calls) = {} /\ DistinctIDs(m.calls)
    BY <1>1, <1>6, IDsType DEF DistinctIDs
  <2>2. QED BY <1>5, <1>6, <2>1 DEF Due
<1>7. CASE m.role = "assistant"
  <2>1. wire.pending = {} /\ m.role # "tool"
    BY <1>4, <1>7
  <2>. DEFINE ok == wire.ok /\ IDs(m.calls) \cap wire.seen = {} /\ DistinctIDs(m.calls)
  <2>2. next = [ok |-> ok, pending |-> IDs(m.calls), seen |-> wire.seen \cup IDs(m.calls)]
    BY <1>7, <2>1, Zenon DEF AppendMessage
  <2>3. (next.ok <=> ok) /\ next.pending = IDs(m.calls) /\ next.seen = wire.seen \cup IDs(m.calls)
    <3>. HIDE DEF ok, m
    <3>1. QED BY <2>2
  <2>4. Due(messages, n + 1) = IDs(m.calls)
    <3>1. n + 1 > 0
      OBVIOUS
    <3>2. QED BY <1>7, <3>1 DEF Due
  <2>. HIDE DEF next, m
  <2>5. QED BY <1>5, <2>3, <2>4 DEF Sent, next, m
<1>8. CASE m.role = "tool"
  <2>. DEFINE k == (n + 1) - 1
              ok == wire.ok /\ ToSet(m.results) \subseteq wire.pending /\ IsInjective(m.results)
  <2>1. next = [wire EXCEPT !.ok = ok, !.pending = wire.pending \ ToSet(m.results)]
    <3>1. ~(wire.pending # {} /\ m.role # "tool")
          /\ ~(wire.pending = {} /\ m.role = "assistant")
      BY <1>8
    <3>2. QED BY <1>8, <3>1, Zenon DEF AppendMessage
  <2>2. (next.ok <=> ok) /\ next.pending = wire.pending \ ToSet(m.results)
        /\ next.seen = wire.seen
    <3>. HIDE DEF ok, m
    <3>1. QED BY <2>1 DEF Wires
  <2>3. /\ n + 1 > 1 /\ Len(m.results) = Len(messages[k].calls)
        /\ \A j \in DOMAIN m.results : m.results[j] = messages[k].calls[j].id
    BY <1>8 DEF Conversing
  <2>4. k = n /\ n > 0
    BY <2>3
  <2>. DEFINE calls == messages[n].calls
  <2>5. /\ Len(m.results) = Len(calls) /\ calls \in Seq(ToolCall)
        /\ \A j \in DOMAIN m.results : m.results[j] = calls[j].id
    BY <1>3, <2>3, <2>4
  <2>6. DOMAIN m.results = DOMAIN calls
    BY <1>1, <2>5
  <2>7. ToSet(m.results) = IDs(calls) /\ (IsInjective(m.results) <=> DistinctIDs(calls))
    <3>. HIDE DEF m, calls
    <3>1. QED BY <2>5, <2>6 DEF ToSet, IDs, IsInjective, DistinctIDs
  <2>8. messages[n].role = "assistant"
    BY <1>2, <1>8, <2>4 DEF NextRole
  <2>9. wire.pending = IDs(calls)
    BY <2>4, <2>8 DEF Sent, Due
  <2>10. ASSUME DistinctUpto(messages, n) PROVE DistinctIDs(calls)
    <3>1. n \in 1 .. n
      BY <2>4
    <3>2. QED BY <2>10, <3>1 DEF DistinctUpto, DistinctIDs
  <2>11. ok <=> DistinctUpto(messages, n)
    BY <2>7, <2>9, <2>10 DEF Sent
  <2>12. m.role # "assistant"
    BY <1>8
  <2>. HIDE DEF next, m, ok, calls
  <2>13. QED BY <1>6, <2>2, <2>7, <2>9, <2>11, <2>12 DEF Sent, next, m
<1>9. CASE m.role = "user"
  <2>1. wire.pending = {} /\ m.role # "tool" /\ m.role # "assistant"
    BY <1>4, <1>9
  <2>2. next = wire
    BY <2>1 DEF AppendMessage
  <2>. HIDE DEF next, m
  <2>3. QED BY <1>6, <2>1, <2>2 DEF Sent, next, m
<1>10. QED BY <1>1, <1>7, <1>8, <1>9 DEF Roles

\* The Messages protocol takes a history and a turn iff no two calls share an ID.
LEMMA RequestTaken ==
    ASSUME NEW messages, Conversing(messages), messages # <<>>,
           messages[1].role = "user", NextRole(Last(messages)) = "assistant"
    PROVE  newCreateRequest(messages) <=> DistinctCalls(messages)
<1>. DEFINE N == Len(messages)
<1>1. /\ messages \in Seq(Message) /\ DOMAIN messages = 1 .. N /\ N \in Nat
      /\ N \in DOMAIN messages
  <2>1. messages \in Seq(Message)
    BY DEF Conversing
  <2>2. QED BY <2>1, EmptySeq
<1>2. PICK f : /\ f \in [0 .. N -> Wires]
               /\ f[0] = NewWire
               /\ \A n \in 1 .. N : f[n] = AppendMessage(f[n - 1], messages[n])
               /\ newCreateRequest(messages) <=>
                    /\ f[N].ok /\ f[N].pending = {}
                    /\ messages[1].role = "user" /\ Last(messages).role # "assistant"
  BY <1>1, PartialWires
<1>3. Last(messages) = messages[N]
  BY DEF Last
<1>. HIDE DEF N
<1>. DEFINE good == {n \in Nat : n <= N => Sent(f[n], messages, n)}
<1>4. 0 \in good
  <2>1. 1 .. 0 = {}
    OBVIOUS
  <2>2. DistinctUpto(messages, 0) /\ SeenUpto(messages, 0) = {} /\ Due(messages, 0) = {}
    BY <2>1 DEF DistinctUpto, SeenUpto, Due
  <2>3. f[0].ok /\ f[0].pending = {} /\ f[0].seen = {}
    BY <1>2 DEF NewWire
  <2>4. QED BY <2>2, <2>3 DEF Sent
<1>5. ASSUME NEW n \in Nat, n \in good PROVE n + 1 \in good
  <2>1. SUFFICES ASSUME n + 1 <= N PROVE Sent(f[n + 1], messages, n + 1)
    OBVIOUS
  <2>2. n \in 0 .. N /\ n + 1 \in 1 .. N /\ n <= N /\ (n + 1) - 1 = n
    BY <1>1, <2>1
  <2>3. f[n] \in Wires /\ Sent(f[n], messages, n) /\ f[n + 1] = AppendMessage(f[n], messages[n + 1])
    BY <1>2, <1>5, <2>2
  <2>4. n + 1 \in DOMAIN messages
    BY <1>1, <2>2
  <2>5. QED BY <2>3, <2>4, SentOneMore
<1>. HIDE DEF good
<1>6. \A n \in Nat : n \in good
  BY <1>4, <1>5, NumberInduction
<1>7. Sent(f[N], messages, N)
  BY <1>1, <1>6 DEF good
<1>8. messages[N].role # "assistant"
  <2>1. CASE messages[N].role = "assistant"
    <3>1. NextRole(messages[N]) \in {"user", "tool"}
      BY <2>1 DEF NextRole
    <3>2. QED BY <1>3, <3>1
  <2>2. QED BY <2>1
<1>9. f[N].pending = {} /\ (f[N].ok <=> DistinctUpto(messages, N))
  BY <1>7, <1>8 DEF Sent, Due
<1>10. DistinctUpto(messages, N) <=> DistinctCalls(messages)
  BY <1>1 DEF DistinctUpto, DistinctCalls
<1>11. QED BY <1>2, <1>3, <1>8, <1>9, <1>10

(***************************************************************************)
(* What was stored can be used again.                                      *)
(***************************************************************************)
LEMMA StateResumes ==
    ASSUME MessagesConstants, NEW state, StateOK(state),
           ~SharedIDs(state.messages), ~Grown(state.messages),
           Size(state.messages) <= AgentHistoryBytes
    PROVE  prepareMessages(state.messages, "assistant")
<1>. DEFINE messages == state.messages
            N == Len(messages)
<1>1. /\ Conversing(messages) /\ messages # <<>> /\ NextRole(Last(messages)) = "assistant"
      /\ \A k \in DOMAIN messages : messages[k].role = "user" <=> k = 1
      /\ messages \in Seq(Message)
  BY DEF StateOK, Conversing
<1>2. messages[1].role = "user"
  <2>1. 1 \in DOMAIN messages
    BY <1>1, EmptySeq, SMTT(30)
  <2>2. QED BY <1>1, <2>1
<1>3. \A k \in DOMAIN messages : DistinctIDs(messages[k].calls)
  BY DEF SharedIDs
<1>4. N <= AgentHistoryMessages
  <2>1. /\ state.iteration \in 0 .. MaxIterations
        /\ N = 2 * (IF state.calls = <<>> THEN state.iteration ELSE state.iteration - 1) + 1
    BY DEF StateOK
  <2>2. /\ MaxIterations \in Nat /\ AgentHistoryMessages \in Nat
        /\ AgentHistoryMessages >= 2 * MaxIterations + 1
    BY DEF MessagesConstants
  <2>. DEFINE i == state.iteration
  <2>. HIDE DEF i, N
  <2>3. i \in 0 .. MaxIterations /\ (N = 2 * i + 1 \/ N = 2 * (i - 1) + 1)
    BY <2>1 DEF i
  <2>4. QED BY <2>2, <2>3
<1>. HIDE DEF messages
<1>5. ~Grown(messages) /\ Size(messages) <= AgentHistoryBytes
  BY DEF messages
<1>6. prepareMessages(messages, NextRole(Last(messages)))
  BY <1>1, <1>2, <1>3, <1>4, <1>5, AgentAccepts
<1>7. QED BY <1>1, <1>6 DEF messages

(***************************************************************************)
(* What the store accepted prepares the next turn, a stored confirmation   *)
(* resumes its turn, and the Messages protocol takes every request, but    *)
(* for the exceptions StoredIsUsable names (codec.go, agent/history.go,    *)
(* llm/messages/request.go).                                               *)
(***************************************************************************)
THEOREM MessagesStoredIsUsable == Spec => []StoredIsUsable
<1>1. ASSUME RunInv PROVE StoredIsUsable
  <2>1. /\ Stored(Rows) /\ Len(Rows) <= MaxMessages /\ Size(Rows) <= MaxConversationBytes
        /\ MessagesConstants
    BY <1>1, RowsType, MessagesConstants DEF RunInv, RowsInv
  <2>2. Preparation(Rows) = IF Grown(Rows) THEN "history_failed" ELSE "prepared"
    BY <2>1, StoredPrepares
  <2>3. ASSUME confirmation # NoConfirmation
        PROVE  LET outcome == Resumption(confirmation.state, confirmation.hash)
                   before == confirmation.state.messages
               IN  /\ outcome = "confirmation_invalid"
                        <=> confirmation.hash # Marshal(confirmation.hash)
                   /\ outcome \in {"prepared", "confirmation_invalid", "state_refused"}
                   /\ outcome = "state_refused" =>
                        SharedIDs(before) \/ Grown(before) \/ Size(before) > AgentHistoryBytes
    <3>. DEFINE state == confirmation.state
                hash == confirmation.hash
                before == state.messages
                outcome == Resumption(state, hash)
    <3>1. /\ StateOK(state) /\ ~Grown(Rows) /\ PendingCall(state).arguments = Marshal(hash)
      BY <1>1, <2>3 DEF RunInv, ConfirmationInv
    <3>2. Preparation(Rows) = "prepared"
      BY <2>2, <3>1
    <3>3. outcome = IF Marshal(hash) # hash THEN "confirmation_invalid"
                    ELSE IF ~prepareMessages(before, "assistant") THEN "state_refused"
                    ELSE "prepared"
      BY <3>1, <3>2 DEF Resumption
    <3>4. ASSUME ~prepareMessages(before, "assistant")
          PROVE  SharedIDs(before) \/ Grown(before) \/ Size(before) > AgentHistoryBytes
      <4>1. SharedIDs(before) \/ Grown(before) \/ ~(Size(before) <= AgentHistoryBytes)
        BY <2>1, <3>1, <3>4, StateResumes
      <4>2. Size(before) \in Nat /\ AgentHistoryBytes \in Nat
        BY <2>1, <3>1, SizeType DEF StateOK, Conversing, MessagesConstants
      <4>. HIDE DEF before
      <4>3. QED BY <4>1, <4>2
    <3>. HIDE DEF outcome, before, hash, state
    <3>5. QED BY <3>3, <3>4 DEF outcome, before, hash, state
  <2>4. ASSUME execution.running, execution.calls = <<>>
        PROVE  LET messages == execution.history \o execution.messages
               IN  newCreateRequest(messages) <=> DistinctCalls(messages)
    <3>. DEFINE a == execution.history
                b == execution.messages
                messages == a \o b
    <3>1. a = boundHistory(Rows) /\ StateOK(execution)
      BY <1>1, <2>4 DEF RunInv, ExecutionInv
    <3>2. Stored(a)
      BY <2>1, <3>1, HistoryStored
    <3>3. /\ Conversing(a) /\ a \in Seq(Message)
          /\ a # <<>> => a[1].role = "user" /\ NextRole(Last(a)) = "user"
      BY <3>2 DEF Stored, Conversing
    <3>4. /\ Conversing(b) /\ b \in Seq(Message) /\ b # <<>>
          /\ \A k \in DOMAIN b : b[k].role = "user" <=> k = 1
          /\ NextRole(Last(b)) = "assistant"
      BY <3>1 DEF StateOK, Conversing
    <3>. HIDE DEF a, b
    <3>5. b[1].role = "user"
      <4>1. 1 \in DOMAIN b
        BY <3>4, EmptySeq
      <4>2. QED BY <3>4, <4>1
    <3>6. Conversing(messages)
      BY <3>3, <3>4, <3>5, ConversingConcat
    <3>. DEFINE M == Len(a)
                N == Len(b)
    <3>7. /\ M \in Nat /\ N \in Nat /\ N >= 1 /\ (a # <<>> <=> M >= 1)
          /\ Len(messages) = M + N /\ messages \in Seq(Message)
          /\ \A k \in 1 .. M + N : messages[k] = IF k <= M THEN a[k] ELSE b[k - M]
      <4>1. M \in Nat /\ N \in Nat /\ N >= 1 /\ (a # <<>> <=> M >= 1)
        BY <3>3, <3>4, EmptySeq
      <4>2. QED BY <3>3, <3>4, <4>1, ConcatProperties
    <3>8. Last(b) = b[N] /\ Last(messages) = messages[M + N]
      BY <3>7 DEF Last
    <3>. HIDE DEF M, N, messages
    <3>9. Last(messages) = Last(b)
      <4>1. M + N \in 1 .. M + N /\ ~(M + N <= M) /\ (M + N) - M = N
        BY <3>7
      <4>2. QED BY <3>7, <3>8, <4>1
    <3>10. messages # <<>> /\ messages[1].role = "user"
      <4>1. /\ M + N # 0 /\ 1 \in 1 .. M + N
            /\ (M = 0 => ~(1 <= M) /\ 1 - M = 1) /\ (M >= 1 => 1 <= M)
            /\ (M = 0 \/ M >= 1)
        BY <3>7
      <4>2. messages # <<>>
        BY <3>7, <4>1, EmptySeq
      <4>3. (M >= 1 /\ messages[1] = a[1]) \/ messages[1] = b[1]
        BY <3>7, <4>1
      <4>4. QED BY <3>3, <3>5, <3>7, <4>2, <4>3
    <3>11. newCreateRequest(messages) <=> DistinctCalls(messages)
      BY <3>4, <3>6, <3>9, <3>10, RequestTaken
    <3>12. QED BY <3>11 DEF messages, a, b
  <2>5. QED BY <2>2, <2>3, <2>4 DEF StoredIsUsable
<1>2. QED BY <1>1, RunInvariant, PTL

-------------------------------------------------------------------------------
(* The displayed messages *)

\* Positions, IsDisplayed and Displayed, of some turns.
PositionsIn(t, turn) == [k \in DOMAIN turn.messages |-> <<t, k>>]

PositionsOf(some) ==
    FlattenSeq([t \in DOMAIN some |-> [k \in DOMAIN some[t].messages |-> <<t, k>>]])

DisplayedAt(some, p) ==
    LET m == some[p[1]].messages[p[2]]
    IN  /\ some[p[1]].status = "completed"
        /\ m.role = "user" \/ (m.role = "assistant" /\ m.text # 0)

DisplayedOf(some) ==
    Those(PositionsOf(some), {p \in ToSet(PositionsOf(some)) : DisplayedAt(some, p)})

(***************************************************************************)
(* The positions of one more turn come after those of the earlier ones.    *)
(***************************************************************************)
LEMMA PositionsInType ==
    ASSUME NEW t \in Nat, NEW turn \in Turn
    PROVE  /\ PositionsIn(t, turn) \in Seq(Position)
           /\ Len(PositionsIn(t, turn)) = Len(turn.messages)
           /\ \A k \in 1 .. Len(turn.messages) : PositionsIn(t, turn)[k] = <<t, k>>
<1>. DEFINE n == Len(turn.messages)
            f == PositionsIn(t, turn)
<1>1. n \in Nat /\ DOMAIN turn.messages = 1 .. n
  BY DEF Turn
<1>. HIDE DEF n
<1>2. f = [k \in 1 .. n |-> <<t, k>>]
  BY <1>1 DEF PositionsIn
<1>3. \A k \in 1 .. n : <<t, k>> \in Position
  BY <1>1 DEF Position
<1>. HIDE DEF f
<1>4. f \in [1 .. n -> Position]
  BY <1>2, <1>3
<1>5. f \in Seq(Position) /\ Len(f) = n
  BY <1>1, <1>4
<1>6. QED BY <1>2, <1>5 DEF f, n

\* Positions are pairs of numbers.
LEMMA PositionsOfType ==
    ASSUME NEW some \in Seq(Turn)
    PROVE  /\ [t \in DOMAIN some |-> PositionsIn(t, some[t])] \in Seq(Seq(Position))
           /\ PositionsOf(some) = FlattenSeq([t \in DOMAIN some |-> PositionsIn(t, some[t])])
           /\ PositionsOf(some) \in Seq(Position)
<1>. DEFINE N == Len(some)
            V == Seq(Position)
            parts == [t \in DOMAIN some |-> PositionsIn(t, some[t])]
<1>1. N \in Nat /\ DOMAIN some = 1 .. N
  OBVIOUS
<1>2. PositionsOf(some) = FlattenSeq(parts)
  BY DEF PositionsOf, PositionsIn
<1>3. \A t \in 1 .. N : PositionsIn(t, some[t]) \in V
  <2>1. SUFFICES ASSUME NEW t \in 1 .. N PROVE PositionsIn(t, some[t]) \in V
    OBVIOUS
  <2>2. t \in Nat /\ some[t] \in Turn
    BY <1>1
  <2>3. QED BY <2>2, PositionsInType
<1>. HIDE DEF N, V
<1>4. parts \in [1 .. N -> V]
  BY <1>1, <1>3
<1>5. parts \in Seq(V)
  BY <1>1, <1>4
<1>. HIDE DEF parts
<1>6. FlattenSeq(parts) \in Seq(Position)
  BY <1>5, FlattenType DEF V
<1>7. QED BY <1>2, <1>5, <1>6 DEF parts, V

\* No turn has no positions.
LEMMA PositionsOfNone == PositionsOf(<<>>) = <<>>
<1>1. [t \in DOMAIN <<>> |-> [k \in DOMAIN <<>>[t].messages |-> <<t, k>>]] = <<>>
  OBVIOUS
<1>2. QED BY <1>1, FlattenEmpty DEF PositionsOf

\* A turn appended puts its positions at the end.
LEMMA PositionsOfAppend ==
    ASSUME NEW some \in Seq(Turn), NEW turn \in Turn
    PROVE  PositionsOf(Append(some, turn)) =
             PositionsOf(some) \o PositionsIn(Len(some) + 1, turn)
<1>. DEFINE N == Len(some)
            V == Seq(Position)
            more == Append(some, turn)
            new == PositionsIn(N + 1, turn)
            parts == [t \in DOMAIN some |-> PositionsIn(t, some[t])]
            parts2 == [t \in DOMAIN more |-> PositionsIn(t, more[t])]
<1>1. /\ N \in Nat /\ more \in Seq(Turn) /\ DOMAIN more = 1 .. N + 1 /\ DOMAIN some = 1 .. N
      /\ more[N + 1] = turn /\ \A t \in 1 .. N : more[t] = some[t]
  OBVIOUS
<1>2. /\ parts \in Seq(V) /\ PositionsOf(some) = FlattenSeq(parts)
      /\ parts2 \in Seq(V) /\ PositionsOf(more) = FlattenSeq(parts2)
  BY <1>1, PositionsOfType
<1>3. new \in V
  BY <1>1, PositionsInType
<1>4. Len(parts) = N /\ Len(parts2) = N + 1
  BY <1>1, <1>2
<1>5. /\ \A t \in 1 .. N : parts[t] = PositionsIn(t, some[t])
      /\ \A t \in 1 .. N + 1 : parts2[t] = PositionsIn(t, more[t])
  BY <1>1
<1>6. /\ N + 1 \in 1 .. N + 1
      /\ \A k \in 1 .. N : k \in 1 .. N + 1
      /\ \A k \in 1 .. N + 1 : k = N + 1 \/ k \in 1 .. N
  BY <1>1
<1>7. parts2[N + 1] = new
  BY <1>1, <1>5, <1>6
<1>. HIDE DEF parts, parts2, V, N, more, new
<1>8. parts2 = Append(parts, new)
  <2>. DEFINE w == Append(parts, new)
  <2>1. w \in Seq(V) /\ Len(w) = N + 1 /\ w[N + 1] = new
        /\ \A k \in 1 .. N : w[k] = parts[k]
    BY <1>2, <1>3, <1>4, AppendProperties
  <2>. HIDE DEF w
  <2>2. \A k \in 1 .. N + 1 : parts2[k] = w[k]
    BY <1>1, <1>5, <1>6, <1>7, <2>1
  <2>3. parts2 = w
    BY <1>2, <1>4, <2>1, <2>2, SeqEqual
  <2>4. QED BY <2>3 DEF w
<1>9. FlattenSeq(parts2) = FlattenSeq(parts) \o new
  BY <1>2, <1>3, <1>8, FlattenAppend DEF V
<1>10. QED BY <1>2, <1>9 DEF more, new, N

(***************************************************************************)
(* Positions that come in order, none twice.                               *)
(***************************************************************************)
Ordered(s) ==
    /\ s \in Seq(Position)
    /\ \A k \in DOMAIN s : \A j \in DOMAIN s : j < k => Before(s[j], s[k])

\* They are of messages of some turns.
PositionsWithin(s, some) ==
    \A k \in DOMAIN s :
        s[k][1] \in 1 .. Len(some) /\ s[k][2] \in DOMAIN some[s[k][1]].messages

\* Positions are in order, and each is that of a message.
LEMMA PositionsOrdered ==
    ASSUME NEW some \in Seq(Turn)
    PROVE  Ordered(PositionsOf(some)) /\ PositionsWithin(PositionsOf(some), some)
<1>. DEFINE good == {s \in Seq(Turn) :
                       Ordered(PositionsOf(s)) /\ PositionsWithin(PositionsOf(s), s)}
<1>1. <<>> \in good
  <2>1. <<>> \in Seq(Turn) /\ <<>> \in Seq(Position) /\ DOMAIN <<>> = {}
    OBVIOUS
  <2>2. QED BY <2>1, PositionsOfNone DEF Ordered, PositionsWithin
<1>2. ASSUME NEW s \in Seq(Turn), NEW turn \in Turn, s \in good
      PROVE  Append(s, turn) \in good
  <2>. DEFINE more == Append(s, turn)
              N == Len(s)
              old == PositionsOf(s)
              new == PositionsIn(N + 1, turn)
              all == PositionsOf(more)
              M == Len(old)
              K == Len(new)
  <2>1. /\ more \in Seq(Turn) /\ Len(more) = N + 1 /\ N \in Nat
        /\ more[N + 1] = turn /\ \A t \in 1 .. N : more[t] = s[t]
    BY AppendProperties
  <2>2. all = old \o new
    BY PositionsOfAppend
  <2>3. /\ new \in Seq(Position) /\ K = Len(turn.messages)
        /\ \A k \in 1 .. K : new[k] = <<N + 1, k>>
    <3>1. N + 1 \in Nat
      BY <2>1
    <3>. HIDE DEF N
    <3>2. /\ new \in Seq(Position) /\ K = Len(turn.messages)
          /\ \A k \in 1 .. Len(turn.messages) : new[k] = <<N + 1, k>>
      BY <3>1, PositionsInType
    <3>. HIDE DEF new, K
    <3>3. QED BY <3>2
  <2>4. old \in Seq(Position) /\ Ordered(old) /\ PositionsWithin(old, s)
    BY <1>2 DEF Ordered
  <2>5. M \in Nat /\ DOMAIN old = 1 .. M /\ K \in Nat /\ DOMAIN turn.messages = 1 .. K
    <3>1. M \in Nat /\ DOMAIN old = 1 .. M
      BY <2>4
    <3>2. turn.messages \in Seq(Message)
      BY DEF Turn
    <3>3. QED BY <2>3, <3>1, <3>2, LenProperties
  <2>. HIDE DEF more, N, old, new, M, K
  <2>6. /\ all \in Seq(Position) /\ Len(all) = M + K
        /\ \A k \in 1 .. M + K : all[k] = IF k <= M THEN old[k] ELSE new[k - M]
    <3>. HIDE DEF all
    <3>1. old \in Seq(Position) /\ new \in Seq(Position)
      BY <2>3, <2>4
    <3>2. all \in Seq(Position)
      BY <2>2, <3>1, ConcatProperties, ZenonT(40)
    <3>3. Len(all) = M + K
      <4>1. Len(old \o new) = Len(old) + Len(new)
        BY <3>1, ConcatProperties, ZenonT(40)
      <4>2. QED BY <2>2, <2>3, <4>1 DEF M, K
    <3>4. \A k \in 1 .. M + K : all[k] = IF k <= M THEN old[k] ELSE new[k - M]
      <4>1. \A k \in 1 .. Len(old) + Len(new) :
              (old \o new)[k] = IF k <= Len(old) THEN old[k] ELSE new[k - Len(old)]
        BY <3>1, ConcatProperties, ZenonT(40)
      <4>2. QED BY <2>2, <2>3, <4>1 DEF M, K
    <3>5. QED BY <3>2, <3>3, <3>4
  <2>. HIDE DEF all
  <2>7. DOMAIN all = 1 .. M + K
    BY <2>6
  <2>8. \A k \in 1 .. M + K : (k \in 1 .. M /\ k <= M) \/ (~(k <= M) /\ k - M \in 1 .. K)
    BY <2>5
  <2>9. ASSUME NEW k \in 1 .. M + K, ~(k <= M)
        PROVE  all[k] = <<N + 1, k - M>> /\ k - M \in 1 .. K
    <3>1. k - M \in 1 .. K
      BY <2>8, <2>9
    <3>2. all[k] = new[k - M]
      BY <2>6, <2>9
    <3>3. QED BY <2>3, <3>1, <3>2
  <2>10. ASSUME NEW k \in 1 .. M + K, k <= M
         PROVE  /\ all[k] = old[k] /\ k \in 1 .. M /\ all[k][1] \in 1 .. N
                /\ all[k][2] \in DOMAIN s[all[k][1]].messages
    <3>1. all[k] = old[k] /\ k \in 1 .. M
      BY <2>6, <2>8, <2>10
    <3>2. old[k][1] \in 1 .. N /\ old[k][2] \in DOMAIN s[old[k][1]].messages
      BY <2>4, <2>5, <3>1 DEF PositionsWithin, N
    <3>3. QED BY <3>1, <3>2
  <2>11. PositionsWithin(all, more)
    <3>1. SUFFICES ASSUME NEW k \in 1 .. M + K
                   PROVE  /\ all[k][1] \in 1 .. Len(more)
                          /\ all[k][2] \in DOMAIN more[all[k][1]].messages
      BY <2>7 DEF PositionsWithin
    <3>2. CASE k <= M
      <4>1. all[k][1] \in 1 .. N /\ all[k][2] \in DOMAIN s[all[k][1]].messages
        BY <2>10, <3>2
      <4>2. more[all[k][1]] = s[all[k][1]] /\ all[k][1] \in 1 .. N + 1
        BY <2>1, <4>1
      <4>3. QED BY <2>1, <4>1, <4>2
    <3>3. CASE ~(k <= M)
      <4>1. all[k][1] = N + 1 /\ all[k][2] = k - M /\ k - M \in 1 .. K
        BY <2>9, <3>3
      <4>2. QED BY <2>1, <2>5, <4>1
    <3>4. QED BY <3>2, <3>3
  <2>12. ASSUME NEW k \in 1 .. M + K, NEW j \in 1 .. M + K, j < k
         PROVE  Before(all[j], all[k])
    <3>1. CASE k <= M
      <4>1. j <= M
        BY <2>5, <2>12, <3>1
      <4>2. /\ all[j] = old[j] /\ all[k] = old[k] /\ j \in 1 .. M /\ k \in 1 .. M
        BY <2>10, <3>1, <4>1
      <4>3. Before(old[j], old[k])
        BY <2>4, <2>5, <2>12, <4>2 DEF Ordered
      <4>4. QED BY <4>2, <4>3
    <3>2. CASE ~(k <= M) /\ j <= M
      <4>1. all[k][1] = N + 1 /\ all[j][1] \in 1 .. N
        BY <2>9, <2>10, <3>2
      <4>2. all[j][1] < all[k][1]
        BY <2>1, <4>1
      <4>3. QED BY <4>2 DEF Before
    <3>3. CASE ~(k <= M) /\ ~(j <= M)
      <4>1. all[k] = <<N + 1, k - M>> /\ all[j] = <<N + 1, j - M>>
        BY <2>9, <3>3
      <4>2. j - M < k - M
        BY <2>5, <2>12
      <4>3. QED BY <4>1, <4>2 DEF Before
    <3>4. QED BY <3>1, <3>2, <3>3
  <2>13. Ordered(all)
    BY <2>6, <2>7, <2>12 DEF Ordered
  <2>14. QED BY <2>1, <2>11, <2>13 DEF all, more
<1>. HIDE DEF good
<1>3. \A s \in Seq(Turn) : s \in good
  BY <1>1, <1>2, SequenceInduction
<1>4. QED BY <1>3 DEF good

(***************************************************************************)
(* The elements of a set among ordered positions are ordered, and of it.   *)
(***************************************************************************)
LEMMA ThoseOrdered ==
    ASSUME NEW s \in Seq(Position), Ordered(s), NEW S
    PROVE  /\ Ordered(Those(s, S))
           /\ \A k \in DOMAIN Those(s, S) :
                \E j \in DOMAIN s : Those(s, S)[k] = s[j] /\ s[j] \in S
<1>. DEFINE From1(r) == \A k \in DOMAIN Those(r, S) :
                          \E j \in DOMAIN r : Those(r, S)[k] = r[j] /\ r[j] \in S
            good == {r \in Seq(Position) : Ordered(r) => Ordered(Those(r, S)) /\ From1(r)}
<1>1. <<>> \in good
  <2>1. <<>> \in Seq(Position) /\ DOMAIN <<>> = {} /\ Those(<<>>, S) = <<>>
    BY ThoseEmpty
  <2>2. QED BY <2>1 DEF Ordered
<1>2. ASSUME NEW r \in Seq(Position), NEW e \in Position, r \in good
      PROVE  Append(r, e) \in good
  <2>. DEFINE more == Append(r, e)
              N == Len(r)
              picked == Those(r, S)
              M == Len(picked)
  <2>1. /\ more \in Seq(Position) /\ Len(more) = N + 1 /\ N \in Nat
        /\ more[N + 1] = e /\ \A k \in 1 .. N : more[k] = r[k]
        /\ DOMAIN more = 1 .. N + 1 /\ DOMAIN r = 1 .. N
    OBVIOUS
  <2>2. /\ picked \in Seq(Position) /\ M \in Nat /\ DOMAIN picked = 1 .. M
    <3>1. picked \in Seq(Position)
      BY ThoseType
    <3>. HIDE DEF picked
    <3>2. QED BY <3>1
  <2>3. SUFFICES ASSUME Ordered(more) PROVE Ordered(Those(more, S)) /\ From1(more)
    BY <2>1
  <2>. HIDE DEF more
  <2>4. Ordered(r)
    <3>1. ASSUME NEW k \in 1 .. N, NEW j \in 1 .. N, j < k PROVE Before(r[j], r[k])
      <4>1. k \in 1 .. N + 1 /\ j \in 1 .. N + 1
        BY <2>1
      <4>2. Before(more[j], more[k])
        BY <2>1, <2>3, <3>1, <4>1 DEF Ordered
      <4>3. QED BY <2>1, <4>2
    <3>2. QED BY <2>1, <3>1 DEF Ordered
  <2>5. Ordered(picked) /\ From1(r)
    BY <1>2, <2>4
  <2>6. Those(more, S) = IF e \in S THEN Append(picked, e) ELSE picked
    BY ThoseAppend DEF more
  <2>. HIDE DEF picked
  <2>7. \A k \in 1 .. M : \E j \in 1 .. N : picked[k] = r[j] /\ r[j] \in S
    BY <2>1, <2>2, <2>5 DEF picked
  <2>8. CASE e \notin S
    <3>1. Those(more, S) = picked
      BY <2>6, <2>8
    <3>2. ASSUME NEW k \in 1 .. M
          PROVE  \E j \in DOMAIN more : picked[k] = more[j] /\ more[j] \in S
      <4>1. PICK j \in 1 .. N : picked[k] = r[j] /\ r[j] \in S
        BY <2>7
      <4>2. j \in 1 .. N + 1 /\ more[j] = r[j]
        BY <2>1
      <4>3. QED BY <2>1, <4>1, <4>2
    <3>3. QED BY <2>2, <2>5, <3>1, <3>2
  <2>9. CASE e \in S
    <3>. DEFINE w == Append(picked, e)
    <3>1. Those(more, S) = w
      BY <2>6, <2>9
    <3>2. /\ w \in Seq(Position) /\ Len(w) = M + 1
          /\ w[M + 1] = e /\ \A k \in 1 .. M : w[k] = picked[k]
          /\ DOMAIN w = 1 .. M + 1
      BY <2>2
    <3>. HIDE DEF w, N, M
    <3>3. \A k \in 1 .. M + 1 : k = M + 1 \/ k \in 1 .. M
      BY <2>2
    <3>4. ASSUME NEW k \in 1 .. M + 1
          PROVE  \E j \in DOMAIN more : w[k] = more[j] /\ more[j] \in S
      <4>1. CASE k = M + 1
        <5>1. N + 1 \in DOMAIN more /\ w[k] = more[N + 1] /\ more[N + 1] \in S
          BY <2>1, <2>9, <3>2, <4>1
        <5>2. QED BY <5>1
      <4>2. CASE k \in 1 .. M
        <5>1. PICK j \in 1 .. N : picked[k] = r[j] /\ r[j] \in S
          BY <2>7, <4>2
        <5>2. j \in 1 .. N + 1 /\ more[j] = r[j] /\ w[k] = picked[k]
          BY <2>1, <3>2, <4>2
        <5>3. QED BY <2>1, <5>1, <5>2
      <4>3. QED BY <3>3, <4>1, <4>2
    <3>5. ASSUME NEW k \in 1 .. M + 1, NEW j \in 1 .. M + 1, j < k
          PROVE  Before(w[j], w[k])
      <4>1. j \in 1 .. M
        BY <2>2, <3>5
      <4>2. CASE k = M + 1
        <5>1. PICK i \in 1 .. N : picked[j] = r[i]
          BY <2>7, <4>1
        <5>2. /\ i \in 1 .. N + 1 /\ N + 1 \in 1 .. N + 1 /\ i < N + 1
              /\ more[i] = r[i] /\ w[j] = picked[j] /\ w[k] = more[N + 1]
          BY <2>1, <3>2, <4>1, <4>2
        <5>3. Before(more[i], more[N + 1])
          BY <2>1, <2>3, <5>2 DEF Ordered
        <5>4. QED BY <5>1, <5>2, <5>3
      <4>3. CASE k \in 1 .. M
        <5>1. w[j] = picked[j] /\ w[k] = picked[k]
          BY <3>2, <4>1, <4>3
        <5>2. Before(picked[j], picked[k])
          BY <2>2, <2>5, <3>5, <4>1, <4>3 DEF Ordered
        <5>3. QED BY <5>1, <5>2
      <4>4. QED BY <3>3, <4>2, <4>3
    <3>6. QED BY <3>1, <3>2, <3>4, <3>5 DEF Ordered
  <2>10. QED BY <2>8, <2>9
<1>. HIDE DEF good
<1>3. \A r \in Seq(Position) : r \in good
  BY <1>1, <1>2, SequenceInduction
<1>4. QED BY <1>3 DEF good

(***************************************************************************)
(* The displayed messages are ordered, and of completed turns.             *)
(***************************************************************************)
LEMMA DisplayedOrdered ==
    ASSUME NEW some \in Seq(Turn)
    PROVE  /\ Ordered(DisplayedOf(some)) /\ PositionsWithin(DisplayedOf(some), some)
           /\ \A k \in DOMAIN DisplayedOf(some) :
                some[DisplayedOf(some)[k][1]].status = "completed"
<1>. DEFINE P == PositionsOf(some)
            S == {p \in ToSet(P) : DisplayedAt(some, p)}
            D == DisplayedOf(some)
<1>1. Ordered(P) /\ PositionsWithin(P, some) /\ P \in Seq(Position)
  BY PositionsOrdered DEF Ordered
<1>2. D = Those(P, S)
  BY DEF DisplayedOf
<1>3. \A p \in S : some[p[1]].status = "completed"
  BY DEF DisplayedAt
<1>. HIDE DEF P, S, D
<1>4. /\ Ordered(D)
      /\ \A k \in DOMAIN D : \E j \in DOMAIN P : D[k] = P[j] /\ P[j] \in S
  BY <1>1, <1>2, ThoseOrdered
<1>5. ASSUME NEW k \in DOMAIN D
      PROVE  /\ D[k][1] \in 1 .. Len(some) /\ D[k][2] \in DOMAIN some[D[k][1]].messages
             /\ some[D[k][1]].status = "completed"
  <2>1. PICK j \in DOMAIN P : D[k] = P[j] /\ P[j] \in S
    BY <1>4
  <2>2. P[j][1] \in 1 .. Len(some) /\ P[j][2] \in DOMAIN some[P[j][1]].messages
    BY <1>1 DEF PositionsWithin
  <2>3. QED BY <1>3, <2>1, <2>2
<1>6. QED BY <1>4, <1>5 DEF D, PositionsWithin

(***************************************************************************)
(* The displayed messages of one more turn come after the earlier ones; a  *)
(* turn without messages adds none.                                        *)
(***************************************************************************)
LEMMA DisplayedAppend ==
    ASSUME NEW some \in Seq(Turn), NEW turn \in Turn
    PROVE  \E new \in Seq(Position) :
             /\ DisplayedOf(Append(some, turn)) = DisplayedOf(some) \o new
             /\ turn.messages = <<>> => new = <<>>
<1>. DEFINE more == Append(some, turn)
            N == Len(some)
            P == PositionsOf(some)
            Q == PositionsIn(N + 1, turn)
            R == PositionsOf(more)
            S == {p \in ToSet(P) : DisplayedAt(some, p)}
            T == {p \in ToSet(R) : DisplayedAt(more, p)}
<1>1. /\ N \in Nat /\ more \in Seq(Turn) /\ \A t \in 1 .. N : more[t] = some[t]
  OBVIOUS
<1>2. R = P \o Q /\ P \in Seq(Position) /\ PositionsWithin(P, some)
  BY PositionsOfAppend, PositionsOrdered DEF Ordered
<1>3. Q \in Seq(Position) /\ Len(Q) = Len(turn.messages)
  <2>1. N + 1 \in Nat
    BY <1>1
  <2>. HIDE DEF N
  <2>2. QED BY <2>1, PositionsInType
<1>4. DisplayedOf(more) = Those(R, T) /\ DisplayedOf(some) = Those(P, S)
  BY DEF DisplayedOf
<1>. HIDE DEF P, Q, R, more
<1>5. \A k \in DOMAIN P : P[k] \in ToSet(P) /\ P[k] \in ToSet(R)
  <2>1. SUFFICES ASSUME NEW k \in DOMAIN P PROVE P[k] \in ToSet(P) /\ P[k] \in ToSet(R)
    OBVIOUS
  <2>2. R[k] = P[k] /\ k \in DOMAIN R
    BY <1>2, <1>3
  <2>3. QED BY <2>2 DEF ToSet
<1>6. ASSUME NEW k \in DOMAIN P PROVE P[k] \in T <=> P[k] \in S
  <2>1. P[k][1] \in 1 .. N
    BY <1>2 DEF PositionsWithin
  <2>2. more[P[k][1]] = some[P[k][1]]
    BY <1>1, <2>1
  <2>3. DisplayedAt(more, P[k]) <=> DisplayedAt(some, P[k])
    BY <2>2 DEF DisplayedAt
  <2>4. QED BY <1>5, <2>3
<1>. HIDE DEF S, T, N
<1>7. Those(P, T) = Those(P, S)
  BY <1>6, ThoseSame
<1>8. Those(R, T) = Those(P, T) \o Those(Q, T)
  BY <1>2, <1>3, ThoseConcat
<1>9. Those(Q, T) \in Seq(Position)
  BY <1>3, ThoseType
<1>10. turn.messages = <<>> => Those(Q, T) = <<>>
  <2>1. SUFFICES ASSUME turn.messages = <<>> PROVE Those(Q, T) = <<>>
    OBVIOUS
  <2>2. Q = <<>>
    BY <1>3, <2>1, EmptySeq
  <2>3. QED BY <2>2, ThoseEmpty
<1>11. QED BY <1>4, <1>7, <1>8, <1>9, <1>10 DEF more

(***************************************************************************)
(* What is displayed grows at its end, and a completed turn stays, when a  *)
(* turn is added and when an unfinished one changes.                       *)
(***************************************************************************)
Grows(some, after) ==
    /\ Len(DisplayedOf(some)) <= Len(DisplayedOf(after))
    /\ \A k \in DOMAIN DisplayedOf(some) : DisplayedOf(after)[k] = DisplayedOf(some)[k]
    /\ \A t \in DOMAIN some :
         some[t].status = "completed" => t \in DOMAIN after /\ after[t] = some[t]

\* What is displayed depends on the turns alone.
LEMMA DisplayedIs == Displayed = DisplayedOf(turns) /\ Displayed' = DisplayedOf(turns')
<1>1. Displayed = DisplayedOf(turns)
  BY DEF Displayed, DisplayedOf, Positions, PositionsOf, IsDisplayed, DisplayedAt, MessageAt
<1>2. Displayed' = DisplayedOf(turns')
  BY DEF Displayed, DisplayedOf, Positions, PositionsOf, IsDisplayed, DisplayedAt, MessageAt
<1>3. QED BY <1>1, <1>2

\* A sequence begins its concatenation with another.
LEMMA ConcatExtends ==
    ASSUME NEW S, NEW s \in Seq(S), NEW t \in Seq(S)
    PROVE  Len(s) <= Len(s \o t) /\ \A k \in DOMAIN s : (s \o t)[k] = s[k]
OBVIOUS

\* A new turn displays nothing.
LEMMA AddGrows ==
    ASSUME NEW some \in Seq(Turn), NEW turn \in Turn
    PROVE  Grows(some, Append(some, turn))
<1>. DEFINE after == Append(some, turn)
<1>1. PICK new \in Seq(Position) : DisplayedOf(after) = DisplayedOf(some) \o new
  BY DisplayedAppend
<1>2. DisplayedOf(some) \in Seq(Position)
  BY DisplayedOrdered DEF Ordered
<1>3. \A t \in DOMAIN some : t \in DOMAIN after /\ after[t] = some[t]
  OBVIOUS
<1>. HIDE DEF after
<1>4. /\ Len(DisplayedOf(some)) <= Len(DisplayedOf(after))
      /\ \A k \in DOMAIN DisplayedOf(some) : DisplayedOf(after)[k] = DisplayedOf(some)[k]
  BY <1>1, <1>2, ConcatExtends
<1>5. Grows(some, after)
  BY <1>3, <1>4 DEF Grows
<1>6. QED BY <1>5 DEF after

\* The outcome of the last turn extends what is displayed at its end.
LEMMA ChangeGrows ==
    ASSUME NEW some \in Seq(Turn), some # <<>>, Last(some).messages = <<>>,
           Last(some).status # "completed", NEW turn \in Turn
    PROVE  Grows(some, [some EXCEPT ![Len(some)] = turn])
<1>. DEFINE after == [some EXCEPT ![Len(some)] = turn]
<1>1. PICK front \in Seq(Turn) :
         /\ some = Append(front, Last(some)) /\ Last(some) \in Turn
         /\ Len(some) = Len(front) + 1 /\ \A k \in 1 .. Len(front) : some[k] = front[k]
         /\ \A e \in Turn : [some EXCEPT ![Len(some)] = e] = Append(front, e)
  BY ReplaceLast
<1>2. after = Append(front, turn)
  BY <1>1
<1>3. PICK new \in Seq(Position) : DisplayedOf(after) = DisplayedOf(front) \o new
  BY <1>2, DisplayedAppend
<1>4. DisplayedOf(some) = DisplayedOf(front) /\ DisplayedOf(front) \in Seq(Position)
  <2>1. PICK old \in Seq(Position) :
           /\ DisplayedOf(Append(front, Last(some))) = DisplayedOf(front) \o old
           /\ Last(some).messages = <<>> => old = <<>>
    BY <1>1, DisplayedAppend
  <2>2. DisplayedOf(some) = DisplayedOf(front) \o <<>>
    BY <1>1, <2>1
  <2>3. DisplayedOf(front) \in Seq(Position)
    BY DisplayedOrdered DEF Ordered
  <2>4. QED BY <2>2, <2>3, ConcatEmptySeq
<1>5. ASSUME NEW t \in DOMAIN some, some[t].status = "completed"
      PROVE  t \in DOMAIN after /\ after[t] = some[t]
  <2>1. t # Len(some)
    BY <1>5 DEF Last
  <2>2. QED BY <2>1
<1>. HIDE DEF after
<1>6. /\ Len(DisplayedOf(some)) <= Len(DisplayedOf(after))
      /\ \A k \in DOMAIN DisplayedOf(some) : DisplayedOf(after)[k] = DisplayedOf(some)[k]
  BY <1>3, <1>4, ConcatExtends
<1>7. Grows(some, after)
  BY <1>5, <1>6 DEF Grows
<1>8. QED BY <1>7 DEF after

\* Turns that stay display the same.
LEMMA SameGrows ==
    ASSUME NEW some \in Seq(Turn) PROVE Grows(some, some)
<1>1. DisplayedOf(some) \in Seq(Position)
  BY DisplayedOrdered DEF Ordered
<1>2. Len(DisplayedOf(some)) \in Nat
  BY <1>1
<1>3. QED BY <1>2 DEF Grows

\* Whatever LastTurn stores extends what is displayed at its end.
LEMMA LastTurnGrows ==
    ASSUME RunInv, RunInv', turns # <<>>, Last(turns).status # "completed",
           NEW status, NEW messages, LastTurn(status, messages)
    PROVE  Grows(turns, turns')
<1>. DEFINE turn == [status |-> status, messages |-> messages]
<1>1. turns' = [turns EXCEPT ![Len(turns)] = turn]
  BY DEF LastTurn
<1>2. turns \in Seq(Turn) /\ turns' \in Seq(Turn)
  BY DEF RunInv, TurnsInv, TurnsOK
<1>3. Len(turns) \in DOMAIN turns
  BY <1>2, EmptySeq
<1>. HIDE DEF turn
<1>4. turn = turns'[Len(turns)] /\ Len(turns) \in DOMAIN turns'
  BY <1>1, <1>2, <1>3
<1>5. turn \in Turn
  <2>1. \A s \in Seq(Turn) : \A t \in DOMAIN s : s[t] \in Turn
    OBVIOUS
  <2>2. QED BY <1>2, <1>4, <2>1
<1>6. Last(turns).messages = <<>>
  BY <1>3 DEF RunInv, TurnsInv, TurnsOK, Last
<1>7. QED BY <1>1, <1>2, <1>5, <1>6, ChangeGrows

\* A step of another than the client extends what is displayed, or leaves it.
LEMMA StepGrows ==
    ASSUME RunInv, RunInv', [Next]_vars
    PROVE  \/ Grows(turns, turns') /\ reader' = reader
           \/ \E limit \in PageLimits : FirstPage(limit) \/ NextPage(limit)
<1>0. turns \in Seq(Turn) /\ turns' \in Seq(Turn)
  BY DEF RunInv, TurnsInv, TurnsOK
<1>a. /\ execution.running => turns # <<>> /\ Last(turns).status # "completed"
      /\ confirmation # NoConfirmation => turns # <<>> /\ Last(turns).status # "completed"
  BY DEF RunInv, ExecutionInv, ConfirmationInv
<1>1. ASSUME NEW prompt \in Prompts, PrepareTurn(prompt)
      PROVE  Grows(turns, turns') /\ reader' = reader
  <2>1. turns' = Append(turns, Empty("running")) \/ turns' = Append(turns, Empty("failed"))
    BY <1>1 DEF PrepareTurn, Empty
  <2>2. Empty("running") \in Turn /\ Empty("failed") \in Turn
    BY TurnType DEF Statuses
  <2>3. QED BY <1>0, <1>1, <2>1, <2>2, AddGrows DEF PrepareTurn
<1>2. CASE (\E request \in Requests : RequestCalls(request)) \/ AnswerCall \/ UNCHANGED vars
  <2>1. turns' = turns /\ reader' = reader
    BY <1>2 DEF RequestCalls, AnswerCall, vars
  <2>2. QED BY <1>0, <2>1, SameGrows
<1>3. ASSUME NEW text \in Answers, CompleteTurn(text)
      PROVE  Grows(turns, turns') /\ reader' = reader
  <2>1. \E status, messages : LastTurn(status, messages)
    BY <1>3 DEF CompleteTurn
  <2>2. QED BY <1>3, <1>a, <2>1, LastTurnGrows DEF CompleteTurn
<1>4. CASE Suspend
  <2>1. \E status, messages : LastTurn(status, messages)
    BY <1>4 DEF Suspend
  <2>2. QED BY <1>4, <1>a, <2>1, LastTurnGrows DEF Suspend, CallLeft
<1>5. CASE PrepareConfirmation
  <2>1. \E status, messages : LastTurn(status, messages)
    BY <1>5 DEF PrepareConfirmation
  <2>2. QED BY <1>5, <1>a, <2>1, LastTurnGrows DEF PrepareConfirmation
<1>6. CASE FailTurn
  <2>1. \E status, messages : LastTurn(status, messages)
    BY <1>6 DEF FailTurn
  <2>2. QED BY <1>6, <1>a, <2>1, LastTurnGrows DEF FailTurn
<1>7. QED BY <1>1, <1>2, <1>3, <1>4, <1>5, <1>6 DEF Next

(***************************************************************************)
(* A client that waits keeps what it has.                                  *)
(***************************************************************************)
LEMMA ReaderWaits ==
    ASSUME RunInv, ReaderInv, Grows(turns, turns'), reader' = reader, RunInv'
    PROVE  ReaderInv'
<1>. DEFINE D == Displayed
            E == reader.expected
            left == Len(E) - Len(reader.shown)
<1>1. turns \in Seq(Turn) /\ turns' \in Seq(Turn)
  BY DEF RunInv, TurnsInv, TurnsOK
<1>2. /\ D = DisplayedOf(turns) /\ Displayed' = DisplayedOf(turns')
      /\ Ordered(D) /\ PositionsWithin(D, turns)
      /\ \A k \in DOMAIN D : turns[D[k][1]].status = "completed"
  BY <1>1, DisplayedOrdered, DisplayedIs
<1>3. /\ Len(D) <= Len(Displayed') /\ \A k \in DOMAIN D : Displayed'[k] = D[k]
      /\ Displayed' \in Seq(Position) /\ D \in Seq(Position)
  BY <1>1, <1>2, DisplayedOrdered DEF Grows, Ordered
<1>4. /\ reader \in Reader /\ Len(E) <= Len(D)
      /\ \A k \in DOMAIN E : E[k] = D[k]
      /\ left >= 0
      /\ reader.pc = "too_large" => left > 0 /\ ItemSize(E[left]) > PageBytes
  BY DEF ReaderInv
<1>5. E \in Seq(Position) /\ reader.shown \in Seq(Position)
  BY <1>4 DEF Reader
<1>. HIDE DEF D, E
<1>6. /\ Len(E) \in Nat /\ Len(D) \in Nat /\ Len(Displayed') \in Nat /\ Len(reader.shown) \in Nat
      /\ DOMAIN E = 1 .. Len(E) /\ DOMAIN D = 1 .. Len(D)
  BY <1>3, <1>5
<1>7. Len(E) <= Len(Displayed')
  BY <1>3, <1>4, <1>6
<1>8. \A k \in DOMAIN E : E[k] = Displayed'[k] /\ k \in DOMAIN D
  <2>1. \A k \in DOMAIN E : k \in DOMAIN D
    BY <1>4, <1>6
  <2>2. QED BY <1>3, <1>4, <2>1
<1>9. ASSUME reader.pc = "too_large" PROVE ItemSize(E[left])' > PageBytes
  <2>1. left \in DOMAIN E
    BY <1>4, <1>6, <1>9
  <2>. HIDE DEF left
  <2>2. left \in DOMAIN D /\ E[left] = D[left]
    BY <1>4, <1>8, <2>1
  <2>3. D[left][1] \in DOMAIN turns /\ turns[D[left][1]].status = "completed"
    BY <1>1, <1>2, <2>2 DEF PositionsWithin
  <2>4. turns'[D[left][1]] = turns[D[left][1]]
    BY <2>3 DEF Grows
  <2>5. E' = E /\ left' = left
    BY DEF E, left
  <2>6. ItemSize(E[left])' = ItemSize(E[left])
    BY <2>2, <2>4, <2>5 DEF ItemSize, MessageAt
  <2>7. QED BY <1>4, <1>9, <2>6
<1>10. QED BY <1>7, <1>8, <1>9 DEF ReaderInv, E, left

-------------------------------------------------------------------------------
(* The pages *)

(***************************************************************************)
(* The greatest number of a set of them that is bounded.                   *)
(***************************************************************************)
LEMMA MaxProperties ==
    ASSUME NEW N \in Nat, NEW S \in SUBSET (0 .. N), S # {}
    PROVE  Max(S) \in S /\ \A n \in S : n <= Max(S)
<1>. DEFINE below == {m \in 0 .. N : N - m \in S}
<1>1. below # {} /\ below \in SUBSET Nat
  <2>1. PICK n \in S : TRUE
    OBVIOUS
  <2>2. n \in 0 .. N /\ N - n \in 0 .. N /\ N - (N - n) = n
    BY <2>1
  <2>3. QED BY <2>1, <2>2
<1>2. PICK m \in below : \A k \in below : m <= k
  BY <1>1, LeastNumber
<1>3. N - m \in S
  OBVIOUS
<1>4. ASSUME NEW n \in S PROVE N - m >= n
  <2>1. n \in 0 .. N /\ N - n \in 0 .. N /\ N - (N - n) = n
    OBVIOUS
  <2>2. m <= N - n
    BY <1>2, <2>1
  <2>3. m \in 0 .. N
    OBVIOUS
  <2>. HIDE DEF below
  <2>4. QED BY <2>1, <2>2, <2>3
<1>5. Max(S) \in S /\ \A n \in S : Max(S) >= n
  BY <1>3, <1>4 DEF Max
<1>6. ASSUME NEW n \in S PROVE n <= Max(S)
  <2>1. Max(S) \in 0 .. N /\ n \in 0 .. N /\ Max(S) >= n
    BY <1>5
  <2>2. QED BY <2>1
<1>7. QED BY <1>5, <1>6

(***************************************************************************)
(* A page takes as many rows as it may; none only if the first is larger   *)
(* than a page.                                                            *)
(***************************************************************************)
LEMMA PageLengthProperties ==
    ASSUME MessagesConstants, NEW rows \in Seq(Position), NEW limit \in PageLimits,
           \A k \in DOMAIN rows : ItemSize(rows[k]) \in Nat
    PROVE  /\ PageLength(rows, limit) \in 0 .. Len(rows)
           /\ PageLength(rows, limit) <= limit
           /\ rows # <<>> /\ PageLength(rows, limit) = 0 => ItemSize(rows[1]) > PageBytes
<1>. DEFINE size(n) == Sum([k \in 1 .. n |-> ItemSize(rows[k])])
            S == {n \in 0 .. Len(rows) : n <= limit /\ size(n) <= PageBytes}
<1>1. Len(rows) \in Nat /\ limit \in Nat \ {0} /\ PageBytes \in Nat
  BY DEF MessagesConstants
<1>2. size(0) = 0
  <2>1. [k \in 1 .. 0 |-> ItemSize(rows[k])] = <<>>
    OBVIOUS
  <2>2. QED BY <2>1, SumEmpty
<1>3. PageLength(rows, limit) = Max(S)
  BY DEF PageLength
<1>. HIDE DEF size
<1>4. 0 \in S
  BY <1>1, <1>2
<1>5. Max(S) \in S /\ \A n \in S : n <= Max(S)
  <2>1. S \in SUBSET (0 .. Len(rows)) /\ S # {}
    BY <1>4
  <2>. HIDE DEF S
  <2>2. QED BY <1>1, <2>1, MaxProperties
<1>6. Max(S) \in 0 .. Len(rows) /\ Max(S) <= limit
  BY <1>5
<1>7. ASSUME rows # <<>>, Max(S) = 0 PROVE ItemSize(rows[1]) > PageBytes
  <2>1. 1 \in DOMAIN rows /\ 1 \in 0 .. Len(rows) /\ ItemSize(rows[1]) \in Nat
    <3>1. Len(rows) # 0
      BY <1>7, EmptySeq
    <3>2. 1 \in 1 .. Len(rows) /\ DOMAIN rows = 1 .. Len(rows)
      BY <1>1, <3>1
    <3>3. QED BY <3>2, SMTT(30)
  <2>2. size(1) = ItemSize(rows[1])
    <3>1. [k \in 1 .. 1 |-> ItemSize(rows[k])] = Append(<<>>, ItemSize(rows[1]))
      OBVIOUS
    <3>2. <<>> \in Seq(Nat)
      OBVIOUS
    <3>3. Sum(Append(<<>>, ItemSize(rows[1]))) = Sum(<<>>) + ItemSize(rows[1])
      BY <2>1, <3>2, SumAppend
    <3>4. size(1) = Sum(Append(<<>>, ItemSize(rows[1])))
      BY <3>1 DEF size
    <3>. HIDE DEF size
    <3>5. size(1) = 0 + ItemSize(rows[1])
      BY <3>3, <3>4, SumEmpty
    <3>6. QED BY <2>1, <3>5
  <2>3. ~(1 <= Max(S))
    BY <1>7
  <2>4. 1 \notin S
    BY <1>5, <2>3
  <2>5. ~(size(1) <= PageBytes)
    <3>1. 1 <= limit
      BY <1>1
    <3>2. QED BY <2>1, <2>4, <3>1
  <2>6. \A n, m \in Nat : ~(n <= m) => n > m
    OBVIOUS
  <2>7. ~(ItemSize(rows[1]) <= PageBytes) /\ PageBytes \in Nat
    BY <1>1, <2>2, <2>5, Zenon
  <2>8. QED BY <2>1, <2>6, <2>7, Zenon
<1>8. QED BY <1>3, <1>6, <1>7

(***************************************************************************)
(* The displayed messages before the cursor: the first ones of the         *)
(* sequence, up to the message at the cursor.                              *)
(***************************************************************************)
LEMMA ThoseFirst ==
    ASSUME NEW s \in Seq(Position), NEW S, NEW n \in 0 .. Len(s),
           \A k \in DOMAIN s : s[k] \in S <=> k <= n
    PROVE  Those(s, S) = SubSeq(s, 1, n)
<1>. DEFINE a == SubSeq(s, 1, n)
            b == SubSeq(s, n + 1, Len(s))
            N == Len(s)
<1>1. N \in Nat /\ DOMAIN s = 1 .. N /\ n \in Nat /\ n <= N
  OBVIOUS
<1>2. a \in Seq(Position) /\ Len(a) = n /\ \A k \in 1 .. n : a[k] = s[k]
  OBVIOUS
<1>3. b \in Seq(Position) /\ Len(b) = N - n /\ \A k \in 1 .. N - n : b[k] = s[n + k]
  OBVIOUS
<1>. HIDE DEF a, b, N
<1>4. s = a \o b
  <2>1. /\ a \o b \in Seq(Position) /\ Len(a \o b) = n + (N - n)
        /\ \A k \in 1 .. n + (N - n) : (a \o b)[k] = IF k <= n THEN a[k] ELSE b[k - n]
    <3>. a \in Seq(Position) /\ b \in Seq(Position)
      BY <1>2, <1>3
    <3>1. /\ a \o b \in Seq(Position) /\ Len(a \o b) = Len(a) + Len(b)
          /\ \A k \in 1 .. Len(a) + Len(b) :
               (a \o b)[k] = IF k <= Len(a) THEN a[k] ELSE b[k - Len(a)]
      BY ConcatProperties
    <3>2. Len(a) = n /\ Len(b) = N - n
      BY <1>2, <1>3
    <3>3. QED BY <3>1, <3>2, Zenon
  <2>2. n + (N - n) = N
    BY <1>1
  <2>. DEFINE c == a \o b
  <2>. HIDE DEF c
  <2>3. /\ c \in Seq(Position) /\ Len(c) = N
        /\ \A k \in 1 .. N : c[k] = IF k <= n THEN a[k] ELSE b[k - n]
    BY <2>1, <2>2 DEF c
  <2>4. ASSUME NEW k \in 1 .. N PROVE c[k] = s[k]
    <3>1. CASE k <= n
      <4>1. k \in 1 .. n
        BY <1>1, <3>1
      <4>2. QED BY <1>2, <2>3, <3>1, <4>1
    <3>2. CASE ~(k <= n)
      <4>1. k - n \in 1 .. N - n /\ n + (k - n) = k
        BY <1>1, <3>2
      <4>2. QED BY <1>3, <2>3, <3>2, <4>1
    <3>3. QED BY <3>1, <3>2
  <2>5. s = c
    BY <2>3, <2>4, SeqEqual DEF N
  <2>6. QED BY <2>5 DEF c
<1>5. Those(s, S) = Those(a, S) \o Those(b, S)
  BY <1>2, <1>3, <1>4, ThoseConcat
<1>6. Those(a, S) = a
  <2>1. \A k \in DOMAIN a : k \in 1 .. n
    BY <1>1, <1>2
  <2>2. \A k \in 1 .. n : k \in DOMAIN s /\ k <= n
    BY <1>1
  <2>3. \A k \in DOMAIN a : a[k] \in S
    BY <1>2, <2>1, <2>2
  <2>4. QED BY <1>2, <2>3, ThoseAll
<1>7. Those(b, S) = <<>>
  <2>1. \A k \in DOMAIN b : k \in 1 .. N - n
    BY <1>1, <1>3
  <2>2. \A k \in 1 .. N - n : n + k \in DOMAIN s /\ ~(n + k <= n)
    BY <1>1
  <2>3. \A k \in DOMAIN b : b[k] \notin S
    BY <1>3, <2>1, <2>2
  <2>4. QED BY <1>3, <2>3, ThoseNone
<1>8. QED BY <1>2, <1>5, <1>6, <1>7, ConcatEmptySeq DEF a

\* Of two positions at most one is before the other, and none is before itself.
LEMMA BeforeOrder ==
    /\ \A p, q \in Position : Before(p, q) => ~Before(q, p)
    /\ \A p \in Position : ~Before(p, p)
BY DEF Before, Position

\* In an ordered sequence, what is before an element is a first part.
LEMMA BeforeCursor ==
    ASSUME NEW s \in Seq(Position), Ordered(s), NEW n \in 0 .. Len(s),
           NEW cursor \in Position,
           IF n < Len(s) THEN cursor = s[n + 1]
           ELSE \A k \in DOMAIN s : Before(s[k], cursor)
    PROVE  Those(s, {p \in ToSet(s) : Before(p, cursor)}) = SubSeq(s, 1, n)
<1>. DEFINE S == {p \in ToSet(s) : Before(p, cursor)}
<1>1. \A k \in DOMAIN s : s[k] \in ToSet(s) /\ s[k] \in Position
  BY DEF ToSet
<1>2. ASSUME NEW k \in DOMAIN s PROVE s[k] \in S <=> k <= n
  <2>1. s[k] \in S <=> Before(s[k], cursor)
    BY <1>1
  <2>. HIDE DEF S
  <2>2. CASE ~(n < Len(s))
    <3>1. k <= n
      BY <2>2
    <3>2. QED BY <2>1, <2>2, <3>1
  <2>3. CASE n < Len(s)
    <3>1. cursor = s[n + 1] /\ n + 1 \in DOMAIN s
      BY <2>3
    <3>2. CASE k <= n
      <4>1. k < n + 1
        BY <3>2
      <4>2. Before(s[k], s[n + 1])
        BY <3>1, <4>1 DEF Ordered
      <4>3. QED BY <2>1, <3>1, <3>2, <4>2
    <3>3. CASE k = n + 1
      <4>1. ~Before(s[k], cursor) /\ ~(k <= n)
        BY <1>1, <3>1, <3>3, BeforeOrder
      <4>2. QED BY <2>1, <4>1
    <3>4. CASE ~(k <= n) /\ k # n + 1
      <4>1. n + 1 < k
        BY <3>4
      <4>2. Before(cursor, s[k])
        BY <3>1, <4>1 DEF Ordered
      <4>3. ~Before(s[k], cursor)
        BY <1>1, <4>2, BeforeOrder
      <4>4. QED BY <2>1, <3>4, <4>3
    <3>5. QED BY <3>2, <3>3, <3>4
  <2>4. QED BY <2>2, <2>3
<1>. HIDE DEF S
<1>3. Those(s, S) = SubSeq(s, 1, n)
  BY <1>2, ThoseFirst
<1>4. QED BY <1>3 DEF S

(***************************************************************************)
(* The elements of a reversed sequence, and of the end of one.             *)
(***************************************************************************)
LEMMA ReverseProperties ==
    ASSUME NEW S, NEW s \in Seq(S)
    PROVE  /\ Reverse(s) \in Seq(S) /\ Len(Reverse(s)) = Len(s)
           /\ \A k \in 1 .. Len(s) : Reverse(s)[k] = s[Len(s) + 1 - k]
<1>. DEFINE N == Len(s)
            r == Reverse(s)
<1>1. N \in Nat /\ \A k \in 1 .. N : s[k] \in S
  OBVIOUS
<1>2. r = [k \in 1 .. N |-> s[(N - k) + 1]]
  BY DEF Reverse
<1>. HIDE DEF N, r
<1>3. \A k \in 1 .. N : (N - k) + 1 \in 1 .. N /\ (N - k) + 1 = N + 1 - k
  BY <1>1
<1>4. r \in [1 .. N -> S]
  BY <1>1, <1>2, <1>3
<1>5. r \in Seq(S) /\ Len(r) = N
  BY <1>1, <1>4
<1>6. \A k \in 1 .. N : r[k] = s[N + 1 - k]
  BY <1>2, <1>3
<1>7. QED BY <1>5, <1>6 DEF N, r

\* The elements of the end of a sequence.
LEMMA FromElements ==
    ASSUME NEW S, NEW s \in Seq(S), NEW k \in 1 .. Len(s) + 1
    PROVE  /\ From(s, k) \in Seq(S) /\ Len(From(s, k)) = Len(s) + 1 - k
           /\ \A i \in 1 .. Len(s) + 1 - k : From(s, k)[i] = s[i + k - 1]
<1>1. Len(s) \in Nat /\ k \in Int /\ k <= Len(s) + 1 /\ \A i \in k .. Len(s) : s[i] \in S
  OBVIOUS
<1>2. /\ From(s, k) \in Seq(S)
      /\ Len(From(s, k)) = IF k <= Len(s) THEN Len(s) - k + 1 ELSE 0
      /\ \A i \in 1 .. Len(s) - k + 1 : From(s, k)[i] = s[k + i - 1]
  BY <1>1, SubSeqProperties DEF From
<1>3. /\ Len(s) - k + 1 = Len(s) + 1 - k /\ (~(k <= Len(s)) => Len(s) + 1 - k = 0)
      /\ \A i \in 1 .. Len(s) + 1 - k : k + i - 1 = i + k - 1
  BY <1>1
<1>4. QED BY <1>2, <1>3

(***************************************************************************)
(* The rows of a page: the last displayed messages before the cursor, one  *)
(* more than the limit if there are.                                       *)
(***************************************************************************)
IsPage(rows, first, limit) ==
    /\ rows \in Seq(Position)
    /\ Len(rows) = IF Len(first) > limit THEN limit + 1 ELSE Len(first)
    /\ \A k \in 1 .. Len(rows) : rows[k] = first[Len(first) + 1 - k]

\* The rows of a page are the newest before the cursor, newest first.
LEMMA PageRowsAre ==
    ASSUME NEW first \in Seq(Position), NEW limit \in Nat, NEW cursor,
           Those(Displayed, {p \in ToSet(Displayed) : Before(p, cursor)}) = first
    PROVE  IsPage(PageRows(limit, cursor), first, limit)
<1>. DEFINE N == Len(first)
            n == IF N > limit THEN limit + 1 ELSE N
            back == Reverse(first)
            rows == SubSeq(back, 1, n)
<1>1. PageRows(limit, cursor) = SubSeq(back, 1, IF Len(back) > limit THEN limit + 1 ELSE Len(back))
  BY DEF PageRows
<1>2. /\ N \in Nat /\ back \in Seq(Position) /\ Len(back) = N
      /\ \A k \in 1 .. N : back[k] = first[N + 1 - k]
  BY ReverseProperties
<1>. HIDE DEF back, N
<1>3. n \in 0 .. N
  BY <1>2
<1>4. PageRows(limit, cursor) = rows
  BY <1>1, <1>2
<1>5. rows \in Seq(Position) /\ Len(rows) = n /\ \A k \in 1 .. n : rows[k] = back[k]
  <2>. HIDE DEF n
  <2>1. QED BY <1>2, <1>3
<1>. HIDE DEF rows
<1>6. \A k \in 1 .. n : k \in 1 .. N
  BY <1>2
<1>7. QED BY <1>2, <1>4, <1>5, <1>6 DEF IsPage, N

(***************************************************************************)
(* A page before the messages a client has makes it have more of the end.  *)
(***************************************************************************)
LEMMA PagePrepended ==
    ASSUME NEW E \in Seq(Position), NEW L \in 0 .. Len(E), NEW rows \in Seq(Position),
           NEW n \in 0 .. Len(rows), n <= L,
           \A k \in 1 .. n : rows[k] = E[L + 1 - k]
    PROVE  Reverse(SubSeq(rows, 1, n)) \o From(E, L + 1) = From(E, L - n + 1)
<1>. DEFINE page == SubSeq(rows, 1, n)
            back == Reverse(page)
            old == From(E, L + 1)
            all == back \o old
            new == From(E, L - n + 1)
            N == Len(E)
<1>1. page \in Seq(Position) /\ Len(page) = n /\ \A k \in 1 .. n : page[k] = rows[k]
  OBVIOUS
<1>2. /\ N \in Nat /\ L \in Nat /\ L <= N /\ n \in Nat
      /\ L + 1 \in 1 .. N + 1 /\ L - n + 1 \in 1 .. N + 1
  OBVIOUS
<1>3. /\ old \in Seq(Position) /\ Len(old) = N - L
      /\ \A i \in 1 .. N - L : old[i] = E[i + L]
  <2>1. /\ old \in Seq(Position) /\ Len(old) = N + 1 - (L + 1)
        /\ \A i \in 1 .. N + 1 - (L + 1) : old[i] = E[i + (L + 1) - 1]
    BY <1>2, FromElements
  <2>. HIDE DEF old, N
  <2>2. N + 1 - (L + 1) = N - L /\ \A i \in 1 .. N - L : i + (L + 1) - 1 = i + L
    BY <1>2
  <2>3. QED BY <2>1, <2>2
<1>4. /\ new \in Seq(Position) /\ Len(new) = N - L + n
      /\ \A i \in 1 .. N - L + n : new[i] = E[i + L - n]
  <2>. DEFINE m == L - n + 1
  <2>0. m \in 1 .. Len(E) + 1
    BY <1>2
  <2>. HIDE DEF m
  <2>1. /\ From(E, m) \in Seq(Position) /\ Len(From(E, m)) = Len(E) + 1 - m
        /\ \A i \in 1 .. Len(E) + 1 - m : From(E, m)[i] = E[i + m - 1]
    BY <2>0, FromElements
  <2>2. new = From(E, m)
    BY DEF m
  <2>. HIDE DEF new, N
  <2>3. /\ new \in Seq(Position) /\ Len(new) = N + 1 - m
        /\ \A i \in 1 .. N + 1 - m : new[i] = E[i + m - 1]
    BY <2>1, <2>2 DEF N
  <2>4. N + 1 - m = N - L + n /\ \A i \in 1 .. N - L + n : i + m - 1 = i + L - n
    BY <1>2 DEF m
  <2>5. QED BY <2>3, <2>4
<1>. HIDE DEF page, old, new, N
<1>5. /\ back \in Seq(Position) /\ Len(back) = n
      /\ \A k \in 1 .. n : back[k] = page[n + 1 - k]
  <2>1. /\ back \in Seq(Position) /\ Len(back) = Len(page)
        /\ \A k \in 1 .. Len(page) : back[k] = page[Len(page) + 1 - k]
    BY <1>1, ReverseProperties
  <2>. HIDE DEF back
  <2>2. QED BY <1>1, <2>1
<1>. HIDE DEF back
<1>6. /\ all \in Seq(Position) /\ Len(all) = n + (N - L)
      /\ \A k \in 1 .. n + (N - L) : all[k] = IF k <= n THEN back[k] ELSE old[k - n]
  <2>. back \in Seq(Position) /\ old \in Seq(Position)
    BY <1>3, <1>5
  <2>1. /\ all \in Seq(Position) /\ Len(all) = Len(back) + Len(old)
        /\ \A k \in 1 .. Len(back) + Len(old) :
             all[k] = IF k <= Len(back) THEN back[k] ELSE old[k - Len(back)]
    BY ConcatProperties
  <2>2. Len(back) = n /\ Len(old) = N - L
    BY <1>3, <1>5
  <2>3. QED BY <2>1, <2>2, Zenon
<1>. HIDE DEF all
<1>7. n + (N - L) = N - L + n
  BY <1>2
<1>8. ASSUME NEW k \in 1 .. N - L + n PROVE all[k] = new[k]
  <2>1. k \in 1 .. n + (N - L) /\ new[k] = E[k + L - n]
    BY <1>4, <1>7
  <2>2. CASE k <= n
    <3>1. /\ k \in 1 .. n /\ n + 1 - k \in 1 .. n /\ L + 1 - (n + 1 - k) = k + L - n
      BY <1>2, <2>2
    <3>2. all[k] = back[k]
      BY <1>6, <2>1, <2>2
    <3>3. back[k] = rows[n + 1 - k]
      BY <1>1, <1>5, <3>1
    <3>4. rows[n + 1 - k] = E[L + 1 - (n + 1 - k)]
      BY <3>1
    <3>5. QED BY <2>1, <3>1, <3>2, <3>3, <3>4
  <2>3. CASE ~(k <= n)
    <3>1. k - n \in 1 .. N - L /\ (k - n) + L = k + L - n
      BY <1>2, <2>3
    <3>2. all[k] = old[k - n]
      BY <1>6, <2>1, <2>3
    <3>3. old[k - n] = E[(k - n) + L]
      BY <1>3, <3>1
    <3>4. QED BY <2>1, <3>1, <3>2, <3>3
  <2>4. QED BY <2>2, <2>3
<1>9. all = new
  BY <1>4, <1>6, <1>7, <1>8, SeqEqual
<1>10. QED BY <1>9 DEF all, back, page, old, new

(***************************************************************************)
(* A page keeps what the client knows.                                     *)
(***************************************************************************)
\* What ReaderInv says of a reader, of some turns and of what they display.
KnowsEnd(r, some, displayed) ==
    LET left == Len(r.expected) - Len(r.shown)
    IN  /\ r \in Reader
        /\ left >= 0 /\ r.shown = From(r.expected, left + 1)
        /\ Len(r.expected) <= Len(displayed)
        /\ \A k \in DOMAIN r.expected : r.expected[k] = displayed[k]
        /\ r.pc = "new" => r.expected = <<>>
        /\ r.pc = "paging" => left > 0 /\ left < Len(r.expected)
                              /\ r.before = r.expected[left + 1]
        /\ r.pc = "done" => left = 0
        /\ r.pc = "too_large" =>
             left > 0 /\ some[r.expected[left][1]].messages[r.expected[left][2]].text + 1 > PageBytes

\* ReaderInv is KnowsEnd of the reader.
LEMMA KnowsEndIs ==
    /\ ReaderInv <=> KnowsEnd(reader, turns, Displayed)
    /\ ReaderInv' <=> KnowsEnd(reader', turns', Displayed')
<1>1. ReaderInv <=> KnowsEnd(reader, turns, Displayed)
  BY DEF ReaderInv, KnowsEnd, ItemSize, MessageAt
<1>2. ReaderInv' <=> KnowsEnd(reader', turns', Displayed')
  BY DEF ReaderInv, KnowsEnd, ItemSize, MessageAt
<1>3. QED BY <1>1, <1>2

\* Where the next page ends: before the messages the client has.
CursorAt(displayed, L, cursor) ==
    IF L < Len(displayed) THEN cursor = displayed[L + 1]
    ELSE \A k \in DOMAIN displayed : Before(displayed[k], cursor)

\* What is displayed begins with E.
Begins(E, displayed) ==
    Len(E) <= Len(displayed) /\ \A k \in DOMAIN E : E[k] = displayed[k]

\* The rows are the last ones of the L first elements of s.
IsPageOf(rows, s, L, limit) ==
    /\ rows \in Seq(Position)
    /\ Len(rows) = IF L > limit THEN limit + 1 ELSE L
    /\ Len(rows) <= L
    /\ \A k \in 1 .. Len(rows) : L + 1 - k \in 1 .. L /\ rows[k] = s[L + 1 - k]

\* A page at a cursor is the end of what was displayed before it, reversed.
LEMMA CursorPage ==
    ASSUME RunInv, NEW L \in 0 .. Len(Displayed), NEW cursor \in Position,
           CursorAt(Displayed, L, cursor), NEW limit \in Nat \ {0}
    PROVE  IsPageOf(PageRows(limit, cursor), Displayed, L, limit)
<1>. DEFINE D == Displayed
            first == SubSeq(D, 1, L)
            rows == PageRows(limit, cursor)
            M == Len(rows)
<1>1. Ordered(D) /\ D \in Seq(Position)
  <2>1. turns \in Seq(Turn)
    BY DEF RunInv, TurnsInv, TurnsOK
  <2>2. QED BY <2>1, DisplayedIs, DisplayedOrdered DEF Ordered
<1>2. Those(D, {p \in ToSet(D) : Before(p, cursor)}) = first
  <2>1. IF L < Len(D) THEN cursor = D[L + 1] ELSE \A k \in DOMAIN D : Before(D[k], cursor)
    BY DEF CursorAt
  <2>. HIDE DEF D
  <2>2. L \in 0 .. Len(D)
    BY DEF D
  <2>3. QED BY <1>1, <2>1, <2>2, BeforeCursor
<1>3. L \in Nat /\ L \in 0 .. Len(D)
  OBVIOUS
<1>. HIDE DEF D
<1>4. first \in Seq(Position) /\ Len(first) = L /\ \A k \in 1 .. L : first[k] = D[k]
  BY <1>1, <1>3
<1>. HIDE DEF first
<1>5. IsPage(rows, first, limit)
  BY <1>2, <1>4, PageRowsAre DEF D
<1>. HIDE DEF rows
<1>6. /\ rows \in Seq(Position) /\ M = IF L > limit THEN limit + 1 ELSE L
      /\ \A k \in 1 .. M : rows[k] = first[L + 1 - k]
  BY <1>4, <1>5 DEF IsPage
<1>7. M \in Nat
  BY <1>6
<1>. HIDE DEF M
<1>8. M <= L /\ \A k \in 1 .. M : L + 1 - k \in 1 .. L
  BY <1>1, <1>6, <1>7
<1>9. \A k \in 1 .. M : L + 1 - k \in 1 .. L /\ rows[k] = D[L + 1 - k]
  BY <1>4, <1>6, <1>8
<1>10. QED BY <1>6, <1>8, <1>9 DEF IsPageOf, M, rows, D

\* What is displayed has a size.
LEMMA DisplayedSizes ==
    ASSUME RunInv, NEW k \in DOMAIN Displayed PROVE ItemSize(Displayed[k]) \in Nat
<1>. DEFINE p == Displayed[k]
            some == turns[p[1]].messages
<1>1. turns \in Seq(Turn)
  BY DEF RunInv, TurnsInv, TurnsOK
<1>2. p[1] \in DOMAIN turns /\ p[2] \in DOMAIN some
  BY <1>1, DisplayedIs, DisplayedOrdered DEF PositionsWithin
<1>. HIDE DEF p
<1>3. some \in Seq(Message)
  <2>1. turns[p[1]] \in Turn
    BY <1>1, <1>2
  <2>2. QED BY <2>1 DEF Turn
<1>. HIDE DEF some
<1>4. some[p[2]] \in Message
  BY <1>2, <1>3
<1>5. some[p[2]].text \in Nat
  BY <1>4 DEF Message
<1>. DEFINE text == some[p[2]].text
<1>. HIDE DEF text
<1>6. text \in Nat /\ ItemSize(p) = text + 1
  BY <1>5 DEF ItemSize, MessageAt, some, text
<1>7. QED BY <1>6 DEF p

\* The reader after a page of n of the rows.
AfterPage(r, E, rows, n) ==
    IF rows # <<>> /\ n = 0
    THEN [r EXCEPT !.pc = "too_large", !.expected = E]
    ELSE [pc |-> IF n < Len(rows) THEN "paging" ELSE "done",
          before |-> IF n < Len(rows) THEN rows[n] ELSE <<0, 0>>,
          shown |-> Reverse(SubSeq(rows, 1, n)) \o r.shown,
          expected |-> E]

\* What a page of n of M rows leaves of N messages, if it had L left before.
Leaves(N, L, M, n) ==
    /\ L - n \in 0 .. L /\ n <= L /\ \A k \in 1 .. n : k \in 1 .. M
    /\ N - (N - (L - n)) = L - n /\ N + 1 - (L - n + 1) = N - (L - n)
    /\ L - n + 1 \in 1 .. N + 1 /\ L + 1 - n = L - n + 1
    /\ n < M => L - n > 0
    /\ n # 0 /\ n < M => n \in 1 .. M /\ L - n < N
    /\ ~(n < M) => L - n = 0
    /\ M # 0 => L > 0 /\ 1 \in 1 .. M
    /\ N - (N - L) = L /\ N + 1 - (L + 1) = N - L /\ L + 1 \in 1 .. N + 1 /\ (L + 1) - 1 = L

\* Counting back from the newest of L messages stays within them.
LEMMA NewestFirst ==
    ASSUME NEW N \in Nat, NEW L \in 0 .. N, NEW M \in 0 .. L
    PROVE  \A k \in 1 .. M : L + 1 - k \in 1 .. L /\ L + 1 - k \in 1 .. N
OBVIOUS

\* The arithmetic of a page of n of M rows.
LEMMA PageLeaves ==
    ASSUME NEW N \in Nat, NEW L \in 0 .. N, NEW limit \in Nat \ {0},
           NEW M, M = IF L > limit THEN limit + 1 ELSE L, NEW n \in 0 .. M, n <= limit
    PROVE  Leaves(N, L, M, n)
BY DEF Leaves

\* A page put before an end of the displayed messages gives a longer end.
LEMMA AfterPageKnows ==
    ASSUME NEW r \in Reader, NEW some, NEW displayed, NEW E \in Seq(Position),
           Begins(E, displayed), NEW L \in 0 .. Len(E), r.shown = From(E, L + 1),
           NEW rows \in Seq(Position), NEW n \in 0 .. Len(rows),
           Leaves(Len(E), L, Len(rows), n),
           \A k \in 1 .. Len(rows) : rows[k] = E[L + 1 - k],
           rows # <<>> /\ n = 0 =>
             some[rows[1][1]].messages[rows[1][2]].text + 1 > PageBytes
    PROVE  KnowsEnd(AfterPage(r, E, rows, n), some, displayed)
<1>. DEFINE next == AfterPage(r, E, rows, n)
            N == Len(E)
            M == Len(rows)
            K == L - n
            shown2 == Reverse(SubSeq(rows, 1, n)) \o r.shown
            left == Len(next.expected) - Len(next.shown)
<1>1. M \in Nat /\ DOMAIN rows = 1 .. M /\ n \in Nat /\ (rows # <<>> <=> M # 0)
  BY EmptySeq
<1>2. /\ N - (N - K) = K /\ N + 1 - (K + 1) = N - K /\ K + 1 \in 1 .. N + 1
      /\ n <= L /\ K >= 0 /\ K + 1 = L - n + 1
  BY DEF Leaves
<1>3. /\ n < M => K > 0
      /\ n # 0 /\ n < M => n \in 1 .. M /\ K < N /\ L + 1 - n = K + 1
      /\ ~(n < M) => K = 0
      /\ n = 0 => K = L
  BY DEF Leaves
<1>4. /\ M # 0 => L > 0 /\ 1 \in 1 .. M
      /\ N - (N - L) = L /\ N + 1 - (L + 1) = N - L /\ L + 1 \in 1 .. N + 1 /\ (L + 1) - 1 = L
      /\ \A k \in 1 .. n : k \in 1 .. M
  BY DEF Leaves
<1>. HIDE DEF K
<1>5. CASE rows # <<>> /\ n = 0
  <2>1. next = [r EXCEPT !.pc = "too_large", !.expected = E]
    BY <1>5 DEF AfterPage
  <2>2. /\ next \in Reader /\ next.pc = "too_large" /\ next.expected = E
        /\ next.shown = r.shown
    BY <2>1 DEF Reader
  <2>. HIDE DEF next
  <2>3. Len(From(E, L + 1)) = N - L
    BY <1>4, FromElements
  <2>4. left = L
    BY <1>4, <2>2, <2>3
  <2>. HIDE DEF left
  <2>5. L > 0 /\ L >= 0 /\ rows[1] = E[L]
    BY <1>1, <1>4, <1>5
  <2>6. some[E[L][1]].messages[E[L][2]].text + 1 > PageBytes
    BY <1>5, <2>5
  <2>7. Begins(next.expected, displayed) /\ next.shown = From(next.expected, left + 1)
    BY <2>2, <2>4
  <2>8. /\ left > 0 /\ left >= 0
        /\ some[next.expected[left][1]].messages[next.expected[left][2]].text + 1 > PageBytes
    BY <2>2, <2>4, <2>5, <2>6
  <2>9. QED BY <2>2, <2>7, <2>8, Zenon DEF KnowsEnd, Begins, left, next
<1>6. CASE ~(rows # <<>> /\ n = 0)
  <2>1. next = [pc |-> IF n < M THEN "paging" ELSE "done",
                before |-> IF n < M THEN rows[n] ELSE <<0, 0>>,
                shown |-> shown2, expected |-> E]
    BY <1>6 DEF AfterPage
  <2>2. shown2 = From(E, K + 1)
    <3>1. Reverse(SubSeq(rows, 1, n)) \o From(E, L + 1) = From(E, L - n + 1)
      <4>1. \A k \in 1 .. n : rows[k] = E[L + 1 - k]
        BY <1>4
      <4>2. QED BY <1>2, <4>1, PagePrepended
    <3>2. QED BY <1>2, <3>1
  <2>. HIDE DEF shown2
  <2>3. shown2 \in Seq(Position) /\ Len(shown2) = N - K
    BY <1>2, <2>2, FromElements
  <2>4. next.shown = shown2 /\ next.expected = E
    BY <2>1
  <2>5. left = K
    BY <1>2, <2>3, <2>4
  <2>6. n < M => n # 0
    BY <1>1, <1>6
  <2>7. CASE n < M
    <3>1. next.pc = "paging" /\ next.before = rows[n]
      BY <2>1, <2>7
    <3>2. n \in DOMAIN rows /\ rows[n] = E[K + 1] /\ K > 0 /\ K < N
      BY <1>1, <1>3, <2>6, <2>7
    <3>3. rows[n] \in Position
      BY <3>2
    <3>4. next \in Reader
      BY <2>1, <2>3, <2>7, <3>3 DEF Reader
    <3>. HIDE DEF next, left, N
    <3>5. Begins(next.expected, displayed) /\ next.shown = From(next.expected, left + 1)
      BY <2>2, <2>4, <2>5
    <3>6. left > 0 /\ left >= 0 /\ left < Len(next.expected) /\ next.before = next.expected[left + 1]
      BY <1>2, <2>4, <2>5, <3>1, <3>2 DEF N
    <3>7. QED BY <3>1, <3>4, <3>5, <3>6, Zenon DEF KnowsEnd, Begins, left, next
  <2>8. CASE ~(n < M)
    <3>1. next.pc = "done"
      BY <2>1, <2>8
    <3>2. next \in Reader
      <4>1. <<0, 0>> \in Position
        BY DEF Position
      <4>2. QED BY <2>1, <2>3, <2>8, <4>1 DEF Reader
    <3>. HIDE DEF next, left, N
    <3>3. Begins(next.expected, displayed) /\ next.shown = From(next.expected, left + 1)
      BY <2>2, <2>4, <2>5
    <3>4. left = 0 /\ left >= 0
      BY <1>2, <1>3, <2>5, <2>8
    <3>5. QED BY <3>1, <3>2, <3>3, <3>4, Zenon DEF KnowsEnd, Begins, left, next
  <2>9. QED BY <2>7, <2>8
<1>7. QED BY <1>5, <1>6

\* ListMessages leaves the client with an end of what was displayed.
LEMMA ListMessagesKeeps ==
    ASSUME MessagesConstants, RunInv, reader \in Reader,
           NEW E \in Seq(Position), Begins(E, Displayed),
           NEW L \in 0 .. Len(E), reader.shown = From(E, L + 1),
           NEW cursor \in Position, CursorAt(Displayed, L, cursor),
           NEW limit \in PageLimits, ListMessages(limit, cursor, E)
    PROVE  KnowsEnd(reader', turns, Displayed)
<1>. DEFINE rows == PageRows(limit, cursor)
            n == PageLength(rows, limit)
            N == Len(E)
            M == Len(rows)
<1>1. N \in Nat /\ L \in Nat /\ L <= N /\ limit \in Nat \ {0} /\ PageBytes \in Nat
  <2>1. limit \in Nat \ {0} /\ PageBytes \in Nat
    BY DEF MessagesConstants
  <2>2. QED BY <2>1
<1>2. N <= Len(Displayed) /\ \A k \in 1 .. N : E[k] = Displayed[k] /\ k \in DOMAIN Displayed
  <2>1. Displayed \in Seq(Position)
    <3>1. turns \in Seq(Turn)
      BY DEF RunInv, TurnsInv, TurnsOK
    <3>2. QED BY <3>1, DisplayedIs, DisplayedOrdered DEF Ordered
  <2>2. Len(Displayed) \in Nat /\ DOMAIN Displayed = 1 .. Len(Displayed)
    BY <2>1
  <2>3. N <= Len(Displayed)
    BY DEF Begins
  <2>4. \A k \in 1 .. N : E[k] = Displayed[k]
    <3>1. DOMAIN E = 1 .. N
      OBVIOUS
    <3>2. \A k \in DOMAIN E : E[k] = Displayed[k]
      BY DEF Begins
    <3>. HIDE DEF N
    <3>3. QED BY <3>1, <3>2
  <2>5. \A k \in 1 .. N : k \in DOMAIN Displayed
    BY <1>1, <2>2, <2>3
  <2>6. QED BY <2>3, <2>4, <2>5
<1>3. IsPageOf(rows, Displayed, L, limit)
  <2>1. L \in 0 .. Len(Displayed)
    <3>1. Displayed \in Seq(Position)
      <4>1. turns \in Seq(Turn)
        BY DEF RunInv, TurnsInv, TurnsOK
      <4>2. QED BY <4>1, DisplayedIs, DisplayedOrdered DEF Ordered
    <3>2. Len(Displayed) \in Nat
      BY <3>1
    <3>3. QED BY <1>1, <1>2, <3>2, SMTT(30)
  <2>2. QED BY <1>1, <2>1, CursorPage
<1>. HIDE DEF rows
<1>4. /\ rows \in Seq(Position) /\ M = IF L > limit THEN limit + 1 ELSE L
      /\ M <= L /\ DOMAIN rows = 1 .. M /\ M \in Nat
  <2>1. rows \in Seq(Position)
    BY <1>3 DEF IsPageOf
  <2>2. DOMAIN rows = 1 .. M /\ M \in Nat
    BY <2>1
  <2>3. M = (IF L > limit THEN limit + 1 ELSE L) /\ M <= L
    BY <1>3 DEF IsPageOf
  <2>4. QED BY <2>1, <2>2, <2>3
<1>. HIDE DEF N
<1>5. \A k \in 1 .. M : L + 1 - k \in 1 .. L /\ L + 1 - k \in 1 .. N
  <2>1. N \in Nat /\ L \in 0 .. N /\ M \in 0 .. L
    <3>1. N \in Nat /\ L \in Nat /\ L <= N /\ M \in Nat /\ M <= L
      BY <1>1, <1>4
    <3>. HIDE DEF M
    <3>2. QED BY <3>1
  <2>. HIDE DEF M
  <2>2. QED BY <2>1, NewestFirst, Zenon
<1>6. \A k \in 1 .. M : rows[k] = E[L + 1 - k] /\ rows[k] = Displayed[L + 1 - k]
  <2>1. \A k \in 1 .. M : rows[k] = Displayed[L + 1 - k]
    BY <1>3 DEF IsPageOf
  <2>. HIDE DEF M
  <2>2. QED BY <1>2, <1>5, <2>1
<1>7. \A k \in DOMAIN rows : ItemSize(rows[k]) \in Nat
  <2>1. SUFFICES ASSUME NEW k \in 1 .. M PROVE ItemSize(rows[k]) \in Nat
    BY <1>4
  <2>. DEFINE i == L + 1 - k
  <2>2. i \in 1 .. N /\ rows[k] = Displayed[i]
    BY <1>5, <1>6
  <2>. HIDE DEF i
  <2>3. i \in DOMAIN Displayed
    BY <1>2, <2>2
  <2>4. QED BY <2>2, <2>3, DisplayedSizes
<1>8. /\ n \in 0 .. M /\ n <= limit
      /\ rows # <<>> /\ n = 0 => ItemSize(rows[1]) > PageBytes
  BY <1>4, <1>7, PageLengthProperties
<1>9. reader' = AfterPage(reader, E, rows, n)
  BY DEF ListMessages, AfterPage, rows, n
<1>. HIDE DEF n, M
<1>10. Leaves(N, L, M, n)
  <2>1. L \in 0 .. N /\ N \in Nat /\ limit \in Nat \ {0}
    BY <1>1
  <2>2. M = (IF L > limit THEN limit + 1 ELSE L) /\ n \in 0 .. M /\ n <= limit
    BY <1>4, <1>8
  <2>3. QED BY <2>1, <2>2, PageLeaves, Zenon
<1>11. rows # <<>> /\ n = 0 =>
         turns[rows[1][1]].messages[rows[1][2]].text + 1 > PageBytes
  BY <1>8 DEF ItemSize, MessageAt
<1>12. KnowsEnd(AfterPage(reader, E, rows, n), turns, Displayed)
  BY <1>4, <1>6, <1>8, <1>10, <1>11, AfterPageKnows DEF N, M
<1>13. QED BY <1>9, <1>12

(***************************************************************************)
(* The reader and what is displayed are an invariant.                      *)
(***************************************************************************)
LEMMA ReaderFirstPage ==
    ASSUME MessagesConstants, RunInv, ReaderInv, NEW limit \in PageLimits, FirstPage(limit)
    PROVE  ReaderInv'
<1>. DEFINE D == Displayed
            cursor == <<MaxTurns + 1, 0>>
            L == Len(D)
<1>1. turns \in Seq(Turn) /\ Len(turns) <= MaxTurns
  BY DEF RunInv, TurnsInv, TurnsOK
<1>2. D \in Seq(Position) /\ PositionsWithin(D, turns)
  BY <1>1, DisplayedIs, DisplayedOrdered DEF Ordered
<1>3. /\ reader \in Reader /\ reader.expected = <<>>
      /\ Len(reader.expected) - Len(reader.shown) >= 0
  BY DEF ReaderInv, FirstPage
<1>4. reader.shown = <<>>
  <2>1. reader.shown \in Seq(Position) /\ Len(<<>>) = 0
    BY <1>3 DEF Reader
  <2>2. Len(reader.shown) = 0
    <3>1. \A n \in Nat : 0 - n >= 0 => n = 0
      BY SMTT(30)
    <3>2. Len(reader.shown) \in Nat
      BY <2>1, LenProperties, Zenon
    <3>3. Len(<<>>) - Len(reader.shown) >= 0
      BY <1>3
    <3>4. QED BY <2>1, <3>1, <3>2, <3>3, Zenon
  <2>3. QED BY <2>1, <2>2, EmptySeq
<1>5. ListMessages(limit, cursor, D) /\ turns' = turns
  BY DEF FirstPage
<1>6. MaxTurns \in Nat
  BY DEF MessagesConstants
<1>. HIDE DEF D
<1>7. L \in Nat /\ L \in 0 .. Len(D) /\ DOMAIN D = 1 .. L
  BY <1>2
<1>8. Begins(D, Displayed)
  BY <1>7 DEF Begins, D
<1>9. reader.shown = From(D, L + 1)
  <2>1. L + 1 \in 1 .. Len(D) + 1 /\ Len(D) + 1 - (L + 1) = 0
    BY <1>7
  <2>2. From(D, L + 1) \in Seq(Position) /\ Len(From(D, L + 1)) = Len(D) + 1 - (L + 1)
    BY <1>2, <2>1, FromElements
  <2>3. From(D, L + 1) = <<>>
    BY <2>1, <2>2, EmptySeq
  <2>4. QED BY <1>4, <2>3
<1>10. cursor \in Position /\ cursor[1] = MaxTurns + 1
  BY <1>6 DEF Position
<1>. HIDE DEF cursor
<1>11. CursorAt(Displayed, L, cursor)
  <2>1. ASSUME NEW k \in DOMAIN D PROVE Before(D[k], cursor)
    <3>. DEFINE t == D[k][1]
                m == Len(turns)
    <3>1. t \in 1 .. m
      BY <1>2 DEF PositionsWithin
    <3>2. m \in Nat /\ m <= MaxTurns
      BY <1>1
    <3>. HIDE DEF t, m
    <3>3. t < MaxTurns + 1
      BY <1>6, <3>1, <3>2
    <3>4. QED BY <1>10, <3>3 DEF Before, t
  <2>2. ~(L < Len(D))
    BY <1>7
  <2>3. QED BY <2>1, <2>2 DEF CursorAt, D
<1>. HIDE DEF L
<1>12. KnowsEnd(reader', turns, Displayed)
  BY <1>2, <1>3, <1>5, <1>7, <1>8, <1>9, <1>10, <1>11, ListMessagesKeeps
<1>13. Displayed' = Displayed
  BY <1>5, DisplayedIs
<1>14. QED BY <1>5, <1>12, <1>13, KnowsEndIs

\* A further page keeps what the client knows.
LEMMA ReaderNextPage ==
    ASSUME MessagesConstants, RunInv, ReaderInv, NEW limit \in PageLimits, NextPage(limit)
    PROVE  ReaderInv'
<1>. DEFINE D == Displayed
            E == reader.expected
            L == Len(E) - Len(reader.shown)
<1>1. turns \in Seq(Turn)
  BY DEF RunInv, TurnsInv, TurnsOK
<1>2. D \in Seq(Position)
  BY <1>1, DisplayedIs, DisplayedOrdered DEF Ordered
<1>3. /\ reader \in Reader /\ reader.shown = From(E, L + 1) /\ L > 0 /\ L < Len(E)
      /\ reader.before = E[L + 1] /\ Len(E) <= Len(D)
      /\ \A k \in DOMAIN E : E[k] = D[k]
  BY DEF ReaderInv, NextPage
<1>4. E \in Seq(Position) /\ reader.shown \in Seq(Position) /\ reader.before \in Position
  BY <1>3 DEF Reader
<1>5. ListMessages(limit, reader.before, E) /\ turns' = turns
  BY DEF NextPage
<1>6. Begins(E, Displayed)
  BY <1>3 DEF Begins
<1>. HIDE DEF D, E
<1>7. Len(E) \in Nat /\ Len(reader.shown) \in Nat /\ Len(D) \in Nat /\ DOMAIN E = 1 .. Len(E)
  <2>1. \A s \in Seq(Position) : Len(s) \in Nat /\ DOMAIN s = 1 .. Len(s)
    OBVIOUS
  <2>2. QED BY <1>2, <1>4, <2>1, Zenon
<1>8. L \in 0 .. Len(E) /\ L < Len(D) /\ L + 1 \in DOMAIN E
  <2>. DEFINE e == Len(E)
              s == Len(reader.shown)
              d == Len(D)
  <2>1. e \in Nat /\ s \in Nat /\ d \in Nat /\ e <= d /\ e - s > 0 /\ e - s < e
    BY <1>3, <1>7
  <2>. HIDE DEF e, s, d
  <2>2. e - s \in 0 .. e /\ e - s < d /\ (e - s) + 1 \in 1 .. e
    BY <2>1
  <2>3. QED BY <1>7, <2>2 DEF e, s, d
<1>9. CursorAt(Displayed, L, reader.before)
  <2>. HIDE DEF L
  <2>1. reader.before = D[L + 1] /\ L < Len(D)
    BY <1>3, <1>8
  <2>2. QED BY <2>1 DEF CursorAt, D
<1>. HIDE DEF L
<1>10. KnowsEnd(reader', turns, Displayed)
  BY <1>3, <1>4, <1>5, <1>6, <1>8, <1>9, ListMessagesKeeps
<1>11. Displayed' = Displayed
  BY <1>5, DisplayedIs
<1>12. QED BY <1>5, <1>10, <1>11, KnowsEndIs

\* The client knows nothing at first, and nothing is displayed.
LEMMA ReaderInit ==
    ASSUME MessagesConstants, Init PROVE ReaderInv
<1>1. /\ reader.pc = "new" /\ reader.before = <<0, 0>> /\ reader.shown = <<>>
      /\ reader.expected = <<>> /\ reader \in Reader
  <2>1. <<>> \in Seq(Position) /\ <<0, 0>> \in Position
    BY DEF Position
  <2>2. QED BY <2>1 DEF Init, Reader
<1>2. From(<<>>, (Len(<<>>) - Len(<<>>)) + 1) = <<>>
  BY DEF From
<1>3. Len(<<>>) = 0 /\ DOMAIN <<>> = {} /\ Len(<<>>) - Len(<<>>) >= 0
  OBVIOUS
<1>4. Displayed \in Seq(Position)
  <2>1. turns \in Seq(Turn)
    BY DEF Init
  <2>2. QED BY <2>1, DisplayedIs, DisplayedOrdered DEF Ordered
<1>5. Len(<<>>) <= Len(Displayed)
  BY <1>3, <1>4
<1>6. QED BY <1>1, <1>2, <1>3, <1>5, Zenon DEF ReaderInv

\* Every step keeps the inductive invariant.
LEMMA MessagesInvNext ==
    ASSUME MessagesConstants, MessagesInv, [Next]_vars
    PROVE  MessagesInv'
<1>1. RunInv /\ ReaderInv
  BY DEF MessagesInv
<1>2. RunInv'
  BY <1>1, RunInvNext
<1>3. CASE Grows(turns, turns') /\ reader' = reader
  BY <1>1, <1>2, <1>3, ReaderWaits DEF MessagesInv
<1>4. CASE \E limit \in PageLimits : FirstPage(limit) \/ NextPage(limit)
  BY <1>1, <1>2, <1>4, ReaderFirstPage, ReaderNextPage DEF MessagesInv
<1>5. QED BY <1>1, <1>2, <1>3, <1>4, StepGrows

(***************************************************************************)
(* The inductive invariant: what is stored, what runs, and what a client   *)
(* has of the displayed messages.                                          *)
(***************************************************************************)
THEOREM MessagesInvariant == Spec => []MessagesInv
<1>1. Init => MessagesInv
  BY RunInvInit, ReaderInit, MessagesConstants DEF MessagesInv
<1>2. MessagesInv /\ [Next]_vars => MessagesInv'
  BY MessagesInvNext, MessagesConstants
<1>3. QED BY <1>1, <1>2, PTL DEF Spec

(***************************************************************************)
(* The end of a sequence from one of its elements is a suffix of it.       *)
(***************************************************************************)
LEMMA FromIsSuffix ==
    ASSUME NEW S, NEW t \in Seq(S), NEW k \in 1 .. Len(t) + 1
    PROVE  IsSuffix(From(t, k), t)
<1>. DEFINE s == From(t, k)
            N == Len(t)
            n == N + 1 - k
            rs == Reverse(s)
            rt == Reverse(t)
            a == SubSeq(rs, 1, n)
            b == SubSeq(rt, 1, n)
<1>1. N \in Nat /\ k \in 1 .. N + 1 /\ n \in 0 .. N
  OBVIOUS
<1>2. s \in Seq(S) /\ Len(s) = n /\ \A i \in 1 .. n : s[i] = t[i + k - 1]
  BY FromElements
<1>. HIDE DEF s, N
<1>3. /\ rs \in Seq(S) /\ Len(rs) = n /\ \A i \in 1 .. n : rs[i] = s[n + 1 - i]
  <2>. HIDE DEF n
  <2>1. /\ Reverse(s) \in Seq(S) /\ Len(Reverse(s)) = Len(s)
        /\ \A i \in 1 .. Len(s) : Reverse(s)[i] = s[Len(s) + 1 - i]
    BY <1>2, ReverseProperties
  <2>2. QED BY <1>2, <2>1
<1>4. rt \in Seq(S) /\ Len(rt) = N /\ \A i \in 1 .. N : rt[i] = t[N + 1 - i]
  BY ReverseProperties DEF N
<1>. HIDE DEF rs, rt
<1>5. \A i \in 1 .. n : /\ n + 1 - i \in 1 .. n /\ (n + 1 - i) + k - 1 = N + 1 - i
                        /\ i \in 1 .. N
  BY <1>1
<1>. HIDE DEF n
<1>6. a \in Seq(S) /\ Len(a) = n /\ \A i \in 1 .. n : a[i] = rs[i]
  BY <1>1, <1>3
<1>7. b \in Seq(S) /\ Len(b) = n /\ \A i \in 1 .. n : b[i] = rt[i]
  BY <1>1, <1>4
<1>. HIDE DEF a, b
<1>8. \A i \in 1 .. n : a[i] = b[i]
  <2>1. SUFFICES ASSUME NEW i \in 1 .. n PROVE a[i] = b[i]
    OBVIOUS
  <2>2. a[i] = s[n + 1 - i] /\ b[i] = t[N + 1 - i]
    BY <1>3, <1>4, <1>5, <1>6, <1>7
  <2>3. s[n + 1 - i] = t[(n + 1 - i) + k - 1]
    BY <1>2, <1>5
  <2>4. QED BY <1>5, <2>2, <2>3
<1>9. a = b
  BY <1>6, <1>7, <1>8, SeqEqual
<1>10. n <= N
  BY <1>1
<1>11. IsPrefix(rs, rt)
  BY <1>3, <1>4, <1>9, <1>10 DEF IsPrefix, a, b
<1>12. QED BY <1>11 DEF IsSuffix, rs, rt, s

\* A client that has an end of what was displayed has missed nothing.
LEMMA PagesFromInv ==
    ASSUME ReaderInv PROVE PagesShowEveryMessage
<1>. DEFINE E == reader.expected
            shown == reader.shown
            left == Len(E) - Len(shown)
<1>1. /\ reader \in Reader /\ left >= 0 /\ shown = From(E, left + 1)
      /\ reader.pc = "paging" => left > 0 /\ left < Len(E)
      /\ reader.pc = "done" => left = 0
      /\ reader.pc = "too_large" => left > 0 /\ ItemSize(E[left]) > PageBytes
  BY DEF ReaderInv
<1>2. E \in Seq(Position) /\ shown \in Seq(Position)
  BY <1>1 DEF Reader
<1>3. Len(E) \in Nat /\ Len(shown) \in Nat
  <2>1. \A s \in Seq(Position) : Len(s) \in Nat
    OBVIOUS
  <2>2. QED BY <1>2, <2>1, Zenon
<1>4. left + 1 \in 1 .. Len(E) + 1 /\ (left < Len(E) => Len(shown) # 0)
  <2>. DEFINE e == Len(E)
              s == Len(shown)
  <2>1. e \in Nat /\ s \in Nat /\ e - s >= 0
    BY <1>1, <1>3
  <2>. HIDE DEF e, s
  <2>2. (e - s) + 1 \in 1 .. e + 1 /\ (e - s < e => s # 0)
    BY <2>1
  <2>3. QED BY <2>2 DEF e, s
<1>5. reader.pc = "paging" => shown # <<>>
  <2>1. Len(<<>>) = 0
    OBVIOUS
  <2>2. QED BY <1>1, <1>4, <2>1
<1>. HIDE DEF left
<1>6. IsSuffix(From(E, left + 1), E)
  BY <1>2, <1>4, FromIsSuffix
<1>7. IsSuffix(shown, E)
  BY <1>1, <1>6
<1>8. QED BY <1>1, <1>5, <1>7, Zenon DEF PagesShowEveryMessage, left

(***************************************************************************)
(* A client that follows the cursors sees every displayed message, in      *)
(* order and once each, whatever completes meanwhile (sqlite/messages.go). *)
(***************************************************************************)
THEOREM MessagesPagesShowEveryMessage == Spec => []PagesShowEveryMessage
<1>1. MessagesInv => PagesShowEveryMessage
  BY PagesFromInv DEF MessagesInv
<1>2. QED BY <1>1, MessagesInvariant, PTL

\* The invariant has the types and the limits.
LEMMA TypeFromInv ==
    ASSUME MessagesConstants, MessagesInv PROVE MessagesTypeOK
<1>1. RunInv /\ ReaderInv
  BY DEF MessagesInv
<1>2. /\ turns \in Seq(Turn) /\ Len(turns) <= MaxTurns
      /\ \A t \in DOMAIN turns : turns[t].messages # <<>> <=> turns[t].status = "completed"
  BY <1>1 DEF RunInv, TurnsInv, TurnsOK
<1>3. ASSUME NEW t \in DOMAIN turns PROVE turns[t].status \in Statuses
  <2>1. turns[t] \in Turn
    BY <1>2
  <2>2. QED BY <2>1 DEF Turn
<1>4. Len(Rows) <= MaxMessages /\ Size(Rows) <= MaxConversationBytes
  BY <1>1 DEF RunInv, RowsInv
<1>5. execution.running => turns # <<>> /\ Last(turns).status = "running"
  BY <1>1 DEF RunInv, ExecutionInv
<1>6. confirmation # NoConfirmation =>
        turns # <<>> /\ Last(turns).status = "awaiting_confirmation"
  BY <1>1 DEF RunInv, ConfirmationInv
<1>7. Len(execution.messages) <= 2 * MaxIterations + 1
  <2>1. MaxIterations \in Nat
    BY DEF MessagesConstants
  <2>2. CASE execution.running
    <3>1. /\ execution.iteration \in 0 .. MaxIterations
          /\ Len(execution.messages) =
               2 * (IF execution.calls = <<>> THEN execution.iteration
                    ELSE execution.iteration - 1) + 1
      BY <1>1, <2>2 DEF RunInv, ExecutionInv, StateOK
    <3>. DEFINE i == execution.iteration
                n == Len(execution.messages)
    <3>2. i \in 0 .. MaxIterations /\ (n = 2 * i + 1 \/ n = 2 * (i - 1) + 1)
      BY <3>1
    <3>. HIDE DEF i, n
    <3>3. n <= 2 * MaxIterations + 1
      BY <2>1, <3>2
    <3>4. QED BY <3>3 DEF n
  <2>3. CASE ~execution.running
    <3>1. execution = Idle
      BY <1>1, <2>3 DEF RunInv, ExecutionInv
    <3>2. Len(execution.messages) = 0
      BY <3>1 DEF Idle
    <3>3. QED BY <2>1, <3>2
  <2>4. QED BY <2>2, <2>3
<1>8. reader.pc \in {"new", "paging", "too_large", "done"}
  BY <1>1 DEF ReaderInv, Reader
<1>9. QED BY <1>2, <1>3, <1>4, <1>5, <1>6, <1>7, <1>8, Zenon DEF MessagesTypeOK

(***************************************************************************)
(* The variables have their types, only a completed turn has messages, and *)
(* the conversation stays within its limits.                               *)
(***************************************************************************)
THEOREM MessagesType == Spec => []MessagesTypeOK
<1>1. MessagesInv => MessagesTypeOK
  BY TypeFromInv, MessagesConstants
<1>2. QED BY <1>1, MessagesInvariant, PTL

===============================================================================
