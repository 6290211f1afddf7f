--------------------------- MODULE ServiceProofs -----------------------------
(***************************************************************************)
(* Proofs about the service of the examples, for any streams and any number *)
(* of events, over what the pool and the event store promise.               *)
(*                                                                          *)
(* What a pool holds is in a line: the results being sent, those done, the  *)
(* tasks active, those pending. The line of the ordered pool, which has one *)
(* worker, is in order of submission; that of the other only has each task  *)
(* once. Beside the lines the inductive invariant IInv has                  *)
(*   Stations   what is empty or closed where the loop is;                  *)
(*   Accounts   which events became tasks, and what became of these;        *)
(*   Lists      whose message list was freed, by way of the place it is in; *)
(*   Ends       an event that ends its stream is the last of it;            *)
(*   Replies    what was answered comes before what is held for the stream. *)
(***************************************************************************)
EXTENDS Service, Integers, FiniteSetTheorems, SequenceTheorems, TLAPS

Reported == UNION {Reports(s) : s \in Streams}

StreamState == [is : {"open", "finished", "gone", "broken"}, closed : BOOLEAN, out : Seq(Nat)]

StoreTypes ==
    /\ written \in Seq(Reported) /\ Len(written) <= MaxEvents
    /\ read \in Seq(Reported) /\ Len(read) <= Len(written)
    /\ \A i \in 1 .. Len(read) : read[i] = written[i]
    /\ handled \in 0 .. Len(read)

OrderedTypes ==
    /\ oPending \in Seq(Places) /\ oActive \subseteq Places
    /\ oDone \in Seq(Places) /\ oDelivered \in Seq(Places)

UnorderedTypes ==
    /\ uPending \in Seq(Places) /\ uActive \subseteq Places
    /\ uDone \in Seq(Places) /\ uDelivered \in Seq(Places)
    /\ uOutcome \in [Places -> {"none", "executed"}]

LoopTypes ==
    /\ results \in Seq(Places)
    /\ stream \in [Streams -> StreamState]
    /\ freed \in [Places -> Nat]
    /\ threaded \in BOOLEAN

Types == StoreTypes /\ OrderedTypes /\ UnorderedTypes /\ LoopTypes

\* The results being sent, of each pool.
oRes == IF pc = "answer ordered" THEN results ELSE <<>>
uRes == IF pc = "answer unordered" THEN results ELSE <<>>

oLine == oRes \o oDone
uLine == uRes \o uDone

\* Those sent.
oGone == Elements(oDelivered) \ Elements(oRes)
uGone == Elements(uDelivered) \ Elements(uRes)

Before == {x \in Places \X Places : x[1] < x[2]}
Apart  == {x \in Places \X Places : x[1] # x[2]}

Held(q, A, p) == Elements(q) \cup A \cup Elements(p)

Sending == /\ Elements(oRes) \subseteq Elements(oDelivered)
           /\ Elements(uRes) \subseteq Elements(uDelivered)

oHeld == Held(oLine, oActive, oPending)
uHeld == Held(uLine, uActive, uPending)

\* What stands earlier in a line is related by R to what stands later.
Lined(R, q, A, p) ==
    /\ \A j, k \in DOMAIN q : j < k => <<q[j], q[k]>> \in R
    /\ \A j \in DOMAIN q, a \in A : <<q[j], a>> \in R
    /\ \A j \in DOMAIN q, k \in DOMAIN p : <<q[j], p[k]>> \in R
    /\ \A a, b \in A : a # b => <<a, b>> \in R
    /\ \A a \in A, k \in DOMAIN p : <<a, p[k]>> \in R
    /\ \A j, k \in DOMAIN p : j < k => <<p[j], p[k]>> \in R

\* A pool with line q, A, p that sent G and dropped D.
Good(R, q, A, p, G, D) ==
    /\ q \in Seq(Places) /\ A \subseteq Places /\ p \in Seq(Places)
    /\ Lined(R, q, A, p)
    /\ Held(q, A, p) \cap G = {} /\ D \cap G = {}

Stations ==
    /\ pc \in {"top", "polling", "events", "ordered", "answer ordered", "unordered",
               "answer unordered", "exit", "free ordered", "free unordered", "over"}
    /\ ~threaded => pc \in {"top", "polling", "events", "exit", "over"}
    /\ ~threaded => oHeld = {} /\ uHeld = {}
    /\ pc \notin {"answer ordered", "answer unordered"} => results = <<>>
    /\ threaded /\ pc = "polling" /\ long => PoolsEmpty
    /\ IF pc \in {"free unordered", "over"} THEN oHeld = {} ELSE oDiscarded = {}
    /\ IF pc = "over" THEN uHeld = {} ELSE uDiscarded = {}

oKnown == oHeld \cup oGone \cup oDiscarded
uKnown == uHeld \cup uGone \cup uDiscarded

Accounts ==
    /\ \A i \in oKnown : i \in 1 .. handled /\ written[i].stream \in Streaming
    /\ \A i \in uKnown : i \in 1 .. handled /\ written[i].stream \in Unary /\ ~Refused(written[i])
    /\ threaded => \A i \in 1 .. handled : ~Refused(written[i]) => i \in oKnown \cup uKnown
    /\ \A i \in Places : uOutcome[i] = "executed" => i \in uKnown
    /\ \A i \in Elements(uLine) \cup uGone : uOutcome[i] = "executed"

\* The list of event i has been freed, by the callback or with its userdata.
Released(i) ==
    /\ i <= handled
    /\ IF FreedByCallback(i) THEN uOutcome[i] = "executed" ELSE i \in oGone \cup uGone

Lists ==
    \A i \in Places :
      freed[i] = IF Released(i) THEN 1 ELSE 0

Ends ==
    /\ \A i \in 1 .. Len(written) : written[i].end => stream[written[i].stream].closed
    /\ \A i, j \in 1 .. Len(written) :
         i < j /\ written[i].stream = written[j].stream => ~written[i].end

\* An answer to s, before all that is held for s.
Answers(x, s) ==
    /\ x \in 1 .. handled /\ written[x].stream = s
    /\ \A i \in oHeld \cup uHeld : written[i].stream = s => x < i

\* The answers of a stream are in order, and nothing follows the trailers.
InOrder(out, s) ==
    \A j, k \in DOMAIN out : j < k =>
        /\ out[j] # Trailers
        /\ out[k] # Trailers => out[j] < out[k] /\ written[out[k]].stream = s

Replies ==
    \A s \in Streams :
      /\ InOrder(stream[s].out, s)
      /\ \A k \in DOMAIN stream[s].out :
           stream[s].out[k] # Trailers => Answers(stream[s].out[k], s)

IInv ==
    /\ Types /\ Stations /\ Sending
    /\ Good(Before, oLine, oActive, oPending, oGone, oDiscarded)
    /\ Good(Apart, uLine, uActive, uPending, uGone, uDiscarded)
    /\ Accounts /\ Lists /\ Ends /\ Replies

-----------------------------------------------------------------------------
(* Sequences and their elements *)

LEMMA ElementsIn ==
  ASSUME NEW S, NEW q \in Seq(S)
  PROVE  Elements(q) \subseteq S
  BY DEF Elements

LEMMA ElementsAppend ==
  ASSUME NEW S, NEW q \in Seq(S), NEW x \in S
  PROVE  Elements(Append(q, x)) = Elements(q) \cup {x}
  BY AppendProperties DEF Elements

LEMMA ElementsConcat ==
  ASSUME NEW q \in Seq(Places), NEW t \in Seq(Places)
  PROVE  Elements(q \o t) = Elements(q) \cup Elements(t)
<1>1. /\ q \o t \in Seq(Places) /\ Len(q \o t) = Len(q) + Len(t)
      /\ \A i \in 1 .. Len(q) + Len(t) :
           (q \o t)[i] = IF i <= Len(q) THEN q[i] ELSE t[i - Len(q)]
  BY ConcatProperties
<1>2. \A i \in DOMAIN q : i \in DOMAIN (q \o t) /\ (q \o t)[i] = q[i]
  BY <1>1
<1>3. \A i \in DOMAIN t : i + Len(q) \in DOMAIN (q \o t) /\ (q \o t)[i + Len(q)] = t[i]
  BY <1>1
<1>4. \A i \in DOMAIN (q \o t) : (q \o t)[i] \in Elements(q) \cup Elements(t)
  BY <1>1 DEF Elements
<1>5. Elements(q) \subseteq Elements(q \o t)
  BY <1>2 DEF Elements
<1>6. Elements(t) \subseteq Elements(q \o t)
  BY <1>3 DEF Elements
<1>7. Elements(q \o t) \subseteq Elements(q) \cup Elements(t)
  BY <1>4 DEF Elements
<1> QED BY <1>5, <1>6, <1>7

LEMMA TailIs ==
  ASSUME NEW S, NEW q \in Seq(S), q # <<>>
  PROVE  /\ Head(q) \in S /\ Tail(q) \in Seq(S)
         /\ 1 \in DOMAIN q /\ Head(q) = q[1]
         /\ \A i \in DOMAIN Tail(q) : i + 1 \in DOMAIN q /\ 1 < i + 1 /\ Tail(q)[i] = q[i + 1]
         /\ \A i, j \in DOMAIN Tail(q) : i < j => i + 1 < j + 1
         /\ Elements(q) = {Head(q)} \cup Elements(Tail(q))
<1>1. /\ Head(q) \in S /\ Tail(q) \in Seq(S) /\ Len(Tail(q)) = Len(q) - 1 /\ Len(q) >= 1
      /\ \A i \in 1 .. Len(Tail(q)) : Tail(q)[i] = q[i + 1]
  BY HeadTailProperties, EmptySeq
<1>2. \A i \in DOMAIN q : q[i] = Head(q) \/ (i - 1 \in DOMAIN Tail(q) /\ Tail(q)[i - 1] = q[i])
  BY <1>1
<1>3. \A i \in DOMAIN Tail(q) : i + 1 \in DOMAIN q /\ 1 < i + 1 /\ Tail(q)[i] = q[i + 1]
  BY <1>1
<1>4. 1 \in DOMAIN q /\ Head(q) = q[1]
  BY <1>1
<1>5. \A i, j \in DOMAIN Tail(q) : i < j => i + 1 < j + 1
  BY <1>1
<1>6. Elements(q) = {Head(q)} \cup Elements(Tail(q))
  BY <1>1, <1>2, <1>3, <1>4 DEF Elements
<1> QED BY <1>1, <1>3, <1>4, <1>5, <1>6

-----------------------------------------------------------------------------
(* One pool, step by step *)

\* What add_task appends comes after all that is held.
LEMMA Submitted ==
  ASSUME NEW R, NEW q, NEW A, NEW p, NEW G, NEW D, Good(R, q, A, p, G, D),
         NEW x \in Places, x \notin G, \A y \in Held(q, A, p) : <<y, x>> \in R
  PROVE  /\ Good(R, q, A, Append(p, x), G, D)
         /\ Held(q, A, Append(p, x)) = Held(q, A, p) \cup {x}
<1>1. /\ q \in Seq(Places) /\ A \subseteq Places /\ p \in Seq(Places)
      /\ Held(q, A, p) \cap G = {} /\ D \cap G = {}
  BY DEF Good
<1>2. /\ Append(p, x) \in Seq(Places) /\ DOMAIN p = 1 .. Len(p) /\ Len(p) \in Nat
      /\ DOMAIN Append(p, x) = 1 .. Len(p) + 1
      /\ \A k \in DOMAIN p : Append(p, x)[k] = p[k]
      /\ Append(p, x)[Len(p) + 1] = x
  BY <1>1, AppendProperties
<1>3. Held(q, A, Append(p, x)) = Held(q, A, p) \cup {x}
  <2>1. Elements(Append(p, x)) = Elements(p) \cup {x}
    BY <1>1, ElementsAppend
  <2> QED BY <2>1 DEF Held
<1>4. /\ \A j \in DOMAIN q : <<q[j], x>> \in R
      /\ \A a \in A : <<a, x>> \in R
      /\ \A k \in DOMAIN p : <<p[k], x>> \in R
  BY DEF Held, Elements
<1> DEFINE z == Append(p, x)
<1>5. \A k \in DOMAIN z : k \in DOMAIN p \/ k = Len(p) + 1
  BY <1>2
<1>6. \A j, k \in DOMAIN z : j < k => j \in DOMAIN p /\ (k = Len(p) + 1 \/ k \in DOMAIN p)
  BY <1>2
<1>7. Lined(R, q, A, p)
  BY DEF Good
<1> HIDE DEF z
<1>8. /\ \A k \in DOMAIN p : z[k] = p[k]
      /\ z[Len(p) + 1] = x
  BY <1>2 DEF z
<1>9. \A j, k \in DOMAIN z : j < k => <<z[j], z[k]>> \in R
  <2> SUFFICES ASSUME NEW j \in DOMAIN z, NEW k \in DOMAIN z, j < k
               PROVE  <<z[j], z[k]>> \in R
    OBVIOUS
  <2>1. j \in DOMAIN p /\ z[j] = p[j]
    BY <1>6, <1>8
  <2>2. CASE k = Len(p) + 1
    BY <1>4, <1>8, <2>1, <2>2
  <2>3. CASE k \in DOMAIN p
    BY <1>7, <1>8, <2>1, <2>3 DEF Lined
  <2> QED BY <1>6, <2>2, <2>3
<1>10. \A j \in DOMAIN q, k \in DOMAIN z : <<q[j], z[k]>> \in R
  BY <1>4, <1>5, <1>7, <1>8 DEF Lined
<1>11. \A a \in A, k \in DOMAIN z : <<a, z[k]>> \in R
  BY <1>4, <1>5, <1>7, <1>8 DEF Lined
<1>12. Lined(R, q, A, z)
  BY <1>7, <1>9, <1>10, <1>11 DEF Lined
<1> QED BY <1>1, <1>2, <1>3, <1>12 DEF Good, z

\* A worker takes the oldest task.
LEMMA Started ==
  ASSUME NEW R, NEW q, NEW A, NEW p, NEW G, NEW D, Good(R, q, A, p, G, D),
         p # <<>>, \A a \in A : <<Head(p), a>> \in R
  PROVE  /\ Good(R, q, A \cup {Head(p)}, Tail(p), G, D)
         /\ Held(q, A \cup {Head(p)}, Tail(p)) = Held(q, A, p)
<1>1. /\ q \in Seq(Places) /\ A \subseteq Places /\ p \in Seq(Places)
      /\ Held(q, A, p) \cap G = {} /\ D \cap G = {} /\ Lined(R, q, A, p)
  BY DEF Good
<1> DEFINE x == Head(p)
           t == Tail(p)
<1>2. /\ x \in Places /\ t \in Seq(Places) /\ 1 \in DOMAIN p /\ x = p[1]
      /\ \A i \in DOMAIN t : i + 1 \in DOMAIN p /\ 1 < i + 1 /\ t[i] = p[i + 1]
      /\ \A i, j \in DOMAIN t : i < j => i + 1 < j + 1
      /\ Elements(p) = {x} \cup Elements(t)
  BY <1>1, TailIs
<1>3. \A a \in A : <<x, a>> \in R
  OBVIOUS
<1> HIDE DEF x, t
<1>4. Held(q, A \cup {x}, t) = Held(q, A, p)
  BY <1>2 DEF Held
<1>5. Lined(R, q, A \cup {x}, t)
  <2>1. \A j, k \in DOMAIN q : j < k => <<q[j], q[k]>> \in R
    BY <1>1 DEF Lined
  <2>2. \A j \in DOMAIN q, a \in A \cup {x} : <<q[j], a>> \in R
    BY <1>1, <1>2 DEF Lined
  <2>3. \A j \in DOMAIN q, k \in DOMAIN t : <<q[j], t[k]>> \in R
    BY <1>1, <1>2 DEF Lined
  <2>4. \A a, b \in A \cup {x} : a # b => <<a, b>> \in R
    BY <1>1, <1>2, <1>3 DEF Lined
  <2>5. \A a \in A \cup {x}, k \in DOMAIN t : <<a, t[k]>> \in R
    BY <1>1, <1>2 DEF Lined
  <2>6. \A j, k \in DOMAIN t : j < k => <<t[j], t[k]>> \in R
    BY <1>1, <1>2 DEF Lined
  <2> QED BY <2>1, <2>2, <2>3, <2>4, <2>5, <2>6 DEF Lined
<1> QED BY <1>1, <1>2, <1>4, <1>5 DEF Good, x, t

\* A task completed joins the end of the line of results.
LEMMA Completed ==
  ASSUME NEW R, NEW q, NEW A, NEW p, NEW G, NEW D, Good(R, q, A, p, G, D), NEW x \in A
  PROVE  /\ Good(R, Append(q, x), A \ {x}, p, G, D)
         /\ Held(Append(q, x), A \ {x}, p) = Held(q, A, p)
<1>1. /\ q \in Seq(Places) /\ A \subseteq Places /\ p \in Seq(Places) /\ x \in Places
      /\ Held(q, A, p) \cap G = {} /\ D \cap G = {} /\ Lined(R, q, A, p)
  BY DEF Good
<1> DEFINE z == Append(q, x)
<1>2. /\ z \in Seq(Places) /\ DOMAIN q = 1 .. Len(q) /\ Len(q) \in Nat
      /\ DOMAIN z = 1 .. Len(q) + 1
      /\ \A k \in DOMAIN q : z[k] = q[k]
      /\ z[Len(q) + 1] = x
      /\ Elements(z) = Elements(q) \cup {x}
  BY <1>1, AppendProperties, ElementsAppend
<1> HIDE DEF z
<1>3. \A k \in DOMAIN z : (k \in DOMAIN q /\ z[k] = q[k]) \/ (k = Len(q) + 1 /\ z[k] = x)
  BY <1>2
<1>4. \A j, k \in DOMAIN z : j < k => j \in DOMAIN q
  BY <1>2
<1>5. Held(z, A \ {x}, p) = Held(q, A, p)
  BY <1>2 DEF Held
<1>6. Lined(R, z, A \ {x}, p)
  <2>1. \A j, k \in DOMAIN z : j < k => <<z[j], z[k]>> \in R
    <3> SUFFICES ASSUME NEW j \in DOMAIN z, NEW k \in DOMAIN z, j < k
                 PROVE  <<z[j], z[k]>> \in R
      OBVIOUS
    <3>1. j \in DOMAIN q /\ z[j] = q[j]
      BY <1>2, <1>4
    <3>2. CASE k \in DOMAIN q
      BY <1>1, <1>2, <3>1, <3>2 DEF Lined
    <3>3. CASE k = Len(q) + 1
      BY <1>1, <1>2, <3>1, <3>3 DEF Lined
    <3> QED BY <1>3, <3>2, <3>3
  <2>2. \A j \in DOMAIN z, a \in A \ {x} : <<z[j], a>> \in R
    BY <1>1, <1>3 DEF Lined
  <2>3. \A j \in DOMAIN z, k \in DOMAIN p : <<z[j], p[k]>> \in R
    BY <1>1, <1>3 DEF Lined
  <2>4. /\ \A a, b \in A \ {x} : a # b => <<a, b>> \in R
        /\ \A a \in A \ {x}, k \in DOMAIN p : <<a, p[k]>> \in R
        /\ \A j, k \in DOMAIN p : j < k => <<p[j], p[k]>> \in R
    BY <1>1 DEF Lined
  <2> QED BY <2>1, <2>2, <2>3, <2>4 DEF Lined
<1> QED BY <1>1, <1>2, <1>5, <1>6 DEF Good, z

\* The first of the line is sent.
LEMMA SentOff ==
  ASSUME NEW R, NEW q, NEW A, NEW p, NEW G, Good(R, q, A, p, G, {}), q # <<>>,
         \A x \in Places : <<x, x>> \notin R
  PROVE  /\ Good(R, Tail(q), A, p, G \cup {Head(q)}, {})
         /\ Held(Tail(q), A, p) = Held(q, A, p) \ {Head(q)}
         /\ Head(q) \in Held(q, A, p)
         /\ \A y \in Held(Tail(q), A, p) : <<Head(q), y>> \in R
<1>1. /\ q \in Seq(Places) /\ A \subseteq Places /\ p \in Seq(Places)
      /\ Held(q, A, p) \cap G = {} /\ Lined(R, q, A, p)
  BY DEF Good
<1> DEFINE x == Head(q)
           t == Tail(q)
<1>2. /\ x \in Places /\ t \in Seq(Places) /\ 1 \in DOMAIN q /\ x = q[1]
      /\ \A i \in DOMAIN t : i + 1 \in DOMAIN q /\ 1 < i + 1 /\ t[i] = q[i + 1]
      /\ \A i, j \in DOMAIN t : i < j => i + 1 < j + 1
      /\ Elements(q) = {x} \cup Elements(t)
  BY <1>1, TailIs
<1> HIDE DEF x, t
<1>3. \A y \in Held(t, A, p) : <<x, y>> \in R
  <2>1. \A k \in DOMAIN t : <<x, t[k]>> \in R
    BY <1>1, <1>2 DEF Lined
  <2>2. \A a \in A : <<x, a>> \in R
    BY <1>1, <1>2 DEF Lined
  <2>3. \A k \in DOMAIN p : <<x, p[k]>> \in R
    BY <1>1, <1>2 DEF Lined
  <2> QED BY <2>1, <2>2, <2>3 DEF Held, Elements
<1>4. x \notin Held(t, A, p)
  BY <1>2, <1>3
<1>5. Held(t, A, p) = Held(q, A, p) \ {x} /\ x \in Held(q, A, p)
  BY <1>2, <1>4 DEF Held
<1>6. Lined(R, t, A, p)
  <2>1. \A j, k \in DOMAIN t : j < k => <<t[j], t[k]>> \in R
    BY <1>1, <1>2 DEF Lined
  <2>2. /\ \A j \in DOMAIN t, a \in A : <<t[j], a>> \in R
        /\ \A j \in DOMAIN t, k \in DOMAIN p : <<t[j], p[k]>> \in R
    BY <1>1, <1>2 DEF Lined
  <2>3. /\ \A a, b \in A : a # b => <<a, b>> \in R
        /\ \A a \in A, k \in DOMAIN p : <<a, p[k]>> \in R
        /\ \A j, k \in DOMAIN p : j < k => <<p[j], p[k]>> \in R
    BY <1>1 DEF Lined
  <2> QED BY <2>1, <2>2, <2>3 DEF Lined
<1> QED BY <1>1, <1>2, <1>3, <1>5, <1>6 DEF Good, x, t

\* The pool is freed, and drops what is left.
LEMMA DroppedAll ==
  ASSUME NEW R, NEW q, NEW p, NEW G, NEW D, Good(R, q, {}, p, G, D)
  PROVE  /\ Good(R, <<>>, {}, <<>>, G, D \cup Elements(q) \cup Elements(p))
         /\ Held(<<>>, {}, <<>>) = {}
         /\ Held(q, {}, p) = Elements(q) \cup Elements(p)
<1>1. Held(q, {}, p) \cap G = {} /\ D \cap G = {}
  BY DEF Good
<1>2. <<>> \in Seq(Places) /\ DOMAIN <<>> = {} /\ Elements(<<>>) = {}
  BY DEF Elements
<1>3. Held(<<>>, {}, <<>>) = {} /\ Held(q, {}, p) = Elements(q) \cup Elements(p)
  BY <1>2 DEF Held
<1>4. Lined(R, <<>>, {}, <<>>)
  BY <1>2 DEF Lined
<1> QED BY <1>1, <1>2, <1>3, <1>4 DEF Good

-----------------------------------------------------------------------------
(* What stays when a step leaves the places of events alone *)

LEMMA PoolNames ==
  /\ \A q : O!Image(q) = Elements(q)
  /\ \A q : U!Image(q) = Elements(q)
<1>1. \A q : O!Image(q) = Elements(q)
  BY DEF O!Image, Elements
<1>2. \A q : U!Image(q) = Elements(q)
  BY DEF U!Image, Elements
<1> QED BY <1>1, <1>2

LEMMA Relations ==
  ASSUME NEW x \in Places, NEW y \in Places
  PROVE  /\ <<x, y>> \in Before <=> x < y
         /\ <<x, y>> \in Apart <=> x # y
  BY DEF Before, Apart

LEMMA PlacesAre == MaxEvents \in Nat /\ Places = 1 .. MaxEvents /\ Places \subseteq Nat
  BY StreamsAssumption DEF Places

\* Events are only added, at the end.
Longer == /\ Len(written) <= Len(written')
          /\ \A i \in 1 .. Len(written) : written'[i] = written[i]

SameOut == \A s \in Streams : stream'[s].out = stream[s].out

LEMMA HandledIs ==
  ASSUME StoreTypes
  PROVE  /\ handled \in Nat /\ Len(read) \in Nat /\ Len(written) \in Nat
         /\ handled <= Len(read) /\ Len(read) <= Len(written)
         /\ \A i \in 1 .. handled : i \in 1 .. Len(written) /\ i \in Places
                                      /\ read[i] = written[i]
<1>1. Len(read) \in Nat /\ Len(written) \in Nat
  BY DEF StoreTypes
<1> QED BY <1>1, PlacesAre DEF StoreTypes

LEMMA LongerIs ==
  ASSUME StoreTypes, Longer
  PROVE  \A i \in 1 .. handled : written'[i] = written[i]
  BY HandledIs DEF Longer

LEMMA AccountsStay ==
  ASSUME StoreTypes, Accounts, Longer,
         UNCHANGED <<oHeld, oGone, oDiscarded, uHeld, uGone, uDiscarded, uOutcome>>,
         UNCHANGED <<handled, threaded>>,
         \A i \in Elements(uLine') : uOutcome[i] = "executed"
  PROVE  Accounts'
<1>1. oKnown' = oKnown /\ uKnown' = uKnown
  BY DEF oKnown, uKnown
<1>2. \A i \in 1 .. handled : written'[i] = written[i]
  BY LongerIs
<1>3. \A i \in oKnown' : i \in 1 .. handled' /\ written'[i].stream \in Streaming
  BY <1>1, <1>2 DEF Accounts
<1>4. \A i \in uKnown' : i \in 1 .. handled' /\ written'[i].stream \in Unary /\ ~Refused(written'[i])
  BY <1>1, <1>2 DEF Accounts
<1>5. threaded' => \A i \in 1 .. handled' : ~Refused(written'[i]) => i \in oKnown' \cup uKnown'
  BY <1>1, <1>2 DEF Accounts
<1>6. /\ \A i \in Places : uOutcome'[i] = "executed" => i \in uKnown'
      /\ \A i \in Elements(uLine') \cup uGone' : uOutcome'[i] = "executed"
  BY <1>1 DEF Accounts
<1> QED BY <1>3, <1>4, <1>5, <1>6 DEF Accounts

LEMMA ListsStay ==
  ASSUME StoreTypes, Lists, Longer,
         UNCHANGED <<oGone, uGone, uOutcome, handled, freed>>
  PROVE  Lists'
<1> SUFFICES ASSUME NEW i \in Places
             PROVE  Released(i)' <=> Released(i)
  BY DEF Lists
<1>1. CASE i <= handled
  <2>1. i \in 1 .. handled
    BY <1>1, HandledIs, PlacesAre
  <2>2. written'[i] = written[i]
    BY <2>1, LongerIs
  <2>3. FreedByCallback(i)' <=> FreedByCallback(i)
    BY <2>2 DEF FreedByCallback
  <2> QED BY <2>3 DEF Released
<1>2. CASE ~(i <= handled)
  BY <1>2 DEF Released
<1> QED BY <1>1, <1>2

LEMMA RepliesStay ==
  ASSUME StoreTypes, Accounts, Replies, Longer, SameOut, handled' = handled,
         oHeld' \subseteq oHeld, uHeld' \subseteq uHeld
  PROVE  Replies'
<1> SUFFICES ASSUME NEW s \in Streams
             PROVE  /\ InOrder(stream[s].out, s)'
                    /\ \A k \in DOMAIN stream'[s].out :
                         stream'[s].out[k] # Trailers => Answers(stream[s].out[k], s)'
  BY DEF Replies, InOrder, Answers
<1> DEFINE out == stream[s].out
<1>1. stream'[s].out = out
  BY DEF SameOut
<1>2. \A i \in 1 .. handled : written'[i] = written[i]
  BY LongerIs
<1>3. /\ InOrder(out, s)
      /\ \A k \in DOMAIN out : out[k] # Trailers => Answers(out[k], s)
  BY DEF Replies
<1>4. \A i \in oHeld' \cup uHeld' : i \in 1 .. handled /\ i \in oHeld \cup uHeld
  BY DEF Accounts, oKnown, uKnown
<1>5. ASSUME NEW k \in DOMAIN out, out[k] # Trailers
      PROVE  Answers(stream[s].out[k], s)'
  <2>1. /\ out[k] \in 1 .. handled /\ written[out[k]].stream = s
        /\ \A i \in oHeld \cup uHeld : written[i].stream = s => out[k] < i
    BY <1>3, <1>5 DEF Answers
  <2>2. written'[out[k]].stream = s
    BY <1>2, <2>1
  <2>3. \A i \in oHeld' \cup uHeld' : written'[i].stream = s => out[k] < i
    BY <1>2, <1>4, <2>1
  <2> QED BY <1>1, <2>1, <2>2, <2>3 DEF Answers
<1>6. \A k \in DOMAIN out : out[k] # Trailers => written'[out[k]].stream = s
  BY <1>2, <1>3 DEF Answers
<1>7. InOrder(stream[s].out, s)'
  BY <1>1, <1>3, <1>6 DEF InOrder
<1> QED BY <1>1, <1>5, <1>7

LEMMA EndsStay ==
  ASSUME StoreTypes, Ends, written' = written,
         \A s \in Streams : stream[s].closed => stream'[s].closed
  PROVE  Ends'
<1>1. \A i \in 1 .. Len(written) : written[i].stream \in Streams
  BY DEF StoreTypes, Reported, Reports, Event
<1> QED BY <1>1 DEF Ends

\* The pools, seen through their lines, stay as they are.
PoolsStand ==
    UNCHANGED <<oLine, oActive, oPending, oGone, oDiscarded,
                uLine, uActive, uPending, uGone, uDiscarded, uOutcome>>

LEMMA StandKeeps ==
  ASSUME IInv, PoolsStand, Types', Stations', Sending', Ends',
         UNCHANGED <<handled, threaded, freed>>, Longer, SameOut
  PROVE  IInv'
<1>1. /\ StoreTypes /\ Accounts /\ Lists /\ Replies
      /\ Good(Before, oLine, oActive, oPending, oGone, oDiscarded)
      /\ Good(Apart, uLine, uActive, uPending, uGone, uDiscarded)
  BY DEF IInv, Types
<1>2. UNCHANGED <<oHeld, oGone, oDiscarded, uHeld, uGone, uDiscarded, uOutcome, uLine>>
  BY DEF PoolsStand, oHeld, uHeld
<1>3. /\ Good(Before, oLine, oActive, oPending, oGone, oDiscarded)'
      /\ Good(Apart, uLine, uActive, uPending, uGone, uDiscarded)'
  BY <1>1 DEF PoolsStand, Good, Held, Lined, Before, Apart, Elements
<1>4. Accounts'
  BY <1>1, <1>2, AccountsStay DEF Accounts
<1>5. Lists'
  BY <1>1, <1>2, ListsStay
<1>6. Replies'
  BY <1>1, <1>2, RepliesStay
<1> QED BY <1>3, <1>4, <1>5, <1>6 DEF IInv

\* ... as they do when neither they nor the results to be sent change.
LEMMA PoolsStay ==
  ASSUME UNCHANGED <<oVars, uVars, results>>, Sending,
         pc' = pc \/ results = <<>>
  PROVE  PoolsStand /\ Sending' /\ UNCHANGED <<oHeld, uHeld, PoolsEmpty>>
<1>1. UNCHANGED <<oPending, oActive, oDone, oDelivered, oDiscarded,
                  uPending, uActive, uDone, uDelivered, uDiscarded, uOutcome>>
  BY DEF oVars, uVars
<1>2. oRes' = oRes /\ uRes' = uRes
  BY DEF oRes, uRes
<1>3. PoolsStand
  BY <1>1, <1>2 DEF PoolsStand, oLine, uLine, oGone, uGone
<1>4. Sending'
  BY <1>1, <1>2 DEF Sending
<1>5. UNCHANGED <<oHeld, uHeld, PoolsEmpty>>
  BY <1>1, <1>3 DEF PoolsStand, oHeld, uHeld, PoolsEmpty
<1> QED BY <1>3, <1>4, <1>5

\* A step of the loop that only moves on, or changes what nghttp2 has.
LEMMA QuietKeeps ==
  ASSUME IInv, UNCHANGED <<oVars, uVars, results, handled, threaded, freed>>,
         pc' = pc \/ results = <<>>,
         StoreTypes', stream' \in [Streams -> StreamState], Longer, SameOut, Ends',
         UNCHANGED <<oHeld, uHeld, PoolsEmpty>> => Stations'
  PROVE  IInv'
<1>1. PoolsStand /\ Sending' /\ UNCHANGED <<oHeld, uHeld, PoolsEmpty>>
  BY PoolsStay DEF IInv
<1>2. OrderedTypes' /\ UnorderedTypes' /\ LoopTypes'
  BY DEF IInv, Types, OrderedTypes, UnorderedTypes, LoopTypes, oVars, uVars
<1> QED BY <1>1, <1>2, StandKeeps DEF Types

LEMMA SameStore ==
  ASSUME IInv, written' = written, read' = read, handled' = handled
  PROVE  StoreTypes' /\ Longer
<1>1. StoreTypes'
  BY DEF IInv, Types, StoreTypes
<1>2. Len(written) \in Nat
  BY HandledIs DEF IInv, Types
<1> QED BY <1>1, <1>2 DEF Longer

LEMMA SameStream ==
  ASSUME IInv, stream' = stream, written' = written
  PROVE  stream' \in [Streams -> StreamState] /\ SameOut /\ Ends'
<1>1. stream' \in [Streams -> StreamState] /\ SameOut
  BY DEF IInv, Types, LoopTypes, SameOut
<1>2. Ends'
  BY EndsStay DEF IInv, Types
<1> QED BY <1>1, <1>2

LEMMA LoopTopKeeps ==
  ASSUME IInv, LoopTop
  PROVE  IInv'
<1>1. /\ UNCHANGED <<oVars, uVars, results, handled, threaded, freed>>
      /\ written' = written /\ read' = read /\ stream' = stream /\ pc = "top"
  BY DEF LoopTop, store
<1>2. results = <<>>
  BY <1>1 DEF IInv, Stations
<1>3. UNCHANGED <<oHeld, uHeld, PoolsEmpty>> => Stations'
  <2> SUFFICES ASSUME UNCHANGED <<oHeld, uHeld, PoolsEmpty>>
               PROVE  Stations'
    OBVIOUS
  <2>1. /\ oDiscarded' = oDiscarded /\ uDiscarded' = uDiscarded
        /\ Stations
    BY <1>1 DEF oVars, uVars, IInv
  <2>2. CASE threaded /\ sigterm
    BY <1>1, <2>1, <2>2 DEF LoopTop, Stations
  <2>3. CASE ~(threaded /\ sigterm)
    <3>1. pc' = "polling" /\ long' = (threaded => PoolsEmpty)
      BY <2>3 DEF LoopTop
    <3> QED BY <1>1, <2>1, <3>1 DEF Stations
  <2> QED BY <2>2, <2>3
<1> QED BY <1>1, <1>2, <1>3, SameStore, SameStream, QuietKeeps

LEMMA PollReturnsKeeps ==
  ASSUME IInv, PollReturns
  PROVE  IInv'
<1>1. /\ UNCHANGED <<oVars, uVars, results, handled, threaded, freed, long>>
      /\ written' = written /\ read' = read /\ stream' = stream /\ pc = "polling"
      /\ pc' \in {"events", "ordered", "top"} /\ (~threaded => pc' # "ordered")
  BY DEF PollReturns, store
<1>2. results = <<>>
  BY <1>1 DEF IInv, Stations
<1>3. UNCHANGED <<oHeld, uHeld, PoolsEmpty>> => Stations'
  BY <1>1, <1>2 DEF oVars, uVars, IInv, Stations
<1> QED BY <1>1, <1>2, <1>3, SameStore, SameStream, QuietKeeps

LEMMA PollFailsKeeps ==
  ASSUME IInv, PollFails
  PROVE  IInv'
<1>1. /\ UNCHANGED <<oVars, uVars, results, handled, threaded, freed, long>>
      /\ written' = written /\ read' = read /\ stream' = stream /\ pc = "polling"
      /\ pc' = "exit"
  BY DEF PollFails, store
<1>2. results = <<>>
  BY <1>1 DEF IInv, Stations
<1>3. UNCHANGED <<oHeld, uHeld, PoolsEmpty>> => Stations'
  BY <1>1, <1>2 DEF oVars, uVars, IInv, Stations
<1> QED BY <1>1, <1>2, <1>3, SameStore, SameStream, QuietKeeps

LEMMA ResultsDoneKeeps ==
  ASSUME IInv, ResultsDone
  PROVE  IInv'
<1>1. /\ UNCHANGED <<oVars, uVars, results, handled, threaded, freed, long>>
      /\ written' = written /\ read' = read /\ stream' = stream
      /\ pc \in {"answer ordered", "answer unordered"} /\ results = <<>>
      /\ pc' \in {"unordered", "top"}
  BY DEF ResultsDone, store
<1>2. UNCHANGED <<oHeld, uHeld, PoolsEmpty>> => Stations'
  BY <1>1 DEF oVars, uVars, IInv, Stations
<1> QED BY <1>1, <1>2, SameStore, SameStream, QuietKeeps

\* What holds where the loop is holds as long as it stays there.
LEMMA StationsStay ==
  ASSUME Stations, UNCHANGED <<oHeld, uHeld, PoolsEmpty>>,
         UNCHANGED <<oDiscarded, uDiscarded, results, threaded, long>>, pc' = pc
  PROVE  Stations'
<1>1. /\ pc' \in {"top", "polling", "events", "ordered", "answer ordered", "unordered",
                 "answer unordered", "exit", "free ordered", "free unordered", "over"}
      /\ ~threaded' => pc' \in {"top", "polling", "events", "exit", "over"}
      /\ ~threaded' => oHeld' = {} /\ uHeld' = {}
  BY DEF Stations
<1>2. /\ pc' \notin {"answer ordered", "answer unordered"} => results' = <<>>
      /\ threaded' /\ pc' = "polling" /\ long' => PoolsEmpty'
  BY DEF Stations
<1>3. /\ IF pc' \in {"free unordered", "over"} THEN oHeld' = {} ELSE oDiscarded' = {}
      /\ IF pc' = "over" THEN uHeld' = {} ELSE uDiscarded' = {}
  BY DEF Stations
<1> QED BY <1>1, <1>2, <1>3 DEF Stations

LEMMA SignalKeeps ==
  ASSUME IInv, SignalHandler
  PROVE  IInv'
<1>1. /\ UNCHANGED <<oVars, uVars, results, handled, threaded, freed, long>>
      /\ written' = written /\ read' = read /\ stream' = stream /\ pc' = pc
  BY DEF SignalHandler, store
<1>2. UNCHANGED <<oHeld, uHeld, PoolsEmpty>> => Stations'
  BY <1>1, StationsStay DEF oVars, uVars, IInv
<1> QED BY <1>1, <1>2, SameStore, SameStream, QuietKeeps

LEMMA StutterKeeps ==
  ASSUME IInv, UNCHANGED vars
  PROVE  IInv'
<1>1. /\ UNCHANGED <<oVars, uVars, results, handled, threaded, freed, long>>
      /\ written' = written /\ read' = read /\ stream' = stream /\ pc' = pc
  BY DEF vars, oVars, uVars
<1>2. UNCHANGED <<oHeld, uHeld, PoolsEmpty>> => Stations'
  BY <1>1, StationsStay DEF oVars, uVars, IInv
<1> QED BY <1>1, <1>2, SameStore, SameStream, QuietKeeps

\* Reading the next block hands out events in the order they were written.
LEMMA EventsReadKeeps ==
  ASSUME IInv, EventsRead
  PROVE  IInv'
<1>1. /\ UNCHANGED <<oVars, uVars, results, handled, threaded, freed, long>>
      /\ stream' = stream /\ pc = "events"
      /\ pc' \in {"events", "ordered", "top"} /\ (~threaded => pc' # "ordered")
  BY DEF EventsRead
<1>2. results = <<>> /\ StoreTypes
  BY <1>1 DEF IInv, Stations, Types
<1>3. /\ written' = written
      /\ \/ read' = read
         \/ \E n \in Len(read) + 1 .. Len(written) : read' = SubSeq(written, 1, n)
  BY DEF EventsRead, E!Read, store
<1>4. StoreTypes'
  <2>1. CASE read' = read
    BY <1>1, <1>2, <1>3, <2>1 DEF StoreTypes
  <2>2. CASE \E n \in Len(read) + 1 .. Len(written) : read' = SubSeq(written, 1, n)
    <3>1. PICK n \in Len(read) + 1 .. Len(written) : read' = SubSeq(written, 1, n)
      BY <2>2
    <3>2. /\ Len(read) \in Nat /\ Len(written) \in Nat /\ handled \in Nat /\ handled <= Len(read)
          /\ written \in Seq(Reported) /\ n \in Nat /\ n <= Len(written)
      BY <1>2, HandledIs DEF StoreTypes
    <3> DEFINE r == SubSeq(written, 1, n)
    <3>3. r \in Seq(Reported) /\ Len(r) = n /\ \A i \in 1 .. n : r[i] = written[i]
      BY <3>2
    <3> HIDE DEF r
    <3>4. handled \in 0 .. n
      BY <3>2
    <3>5. read' = r /\ handled' = handled
      BY <1>1, <3>1 DEF r
    <3> QED BY <1>2, <1>3, <3>2, <3>3, <3>4, <3>5 DEF StoreTypes
  <2> QED BY <1>3, <2>1, <2>2
<1>5. Longer
  BY <1>2, <1>3, HandledIs DEF Longer
<1>6. UNCHANGED <<oHeld, uHeld, PoolsEmpty>> => Stations'
  BY <1>1, <1>2 DEF oVars, uVars, IInv, Stations
<1> QED BY <1>1, <1>2, <1>3, <1>4, <1>5, <1>6, SameStream, QuietKeeps

-----------------------------------------------------------------------------
(* nghttp2's streams *)

LEMMA FieldsOf ==
  ASSUME NEW x \in StreamState
  PROVE  /\ x.is \in {"open", "finished", "gone", "broken"} /\ x.closed \in BOOLEAN
         /\ x.out \in Seq(Nat)
  BY DEF StreamState

LEMMA SetIs ==
  ASSUME NEW x \in StreamState, NEW w \in {"open", "finished", "gone", "broken"}
  PROVE  LET y == [x EXCEPT !.is = w]
         IN  y \in StreamState /\ y.closed = x.closed /\ y.out = x.out
<1> DEFINE y == [x EXCEPT !.is = w]
<1>1. y \in StreamState
  BY DEF StreamState
<1>2. y.closed = x.closed /\ y.out = x.out
  BY DEF StreamState
<1> QED BY <1>1, <1>2, Zenon

LEMMA SetClosed ==
  ASSUME NEW x \in StreamState, NEW c \in BOOLEAN
  PROVE  LET y == [x EXCEPT !.closed = c]
         IN  y \in StreamState /\ y.closed = c /\ y.out = x.out
<1> DEFINE y == [x EXCEPT !.closed = c]
<1>1. y \in StreamState
  BY DEF StreamState
<1>2. y.closed = c /\ y.out = x.out
  BY DEF StreamState
<1> QED BY <1>1, <1>2, Zenon

LEMMA SetOut ==
  ASSUME NEW x \in StreamState, NEW o \in Seq(Nat)
  PROVE  LET y == [x EXCEPT !.out = o]
         IN  y \in StreamState /\ y.closed = x.closed /\ y.out = o
<1> DEFINE y == [x EXCEPT !.out = o]
<1>1. y \in StreamState
  BY DEF StreamState
<1>2. y.closed = x.closed /\ y.out = o
  BY DEF StreamState
<1> QED BY <1>1, <1>2, Zenon

LEMMA SettledIs ==
  ASSUME NEW x \in StreamState
  PROVE  /\ Settled(x) \in StreamState
         /\ Settled(x).closed = x.closed /\ Settled(x).out = x.out
<1> DEFINE y == [x EXCEPT !.is = "finished"]
<1>1. Settled(x) = x \/ Settled(x) = y
  BY DEF Settled
<1>2. y \in StreamState /\ y.closed = x.closed /\ y.out = x.out
  BY SetIs
<1> HIDE DEF y
<1> QED BY <1>1, <1>2

\* One stream is replaced by another with the same answers.
LEMMA OneStream ==
  ASSUME NEW s \in Streams, NEW y \in StreamState,
         stream \in [Streams -> StreamState], stream' = [stream EXCEPT ![s] = y]
  PROVE  /\ stream' \in [Streams -> StreamState] /\ stream'[s] = y
         /\ \A u \in Streams : u # s => stream'[u] = stream[u]
  OBVIOUS

LEMMA CancelsKeeps ==
  ASSUME IInv, NEW s \in Streams, Cancels(s)
  PROVE  IInv'
<1>1. /\ UNCHANGED <<oVars, uVars, results, handled, threaded, freed, long>>
      /\ written' = written /\ read' = read /\ pc' = pc
  BY DEF Cancels, store
<1>2. stream \in [Streams -> StreamState] /\ StoreTypes /\ Ends
  BY DEF IInv, Types, LoopTypes
<1> DEFINE y == [stream[s] EXCEPT !.is = "gone"]
<1>3. stream' = [stream EXCEPT ![s] = y]
  BY DEF Cancels
<1>4. y \in StreamState /\ y.closed = stream[s].closed /\ y.out = stream[s].out
  BY <1>2, SetIs
<1> HIDE DEF y
<1>5. /\ stream' \in [Streams -> StreamState] /\ SameOut
      /\ \A u \in Streams : stream[u].closed => stream'[u].closed
  BY <1>2, <1>3, <1>4, OneStream DEF SameOut
<1>6. Ends'
  BY <1>1, <1>2, <1>5, EndsStay
<1>7. UNCHANGED <<oHeld, uHeld, PoolsEmpty>> => Stations'
  BY <1>1, StationsStay DEF oVars, uVars, IInv
<1> QED BY <1>1, <1>5, <1>6, <1>7, SameStore, QuietKeeps

\* The session takes its streams with it.
LEMMA GoneKeeps ==
  ASSUME IInv, written' = written, NEW W \in SUBSET {"open", "finished", "gone", "broken"},
         stream' = [s \in Streams |-> IF stream[s].is \in W
                                      THEN [stream[s] EXCEPT !.is = "gone"] ELSE stream[s]]
  PROVE  stream' \in [Streams -> StreamState] /\ SameOut /\ Ends'
<1>1. stream \in [Streams -> StreamState] /\ StoreTypes /\ Ends
  BY DEF IInv, Types, LoopTypes
<1>2. ASSUME NEW s \in Streams
      PROVE  /\ stream'[s] \in StreamState
             /\ stream'[s].out = stream[s].out /\ stream'[s].closed = stream[s].closed
  <2> DEFINE y == [stream[s] EXCEPT !.is = "gone"]
  <2>1. stream'[s] = y \/ stream'[s] = stream[s]
    OBVIOUS
  <2>2. stream[s] \in StreamState
    BY <1>1
  <2>3. y \in StreamState /\ y.closed = stream[s].closed /\ y.out = stream[s].out
    BY <2>2, SetIs
  <2> HIDE DEF y
  <2> QED BY <2>1, <2>2, <2>3
<1>3. stream' \in [Streams -> StreamState]
  BY <1>2
<1>4. SameOut
  BY <1>2 DEF SameOut
<1>5. Ends'
  BY <1>1, <1>2, EndsStay
<1> QED BY <1>3, <1>4, <1>5

LEMMA SessionLostKeeps ==
  ASSUME IInv, SessionLost
  PROVE  IInv'
<1>1. /\ UNCHANGED <<oVars, uVars, results, handled, threaded, freed, long>>
      /\ written' = written /\ read' = read /\ pc' = pc
  BY DEF SessionLost, store
<1>2. stream' = [s \in Streams |-> IF stream[s].is \in {"open", "broken"}
                                   THEN [stream[s] EXCEPT !.is = "gone"] ELSE stream[s]]
  BY DEF SessionLost
<1>3. stream' \in [Streams -> StreamState] /\ SameOut /\ Ends'
  BY <1>1, <1>2, GoneKeeps
<1>4. UNCHANGED <<oHeld, uHeld, PoolsEmpty>> => Stations'
  BY <1>1, StationsStay DEF oVars, uVars, IInv
<1> QED BY <1>1, <1>3, <1>4, SameStore, QuietKeeps

LEMMA ServerFreeKeeps ==
  ASSUME IInv, ServerFree
  PROVE  IInv'
<1>1. /\ UNCHANGED <<oVars, uVars, results, handled, threaded, freed, long>>
      /\ written' = written /\ read' = read /\ pc = "exit"
      /\ pc' = IF threaded THEN "free ordered" ELSE "over"
  BY DEF ServerFree, store
<1>2. stream' = [s \in Streams |-> IF stream[s].is \in {"open"}
                                   THEN [stream[s] EXCEPT !.is = "gone"] ELSE stream[s]]
  BY DEF ServerFree
<1>3. stream' \in [Streams -> StreamState] /\ SameOut /\ Ends'
  BY <1>1, <1>2, GoneKeeps
<1>4. results = <<>>
  BY <1>1 DEF IInv, Stations
<1>5. UNCHANGED <<oHeld, uHeld, PoolsEmpty>> => Stations'
  BY <1>1, <1>4 DEF oVars, uVars, IInv, Stations
<1> QED BY <1>1, <1>3, <1>4, <1>5, SameStore, QuietKeeps

\* A request to a unary service that is not refused ends its stream.
LEMMA ReportIs ==
  ASSUME NEW s, NEW e \in Reports(s)
  PROVE  /\ e.stream = s /\ e.end \in BOOLEAN
         /\ s \in Unary /\ ~Refused(e) => e.end
         /\ e.kind = "message" \/ e.kind = "dataloss"
<1>1. \/ e = Event(s, "message", 1, FALSE)
      \/ e = Event(s, "message", 1, TRUE)
      \/ e = Event(s, "dataloss", 0, TRUE)
      \/ e = Event(s, "message", 2, TRUE)
  <2>1. \/ e \in {Event(s, "message", 1, FALSE), Event(s, "message", 1, TRUE),
                   Event(s, "dataloss", 0, TRUE)}
        \/ e \in {Event(s, "message", 2, TRUE) : u \in Unary \cap {s}}
    BY Zenon DEF Reports
  <2> QED BY <2>1
<1>2. e.stream = s /\ e.end \in BOOLEAN
  <2>1. \E k, n : \E c \in BOOLEAN : e = Event(s, k, n, c)
    BY <1>1
  <2> QED BY <2>1 DEF Event
<1>3. ~e.end => e.kind = "message"
  BY <1>1 DEF Event
<1>4. e.kind = "message" \/ e.kind = "dataloss"
  BY <1>1 DEF Event
<1> QED BY <1>2, <1>3, <1>4 DEF Refused

\* An event may arrive as long as its stream has not ended.
LEMMA ArrivesKeeps ==
  ASSUME IInv, NEW s \in Streams, NEW e \in Reports(s), Arrives(s, e)
  PROVE  IInv'
<1>1. /\ UNCHANGED <<oVars, uVars, results, handled, threaded, freed, long>>
      /\ written' = Append(written, e) /\ read' = read /\ pc' = pc
      /\ Len(written) < MaxEvents /\ ~stream[s].closed
  BY DEF Arrives, E!Write
<1>2. stream \in [Streams -> StreamState] /\ StoreTypes /\ Ends /\ written \in Seq(Reported)
  BY DEF IInv, Types, LoopTypes, StoreTypes
<1>3. e.stream = s /\ e.end \in BOOLEAN /\ e \in Reported
  <2>1. e.stream = s /\ e.end \in BOOLEAN
    BY ReportIs
  <2>2. e \in Reported
    BY DEF Reported
  <2> QED BY <2>1, <2>2
<1> DEFINE n == Len(written)
<1>4. /\ n \in Nat /\ written' \in Seq(Reported) /\ Len(written') = n + 1
      /\ \A i \in 1 .. n : written'[i] = written[i]
      /\ written'[n + 1] = e
  BY <1>1, <1>2, <1>3, AppendProperties
<1>5. Longer
  BY <1>4 DEF Longer
<1>6. StoreTypes'
  <2>1. Len(read) \in Nat /\ Len(read) <= n
    BY <1>2, HandledIs
  <2> HIDE DEF n
  <2>2. Len(written') <= MaxEvents /\ Len(read') <= Len(written')
    BY <1>1, <1>4, <2>1, PlacesAre DEF n
  <2>3. \A i \in 1 .. Len(read') : read'[i] = written'[i]
    BY <1>1, <1>2, <1>4, <2>1 DEF StoreTypes, n
  <2> QED BY <1>1, <1>2, <1>4, <2>2, <2>3 DEF StoreTypes
<1> DEFINE x == [stream[s] EXCEPT !.closed = e.end]
           y == Settled(x)
<1>7. stream' = [stream EXCEPT ![s] = y]
  BY DEF Arrives
<1>8. y \in StreamState /\ y.closed = e.end /\ y.out = stream[s].out
  <2>1. x \in StreamState /\ x.closed = e.end /\ x.out = stream[s].out
    BY <1>2, <1>3, SetClosed
  <2> HIDE DEF x
  <2> QED BY <2>1, SettledIs
<1> HIDE DEF y
<1>9. /\ stream' \in [Streams -> StreamState] /\ SameOut /\ stream'[s].closed = e.end
      /\ \A u \in Streams : u # s => stream'[u].closed = stream[u].closed
  BY <1>2, <1>7, <1>8, OneStream DEF SameOut
<1>10. Ends'
  <2> HIDE DEF n
  <2>1. \A i \in 1 .. n : written[i].stream \in Streams
    BY <1>2 DEF Reported, Reports, Event, n
  <2>2. \A i \in 1 .. n : written[i].end => stream[written[i].stream].closed /\ written[i].stream # s
    BY <1>1, <1>2 DEF Ends, n
  <2>3. \A i \in 1 .. n + 1 : i \in 1 .. n \/ i = n + 1
    BY <1>4
  <2>4. ASSUME NEW i \in 1 .. n + 1, written'[i].end
        PROVE  stream'[written'[i].stream].closed
    <3>1. CASE i \in 1 .. n
      BY <1>4, <1>9, <2>1, <2>2, <2>4, <3>1
    <3>2. CASE i = n + 1
      BY <1>3, <1>4, <1>9, <2>4, <3>2
    <3> QED BY <2>3, <3>1, <3>2
  <2>5. ASSUME NEW i \in 1 .. n + 1, NEW j \in 1 .. n + 1, i < j,
               written'[i].stream = written'[j].stream
        PROVE  ~written'[i].end
    <3>1. i \in 1 .. n
      BY <1>4, <2>5
    <3>2. CASE j \in 1 .. n
      BY <1>2, <1>4, <2>5, <3>1, <3>2 DEF Ends, n
    <3>3. CASE j = n + 1
      BY <1>3, <1>4, <2>2, <2>5, <3>1, <3>3
    <3> QED BY <2>3, <3>2, <3>3
  <2> QED BY <1>4, <2>4, <2>5 DEF Ends
<1>11. UNCHANGED <<oHeld, uHeld, PoolsEmpty>> => Stations'
  BY <1>1, StationsStay DEF oVars, uVars, IInv
<1> QED BY <1>1, <1>5, <1>6, <1>9, <1>10, <1>11, QuietKeeps

-----------------------------------------------------------------------------
(* Collecting results *)

LEMMA Empty == <<>> \in Seq(Places) /\ Elements(<<>>) = {} /\ DOMAIN <<>> = {}
  BY DEF Elements

\* A poll takes the results, which stay where they are in the line.
LEMMA PollOrderedKeeps ==
  ASSUME IInv, PollOrdered
  PROVE  IInv'
<1>1. /\ UNCHANGED <<uVars, handled, threaded, freed, oPending, oActive, oOutcome, oDiscarded>>
      /\ written' = written /\ read' = read /\ stream' = stream
      /\ pc = "ordered" /\ pc' = "answer ordered"
      /\ oDelivered' = oDelivered \o oDone /\ oDone' = <<>> /\ results' = oDone
  BY DEF PollOrdered, O!Collect, store
<1>2. /\ results = <<>> /\ Types /\ Stations /\ Sending
      /\ Good(Before, oLine, oActive, oPending, oGone, oDiscarded)
      /\ oDone \in Seq(Places) /\ oDelivered \in Seq(Places)
  BY <1>1 DEF IInv, Stations, Types, OrderedTypes
<1>3. oRes = <<>> /\ oRes' = oDone /\ uRes = <<>> /\ uRes' = <<>>
  BY <1>1 DEF oRes, uRes
<1>4. oLine = oDone /\ oLine' = oDone
  <2>1. <<>> \o oDone = oDone /\ oDone \o <<>> = oDone
    BY <1>2
  <2> QED BY <1>1, <1>3, <2>1 DEF oLine
<1>5. oGone = Elements(oDelivered)
  BY <1>3, Empty DEF oGone
<1>6. Elements(oDelivered') = Elements(oDelivered) \cup Elements(oDone)
  <2>1. Elements(oDelivered \o oDone) = Elements(oDelivered) \cup Elements(oDone)
    BY <1>2, ElementsConcat, Zenon
  <2> QED BY <1>1, <2>1
<1>7. Elements(oDelivered) \cap Elements(oDone) = {}
  BY <1>2, <1>4, <1>5 DEF Good, Held
<1>8. oGone' = oGone
  BY <1>3, <1>5, <1>6, <1>7 DEF oGone
<1>9. PoolsStand
  <2>1. UNCHANGED <<uPending, uActive, uDone, uDelivered, uDiscarded, uOutcome>>
    BY <1>1 DEF uVars
  <2>2. uLine' = uLine /\ uGone' = uGone
    BY <1>3, <2>1 DEF uLine, uGone
  <2> QED BY <1>1, <1>4, <1>8, <2>1, <2>2 DEF PoolsStand
<1>10. Sending'
  <2>1. uRes' = <<>> /\ Elements(<<>>) = {}
    BY <1>3, Empty
  <2>2. Elements(oRes') \subseteq Elements(oDelivered')
    BY <1>3, <1>6
  <2> QED BY <2>1, <2>2 DEF Sending
<1>11. Types'
  <2>1. oDelivered' \in Seq(Places) /\ oDone' \in Seq(Places)
    BY <1>1, <1>2, Empty, ConcatProperties
  <2>2. OrderedTypes' /\ UnorderedTypes' /\ LoopTypes'
    BY <1>1, <1>2, <2>1 DEF Types, OrderedTypes, UnorderedTypes, LoopTypes, uVars
  <2> QED BY <1>1, <2>2, SameStore DEF Types
<1>12. Stations'
  <2>1. oHeld' = oHeld /\ uHeld' = uHeld /\ oDiscarded' = oDiscarded /\ uDiscarded' = uDiscarded
    BY <1>9 DEF PoolsStand, oHeld, uHeld
  <2> QED BY <1>1, <1>2, <2>1 DEF Stations
<1>13. Longer /\ SameOut /\ Ends'
  BY <1>1, SameStore, SameStream
<1> QED BY <1>1, <1>9, <1>10, <1>11, <1>12, <1>13, StandKeeps

LEMMA PollUnorderedKeeps ==
  ASSUME IInv, PollUnordered
  PROVE  IInv'
<1>1. /\ UNCHANGED <<oVars, handled, threaded, freed, uPending, uActive, uOutcome, uDiscarded>>
      /\ written' = written /\ read' = read /\ stream' = stream
      /\ pc = "unordered" /\ pc' = "answer unordered"
      /\ uDelivered' = uDelivered \o uDone /\ uDone' = <<>> /\ results' = uDone
  BY DEF PollUnordered, U!Collect, store
<1>2. /\ results = <<>> /\ Types /\ Stations /\ Sending
      /\ Good(Apart, uLine, uActive, uPending, uGone, uDiscarded)
      /\ uDone \in Seq(Places) /\ uDelivered \in Seq(Places)
  BY <1>1 DEF IInv, Stations, Types, UnorderedTypes
<1>3. uRes = <<>> /\ uRes' = uDone /\ oRes = <<>> /\ oRes' = <<>>
  BY <1>1 DEF oRes, uRes
<1>4. uLine = uDone /\ uLine' = uDone
  <2>1. <<>> \o uDone = uDone /\ uDone \o <<>> = uDone
    BY <1>2
  <2> QED BY <1>1, <1>3, <2>1 DEF uLine
<1>5. uGone = Elements(uDelivered)
  BY <1>3, Empty DEF uGone
<1>6. Elements(uDelivered') = Elements(uDelivered) \cup Elements(uDone)
  <2>1. Elements(uDelivered \o uDone) = Elements(uDelivered) \cup Elements(uDone)
    BY <1>2, ElementsConcat, Zenon
  <2> QED BY <1>1, <2>1
<1>7. Elements(uDelivered) \cap Elements(uDone) = {}
  BY <1>2, <1>4, <1>5 DEF Good, Held
<1>8. uGone' = uGone
  BY <1>3, <1>5, <1>6, <1>7 DEF uGone
<1>9. PoolsStand
  <2>1. UNCHANGED <<oPending, oActive, oDone, oDelivered, oDiscarded>>
    BY <1>1 DEF oVars
  <2>2. oLine' = oLine /\ oGone' = oGone
    BY <1>3, <2>1 DEF oLine, oGone
  <2> QED BY <1>1, <1>4, <1>8, <2>1, <2>2 DEF PoolsStand
<1>10. Sending'
  <2>1. oRes' = <<>> /\ Elements(<<>>) = {}
    BY <1>3, Empty
  <2>2. Elements(uRes') \subseteq Elements(uDelivered')
    BY <1>3, <1>6
  <2> QED BY <2>1, <2>2 DEF Sending
<1>11. Types'
  <2>1. uDelivered' \in Seq(Places) /\ uDone' \in Seq(Places)
    BY <1>1, <1>2, Empty, ConcatProperties
  <2>2. OrderedTypes' /\ UnorderedTypes' /\ LoopTypes'
    BY <1>1, <1>2, <2>1 DEF Types, OrderedTypes, UnorderedTypes, LoopTypes, oVars
  <2> QED BY <1>1, <2>2, SameStore DEF Types
<1>12. Stations'
  <2>1. oHeld' = oHeld /\ uHeld' = uHeld /\ oDiscarded' = oDiscarded /\ uDiscarded' = uDiscarded
    BY <1>9 DEF PoolsStand, oHeld, uHeld
  <2> QED BY <1>1, <1>2, <2>1 DEF Stations
<1>13. Longer /\ SameOut /\ Ends'
  BY <1>1, SameStore, SameStream
<1> QED BY <1>1, <1>9, <1>10, <1>11, <1>12, <1>13, StandKeeps

-----------------------------------------------------------------------------
(* The workers *)

\* A worker moves a task along its line.
LEMMA MovesKeep ==
  ASSUME IInv, Types', ~PoolsEmpty,
         Good(Before, oLine, oActive, oPending, oGone, oDiscarded)',
         Good(Apart, uLine, uActive, uPending, uGone, uDiscarded)',
         UNCHANGED <<oHeld, oGone, oDiscarded, uHeld, uGone, uDiscarded, uOutcome>>,
         UNCHANGED <<oRes, uRes, oDelivered, uDelivered, written, stream>>,
         UNCHANGED <<handled, threaded, freed, pc, long, results>>,
         \A i \in Elements(uLine') : uOutcome[i] = "executed"
  PROVE  IInv'
<1>1. StoreTypes /\ Accounts /\ Lists /\ Replies /\ Stations /\ Sending
  BY DEF IInv, Types
<1>2. Longer /\ SameOut /\ Ends'
  <2>1. Len(written) \in Nat
    BY <1>1, HandledIs
  <2> QED BY <2>1, SameStream DEF Longer
<1>3. Accounts' /\ Lists' /\ Replies'
  <2>1. Accounts'
    BY <1>1, <1>2, AccountsStay
  <2>2. Lists'
    BY <1>1, <1>2, ListsStay
  <2>3. Replies'
    BY <1>1, <1>2, RepliesStay
  <2> QED BY <2>1, <2>2, <2>3
<1>4. Sending'
  BY <1>1 DEF Sending
<1>5. Stations'
  <2>1. ~(threaded /\ pc = "polling" /\ long)
    BY <1>1 DEF Stations
  <2>2. /\ pc' \in {"top", "polling", "events", "ordered", "answer ordered", "unordered",
                    "answer unordered", "exit", "free ordered", "free unordered", "over"}
        /\ ~threaded' => pc' \in {"top", "polling", "events", "exit", "over"}
        /\ ~threaded' => oHeld' = {} /\ uHeld' = {}
        /\ pc' \notin {"answer ordered", "answer unordered"} => results' = <<>>
    BY <1>1 DEF Stations
  <2>3. /\ IF pc' \in {"free unordered", "over"} THEN oHeld' = {} ELSE oDiscarded' = {}
        /\ IF pc' = "over" THEN uHeld' = {} ELSE uDiscarded' = {}
    BY <1>1 DEF Stations
  <2> QED BY <2>1, <2>2, <2>3 DEF Stations
<1> QED BY <1>2, <1>3, <1>4, <1>5 DEF IInv

\* Appending to what was done appends to the line.
LEMMA LineAppend ==
  ASSUME NEW r \in Seq(Places), NEW d \in Seq(Places), NEW x \in Places
  PROVE  r \o Append(d, x) = Append(r \o d, x)
<1>1. Append(d, x) = d \o <<x>>
  OBVIOUS
<1>2. r \o (d \o <<x>>) = (r \o d) \o <<x>>
  OBVIOUS
<1>3. r \o d \in Seq(Places)
  OBVIOUS
<1>4. Append(r \o d, x) = (r \o d) \o <<x>>
  BY <1>3
<1> QED BY <1>1, <1>2, <1>4

LEMMA ResTypes ==
  ASSUME Types
  PROVE  /\ oRes \in Seq(Places) /\ uRes \in Seq(Places)
         /\ oLine \in Seq(Places) /\ uLine \in Seq(Places)
<1>1. oRes \in Seq(Places) /\ uRes \in Seq(Places)
  BY Empty DEF Types, LoopTypes, oRes, uRes
<1>2. oDone \in Seq(Places) /\ uDone \in Seq(Places)
  BY DEF Types, OrderedTypes, UnorderedTypes
<1>3. oRes \o oDone \in Seq(Places) /\ uRes \o uDone \in Seq(Places)
  BY <1>1, <1>2
<1> QED BY <1>1, <1>3 DEF oLine, uLine

LEMMA GoodNext ==
  /\ Good(Before, oLine', oActive', oPending', oGone', oDiscarded')
       => Good(Before, oLine, oActive, oPending, oGone, oDiscarded)'
  /\ Good(Apart, uLine', uActive', uPending', uGone', uDiscarded')
       => Good(Apart, uLine, uActive, uPending, uGone, uDiscarded)'
  /\ oHeld' = Held(oLine', oActive', oPending')
  /\ uHeld' = Held(uLine', uActive', uPending')
  BY DEF Good, Held, Lined, Before, Apart, Elements, oHeld, uHeld

LEMMA OrderedWorkerKeeps ==
  ASSUME IInv, OrderedWorker
  PROVE  IInv'
<1>1. /\ UNCHANGED <<uVars, threaded, pc, long, handled, results, stream, freed>>
      /\ written' = written /\ read' = read
  BY DEF OrderedWorker, store
<1>2. /\ Types /\ Accounts /\ oPending \in Seq(Places) /\ oActive \subseteq Places
      /\ oDone \in Seq(Places) /\ oDelivered \in Seq(Places)
      /\ oRes \in Seq(Places) /\ oLine \in Seq(Places)
      /\ Good(Before, oLine, oActive, oPending, oGone, oDiscarded)
      /\ Good(Apart, uLine, uActive, uPending, uGone, uDiscarded)
  BY ResTypes DEF IInv, Types, OrderedTypes
<1>3. oRes' = oRes /\ uRes' = uRes
  BY <1>1 DEF oRes, uRes
<1>4. UNCHANGED <<uLine, uActive, uPending, uDelivered, uGone, uDiscarded, uOutcome, uHeld>>
  <2>1. UNCHANGED <<uLine, uActive, uPending, uDelivered, uGone, uDiscarded, uOutcome>>
    BY <1>1, <1>3 DEF uVars, uLine, uGone
  <2> QED BY <2>1 DEF uHeld
<1>5. Good(Apart, uLine, uActive, uPending, uGone, uDiscarded)'
  BY <1>2, <1>4 DEF Good, Held, Lined, Apart, Elements
<1>6. StoreTypes' /\ UnorderedTypes' /\ LoopTypes'
  <2>1. UnorderedTypes' /\ LoopTypes'
    BY <1>1, <1>2 DEF Types, UnorderedTypes, LoopTypes, uVars
  <2> QED BY <1>1, <2>1, SameStore
<1>7. \A i \in Elements(uLine') : uOutcome[i] = "executed"
  BY <1>2, <1>4 DEF Accounts
<1>8. CASE Cardinality(oActive) < Workers("ordered") /\ O!Start
  <2>1. /\ oPending # <<>> /\ oPending' = Tail(oPending)
        /\ oActive' = oActive \cup {Head(oPending)}
        /\ UNCHANGED <<oOutcome, oDone, oDelivered, oDiscarded>>
    BY <1>8 DEF O!Start
  <2>2. oActive = {}
    <3>1. IsFiniteSet(Places)
      BY PlacesAre, FS_Interval
    <3>2. IsFiniteSet(oActive)
      BY <1>2, <3>1, FS_Subset
    <3>3. Cardinality(oActive) \in Nat /\ Cardinality(oActive) < 1
      BY <1>8, <3>2, FS_CardinalityType DEF Workers
    <3>4. Cardinality(oActive) = 0
      BY <3>3
    <3> QED BY <3>2, <3>4, FS_EmptySet
  <2>3. oLine' = oLine /\ oGone' = oGone /\ oDiscarded' = oDiscarded /\ oDelivered' = oDelivered
    BY <1>3, <2>1 DEF oLine, oGone
  <2>4. /\ Good(Before, oLine, oActive \cup {Head(oPending)}, Tail(oPending), oGone, oDiscarded)
        /\ Held(oLine, oActive \cup {Head(oPending)}, Tail(oPending)) = oHeld
    <3>1. Good(Before, oLine, oActive, oPending, oGone, oDiscarded)
      BY <1>2
    <3>2. oPending # <<>> /\ \A a \in oActive : <<Head(oPending), a>> \in Before
      BY <2>1, <2>2
    <3> QED BY <3>1, <3>2, Started DEF oHeld
  <2>5. /\ Good(Before, oLine, oActive, oPending, oGone, oDiscarded)'
        /\ oHeld' = oHeld
    BY <2>1, <2>3, <2>4, GoodNext
  <2>6. OrderedTypes'
    <3>1. Tail(oPending) \in Seq(Places) /\ Head(oPending) \in Places
      BY <1>2, <2>1, TailIs
    <3> QED BY <1>2, <2>1, <3>1 DEF OrderedTypes
  <2>7. ~PoolsEmpty
    BY <2>1 DEF PoolsEmpty
  <2> QED BY <1>1, <1>3, <1>4, <1>5, <1>6, <1>7, <2>3, <2>5, <2>6, <2>7, MovesKeep DEF Types
<1>9. ASSUME NEW i \in oActive, O!Settle(i, "executed")
      PROVE  IInv'
  <2>1. UNCHANGED <<oPending, oActive, oDone, oDelivered, oDiscarded>>
    BY <1>9 DEF O!Settle
  <2>2. oLine' = oLine /\ oGone' = oGone
    BY <1>3, <2>1 DEF oLine, oGone
  <2>3. oHeld' = oHeld
    BY <2>1, <2>2 DEF oHeld
  <2>4. Good(Before, oLine, oActive, oPending, oGone, oDiscarded)'
    BY <1>2, <2>1, <2>2 DEF Good, Held, Lined, Before, Elements
  <2>5. OrderedTypes'
    BY <1>2, <2>1 DEF OrderedTypes
  <2>6. ~PoolsEmpty
    BY <1>9 DEF PoolsEmpty
  <2> QED BY <1>1, <1>3, <1>4, <1>5, <1>6, <1>7, <2>1, <2>2, <2>3, <2>4, <2>5, <2>6, MovesKeep DEF Types
<1>10. ASSUME NEW i \in oActive, O!Complete(i)
       PROVE  IInv'
  <2>1. /\ oActive' = oActive \ {i} /\ oDone' = Append(oDone, i) /\ i \in Places
        /\ UNCHANGED <<oPending, oOutcome, oDelivered, oDiscarded>>
    BY <1>2, <1>10 DEF O!Complete
  <2>2. oLine' = Append(oLine, i) /\ oGone' = oGone
    BY <1>2, <1>3, <2>1, LineAppend DEF oLine, oGone
  <2>3. /\ Good(Before, Append(oLine, i), oActive \ {i}, oPending, oGone, oDiscarded)
        /\ Held(Append(oLine, i), oActive \ {i}, oPending) = oHeld
    BY <1>2, Completed DEF oHeld
  <2>4. /\ Good(Before, oLine, oActive, oPending, oGone, oDiscarded)'
        /\ oHeld' = oHeld
    BY <2>1, <2>2, <2>3, GoodNext
  <2>5. OrderedTypes'
    BY <1>2, <2>1 DEF OrderedTypes
  <2>6. ~PoolsEmpty
    BY <1>10 DEF PoolsEmpty
  <2> QED BY <1>1, <1>3, <1>4, <1>5, <1>6, <1>7, <2>1, <2>2, <2>4, <2>5, <2>6, MovesKeep DEF Types
<1> QED BY <1>8, <1>9, <1>10 DEF OrderedWorker

\* The callback runs, and may free the list of its messages.
LEMMA SettleKeeps ==
  ASSUME IInv, NEW i \in uActive, U!Settle(i, "executed"),
         IF FreedByCallback(i) THEN freed' = [freed EXCEPT ![i] = @ + 1] ELSE UNCHANGED freed,
         UNCHANGED <<oVars, threaded, pc, long, handled, results, stream>>,
         written' = written, read' = read
  PROVE  IInv'
<1>1. /\ StoreTypes /\ OrderedTypes /\ UnorderedTypes /\ LoopTypes
      /\ Accounts /\ Lists /\ Replies /\ Stations /\ Sending
      /\ Good(Before, oLine, oActive, oPending, oGone, oDiscarded)
      /\ Good(Apart, uLine, uActive, uPending, uGone, uDiscarded)
  BY DEF IInv, Types
<1>2. /\ uOutcome[i] = "none" /\ uOutcome' = [uOutcome EXCEPT ![i] = "executed"]
      /\ UNCHANGED <<uPending, uActive, uDone, uDelivered, uDiscarded>>
      /\ i \in Places
  BY <1>1 DEF U!Settle, UnorderedTypes
<1>3. /\ UNCHANGED <<oRes, uRes, oPending, oActive, oDone, oDelivered, oDiscarded>>
      /\ UNCHANGED <<oLine, oGone, uLine, uGone, oHeld, uHeld>>
  <2>1. UNCHANGED <<oPending, oActive, oDone, oDelivered, oDiscarded>>
    BY DEF oVars
  <2>2. UNCHANGED <<oRes, uRes>>
    BY DEF oRes, uRes
  <2>3. UNCHANGED <<oLine, oGone, uLine, uGone>>
    BY <1>2, <2>1, <2>2 DEF oLine, oGone, uLine, uGone
  <2> QED BY <1>2, <2>1, <2>2, <2>3 DEF oHeld, uHeld
<1>4. /\ Good(Before, oLine, oActive, oPending, oGone, oDiscarded)'
      /\ Good(Apart, uLine, uActive, uPending, uGone, uDiscarded)'
  BY <1>1, <1>2, <1>3 DEF Good, Held, Lined, Before, Apart, Elements
<1>5. uOutcome' \in [Places -> {"none", "executed"}]
  BY <1>1, <1>2 DEF UnorderedTypes
<1>6. freed' \in [Places -> Nat]
  BY <1>1, <1>2 DEF LoopTypes
<1>7. Types'
  <2>1. OrderedTypes' /\ UnorderedTypes' /\ LoopTypes'
    BY <1>1, <1>2, <1>3, <1>5, <1>6 DEF OrderedTypes, UnorderedTypes, LoopTypes
  <2> QED BY <2>1, SameStore DEF Types
<1>8. Longer /\ SameOut /\ Ends'
  BY SameStore, SameStream
<1>9. i \in uKnown /\ i \in 1 .. handled
  <2>1. i \in uKnown
    BY DEF uHeld, Held, uKnown
  <2> QED BY <1>1, <2>1 DEF Accounts
<1>10. Accounts'
  <2>1. oKnown' = oKnown /\ uKnown' = uKnown
    BY <1>2, <1>3 DEF oKnown, uKnown
  <2>2. /\ \A j \in oKnown : j \in 1 .. handled /\ written[j].stream \in Streaming
        /\ \A j \in uKnown : j \in 1 .. handled /\ written[j].stream \in Unary /\ ~Refused(written[j])
        /\ threaded => \A j \in 1 .. handled : ~Refused(written[j]) => j \in oKnown \cup uKnown
    BY <1>1 DEF Accounts
  <2>3. \A j \in Places : uOutcome'[j] = "executed" => j \in uKnown
    BY <1>1, <1>2, <1>9 DEF Accounts, UnorderedTypes
  <2>4. \A j \in Elements(uLine) \cup uGone : uOutcome'[j] = "executed"
    <3>1. \A j \in Elements(uLine) \cup uGone : j \in Places
      BY <1>1, ResTypes, ElementsIn DEF Types, UnorderedTypes, uGone
    <3> QED BY <1>1, <1>2, <3>1 DEF Accounts, UnorderedTypes
  <2> QED BY <1>3, <2>1, <2>2, <2>3, <2>4 DEF Accounts
<1>11. Lists'
  <2> SUFFICES ASSUME NEW j \in Places
               PROVE  freed'[j] = IF Released(j)' THEN 1 ELSE 0
    BY DEF Lists
  <2>1. FreedByCallback(j)' <=> FreedByCallback(j)
    BY DEF FreedByCallback
  <2>2. freed[j] = IF Released(j) THEN 1 ELSE 0
    BY <1>1 DEF Lists
  <2>3. CASE j # i \/ ~FreedByCallback(j)
    <3>1. Released(j)' <=> Released(j)
      BY <1>1, <1>2, <1>3, <2>1, <2>3 DEF Released, UnorderedTypes
    <3>2. freed'[j] = freed[j]
      BY <1>1, <2>3 DEF LoopTypes
    <3> QED BY <2>2, <3>1, <3>2
  <2>4. CASE j = i /\ FreedByCallback(j)
    <3>1. ~Released(j)
      BY <1>2, <2>4 DEF Released
    <3>2. j <= handled
      BY <1>1, <1>9, <2>4, HandledIs
    <3>3. Released(j)'
      BY <1>1, <1>2, <2>1, <2>4, <3>2 DEF Released, UnorderedTypes
    <3>4. freed'[j] = freed[j] + 1
      BY <1>1, <2>4 DEF LoopTypes
    <3> QED BY <2>2, <3>1, <3>3, <3>4
  <2> QED BY <2>3, <2>4
<1>12. Replies'
  BY <1>1, <1>3, <1>8, RepliesStay
<1>13. Sending'
  BY <1>1, <1>2, <1>3 DEF Sending
<1>14. Stations'
  <2>1. PoolsEmpty' = PoolsEmpty
    BY <1>2, <1>3 DEF PoolsEmpty
  <2> QED BY <1>1, <1>2, <1>3, <2>1, StationsStay
<1> QED BY <1>4, <1>7, <1>8, <1>10, <1>11, <1>12, <1>13, <1>14 DEF IInv

LEMMA UnorderedWorkerKeeps ==
  ASSUME IInv, UnorderedWorker
  PROVE  IInv'
<1>1. /\ UNCHANGED <<oVars, threaded, pc, long, handled, results, stream>>
      /\ written' = written /\ read' = read
  BY DEF UnorderedWorker, store
<1>2. /\ Types /\ Accounts /\ uPending \in Seq(Places) /\ uActive \subseteq Places
      /\ uDone \in Seq(Places) /\ uDelivered \in Seq(Places)
      /\ uRes \in Seq(Places) /\ uLine \in Seq(Places)
      /\ Good(Before, oLine, oActive, oPending, oGone, oDiscarded)
      /\ Good(Apart, uLine, uActive, uPending, uGone, uDiscarded)
  BY ResTypes DEF IInv, Types, UnorderedTypes
<1>3. oRes' = oRes /\ uRes' = uRes
  BY <1>1 DEF oRes, uRes
<1>4. UNCHANGED <<oLine, oActive, oPending, oDelivered, oGone, oDiscarded, oHeld>>
  <2>1. UNCHANGED <<oLine, oActive, oPending, oDelivered, oGone, oDiscarded>>
    BY <1>1, <1>3 DEF oVars, oLine, oGone
  <2> QED BY <2>1 DEF oHeld
<1>5. Good(Before, oLine, oActive, oPending, oGone, oDiscarded)'
  BY <1>2, <1>4 DEF Good, Held, Lined, Before, Elements
<1>6. StoreTypes' /\ OrderedTypes'
  <2>1. OrderedTypes'
    BY <1>1, <1>2 DEF Types, OrderedTypes, oVars
  <2> QED BY <1>1, <2>1, SameStore
<1>7. CASE U!Start /\ UNCHANGED freed
  <2>1. /\ uPending # <<>> /\ uPending' = Tail(uPending)
        /\ uActive' = uActive \cup {Head(uPending)}
        /\ UNCHANGED <<uOutcome, uDone, uDelivered, uDiscarded>>
    BY <1>7 DEF U!Start
  <2>2. Tail(uPending) \in Seq(Places) /\ Head(uPending) \in Places
        /\ 1 \in DOMAIN uPending /\ Head(uPending) = uPending[1]
    BY <1>2, <2>1, TailIs
  <2>3. \A a \in uActive : <<Head(uPending), a>> \in Apart
    <3>1. \A a \in uActive : <<a, Head(uPending)>> \in Apart
      BY <1>2, <2>2 DEF Good, Lined
    <3> QED BY <1>2, <2>2, <3>1, Relations
  <2>4. uLine' = uLine /\ uGone' = uGone /\ uDiscarded' = uDiscarded /\ uDelivered' = uDelivered
    BY <1>3, <2>1 DEF uLine, uGone
  <2>5. /\ Good(Apart, uLine, uActive \cup {Head(uPending)}, Tail(uPending), uGone, uDiscarded)
        /\ Held(uLine, uActive \cup {Head(uPending)}, Tail(uPending)) = uHeld
    <3>1. Good(Apart, uLine, uActive, uPending, uGone, uDiscarded)
      BY <1>2
    <3> QED BY <2>1, <2>3, <3>1, Started DEF uHeld
  <2>6. /\ Good(Apart, uLine, uActive, uPending, uGone, uDiscarded)'
        /\ uHeld' = uHeld
    BY <2>1, <2>4, <2>5, GoodNext
  <2>7. UnorderedTypes' /\ LoopTypes'
    BY <1>1, <1>2, <1>7, <2>1, <2>2 DEF Types, UnorderedTypes, LoopTypes
  <2>8. ~PoolsEmpty
    BY <2>1 DEF PoolsEmpty
  <2>9. \A i \in Elements(uLine') : uOutcome[i] = "executed"
    BY <1>2, <2>4 DEF Accounts
  <2> QED BY <1>1, <1>3, <1>4, <1>5, <1>6, <1>7, <2>1, <2>4, <2>6, <2>7, <2>8, <2>9, MovesKeep DEF Types
<1>8. ASSUME NEW i \in uActive, U!Settle(i, "executed"),
             IF FreedByCallback(i) THEN freed' = [freed EXCEPT ![i] = @ + 1] ELSE UNCHANGED freed
      PROVE  IInv'
  BY <1>1, <1>8, SettleKeeps
<1>9. ASSUME NEW i \in uActive, U!Complete(i), UNCHANGED freed
      PROVE  IInv'
  <2>1. /\ uActive' = uActive \ {i} /\ uDone' = Append(uDone, i) /\ i \in Places
        /\ uOutcome[i] # "none"
        /\ UNCHANGED <<uPending, uOutcome, uDelivered, uDiscarded>>
    BY <1>2, <1>9 DEF U!Complete
  <2>2. uLine' = Append(uLine, i) /\ uGone' = uGone
    BY <1>2, <1>3, <2>1, LineAppend DEF uLine, uGone
  <2>3. /\ Good(Apart, Append(uLine, i), uActive \ {i}, uPending, uGone, uDiscarded)
        /\ Held(Append(uLine, i), uActive \ {i}, uPending) = uHeld
    BY <1>2, Completed DEF uHeld
  <2>4. /\ Good(Apart, uLine, uActive, uPending, uGone, uDiscarded)'
        /\ uHeld' = uHeld
    BY <2>1, <2>2, <2>3, GoodNext
  <2>5. UnorderedTypes' /\ LoopTypes'
    BY <1>1, <1>2, <1>9, <2>1, AppendProperties DEF Types, UnorderedTypes, LoopTypes
  <2>6. ~PoolsEmpty
    BY <1>9 DEF PoolsEmpty
  <2>7. \A j \in Elements(uLine') : uOutcome[j] = "executed"
    <3>1. Elements(uLine') = Elements(uLine) \cup {i}
      BY <1>2, <2>1, <2>2, ElementsAppend
    <3>2. uOutcome[i] = "executed"
      BY <1>2, <2>1 DEF Types, UnorderedTypes
    <3> QED BY <1>2, <3>1, <3>2 DEF Accounts
  <2> QED BY <1>1, <1>3, <1>4, <1>5, <1>6, <1>9, <2>1, <2>2, <2>4, <2>5, <2>6, <2>7, MovesKeep DEF Types
<1> QED BY <1>7, <1>8, <1>9 DEF UnorderedWorker

-----------------------------------------------------------------------------
(* Answers *)

Adds(out, w) == IF Trailers \in Elements(out) THEN out ELSE Append(out, w)

LEMMA SendsIs ==
  ASSUME NEW x \in StreamState, NEW w \in Nat
  PROVE  /\ Sends(x, w) \in StreamState /\ Sends(x, w).closed = x.closed
         /\ Sends(x, w).out = Adds(x.out, w)
<1>1. CASE Trailers \in Elements(x.out)
  BY <1>1 DEF Sends, Adds, Elements
<1>2. CASE Trailers \notin Elements(x.out)
  <2> DEFINE o == Append(x.out, w)
             y == [x EXCEPT !.out = o]
  <2>1. o \in Seq(Nat)
    BY FieldsOf
  <2>2. Sends(x, w) = Settled(y) /\ Adds(x.out, w) = o
    BY <1>2 DEF Sends, Adds, Elements
  <2> HIDE DEF o
  <2>3. y \in StreamState /\ y.closed = x.closed /\ y.out = o
    BY <2>1, SetOut
  <2> HIDE DEF y
  <2> QED BY <2>2, <2>3, SettledIs
<1> QED BY <1>1, <1>2

LEMMA AddsInOrder ==
  ASSUME NEW out \in Seq(Nat), NEW w \in Nat, NEW s, InOrder(out, s),
         w # Trailers => /\ written[w].stream = s
                         /\ \A k \in DOMAIN out : out[k] # Trailers => out[k] < w
  PROVE  /\ Adds(out, w) \in Seq(Nat) /\ InOrder(Adds(out, w), s)
         /\ \A k \in DOMAIN Adds(out, w) :
              Adds(out, w)[k] = w \/ \E j \in DOMAIN out : Adds(out, w)[k] = out[j]
<1>1. CASE Trailers \in Elements(out)
  BY <1>1 DEF Adds
<1>2. CASE Trailers \notin Elements(out)
  <2> DEFINE z == Append(out, w)
  <2>1. Adds(out, w) = z
    BY <1>2 DEF Adds
  <2>2. /\ z \in Seq(Nat) /\ DOMAIN out = 1 .. Len(out) /\ Len(out) \in Nat
        /\ DOMAIN z = 1 .. Len(out) + 1
        /\ \A k \in DOMAIN out : z[k] = out[k]
        /\ z[Len(out) + 1] = w
    BY AppendProperties
  <2> HIDE DEF z
  <2>3. \A k \in DOMAIN z : (k \in DOMAIN out /\ z[k] = out[k]) \/ (k = Len(out) + 1 /\ z[k] = w)
    BY <2>2
  <2>4. \A k \in DOMAIN out : out[k] # Trailers
    BY <1>2 DEF Elements
  <2>5. InOrder(z, s)
    <3> SUFFICES ASSUME NEW j \in DOMAIN z, NEW k \in DOMAIN z, j < k
                 PROVE  /\ z[j] # Trailers
                        /\ z[k] # Trailers => z[j] < z[k] /\ written[z[k]].stream = s
      BY DEF InOrder
    <3>1. j \in DOMAIN out /\ z[j] = out[j]
      BY <2>2
    <3>2. CASE k \in DOMAIN out
      BY <2>2, <3>1, <3>2 DEF InOrder
    <3>3. CASE k = Len(out) + 1 /\ z[k] = w
      BY <2>4, <3>1, <3>3
    <3> QED BY <2>3, <3>2, <3>3
  <2> QED BY <2>1, <2>2, <2>3, <2>5
<1> QED BY <1>1, <1>2

\* What ending a stream, or answering event i, makes of its answers.
Ended(out) == {out, Adds(out, Trailers)}
AnsweredOuts(out, i) == {out, Adds(out, i), Adds(Adds(out, i), Trailers)}

LEMMA EndedInOrder ==
  ASSUME NEW out \in Seq(Nat), NEW s, InOrder(out, s), NEW o \in Ended(out)
  PROVE  /\ o \in Seq(Nat) /\ InOrder(o, s)
         /\ \A k \in DOMAIN o : o[k] = Trailers \/ \E j \in DOMAIN out : o[k] = out[j]
<1>1. Trailers \in Nat
  BY DEF Trailers
<1>2. CASE o = out
  BY <1>2
<1>3. CASE o = Adds(out, Trailers)
  BY <1>1, <1>3, AddsInOrder
<1> QED BY <1>2, <1>3 DEF Ended

LEMMA AnsweredInOrder ==
  ASSUME NEW out \in Seq(Nat), NEW s, InOrder(out, s), NEW i \in Nat, i # Trailers,
         written[i].stream = s, \A k \in DOMAIN out : out[k] # Trailers => out[k] < i,
         NEW o \in AnsweredOuts(out, i)
  PROVE  /\ o \in Seq(Nat) /\ InOrder(o, s)
         /\ \A k \in DOMAIN o : \/ o[k] = Trailers \/ o[k] = i
                                \/ \E j \in DOMAIN out : o[k] = out[j]
<1> DEFINE a == Adds(out, i)
<1>1. /\ a \in Seq(Nat) /\ InOrder(a, s)
      /\ \A k \in DOMAIN a : a[k] = i \/ \E j \in DOMAIN out : a[k] = out[j]
  BY AddsInOrder
<1>2. o \in {out, a, Adds(a, Trailers)}
  BY DEF AnsweredOuts
<1> HIDE DEF a
<1>3. CASE o = out
  BY <1>3
<1>4. CASE o = a
  BY <1>1, <1>4
<1>5. CASE o = Adds(a, Trailers)
  <2>1. o \in Ended(a)
    BY <1>5 DEF Ended
  <2>2. /\ o \in Seq(Nat) /\ InOrder(o, s)
        /\ \A k \in DOMAIN o : o[k] = Trailers \/ \E j \in DOMAIN a : o[k] = a[j]
    BY <1>1, <2>1, EndedInOrder
  <2> QED BY <1>1, <2>2
<1> QED BY <1>2, <1>3, <1>4, <1>5

\* Ending a stream or answering on it changes nothing else.
OnStream(s, Outs) ==
    /\ stream' \in [Streams -> StreamState]
    /\ \A u \in Streams : stream'[u].closed = stream[u].closed
    /\ \A u \in Streams : u # s => stream'[u].out = stream[u].out
    /\ stream'[s].out \in Outs

LEMMA StreamEndIs ==
  ASSUME LoopTypes, NEW s \in Streams, StreamEnd(s)
  PROVE  OnStream(s, Ended(stream[s].out))
<1>1. stream \in [Streams -> StreamState]
  BY DEF LoopTypes
<1>2. CASE UNCHANGED stream
  BY <1>1, <1>2 DEF OnStream, Ended
<1>3. CASE stream' = [stream EXCEPT ![s] = Sends(@, Trailers)]
  <2> DEFINE y == Sends(stream[s], Trailers)
  <2>1. stream' = [stream EXCEPT ![s] = y]
    BY <1>3
  <2>2. y \in StreamState /\ y.closed = stream[s].closed /\ y.out = Adds(stream[s].out, Trailers)
    BY <1>1, SendsIs DEF Trailers
  <2> HIDE DEF y
  <2> QED BY <1>1, <2>1, <2>2, OneStream DEF OnStream, Ended
<1> QED BY <1>2, <1>3 DEF StreamEnd

LEMMA AnswerIs ==
  ASSUME LoopTypes, NEW i \in Nat, written[i].stream \in Streams, Answer(i)
  PROVE  OnStream(written[i].stream, AnsweredOuts(stream[written[i].stream].out, i))
<1> DEFINE s == written[i].stream
           x == Sends(stream[s], i)
           z == Sends(x, Trailers)
           b == [stream[s] EXCEPT !.is = "broken"]
<1>1. stream \in [Streams -> StreamState] /\ s \in Streams
  BY DEF LoopTypes
<1>2. \/ UNCHANGED stream
      \/ stream' = [stream EXCEPT ![s] = z]
      \/ stream' = [stream EXCEPT ![s] = x]
      \/ stream' = [stream EXCEPT ![s] = b]
  BY DEF Answer
<1>3. x \in StreamState /\ x.closed = stream[s].closed /\ x.out = Adds(stream[s].out, i)
  BY <1>1, SendsIs
<1>4. b \in StreamState /\ b.closed = stream[s].closed /\ b.out = stream[s].out
  BY <1>1, SetIs
<1> HIDE DEF x, b
<1>5. z \in StreamState /\ z.closed = x.closed /\ z.out = Adds(x.out, Trailers)
  BY <1>3, SendsIs DEF Trailers
<1> HIDE DEF s, z
<1>6. OnStream(s, AnsweredOuts(stream[s].out, i))
  <2>1. CASE UNCHANGED stream
    BY <1>1, <2>1 DEF OnStream, AnsweredOuts
  <2>2. CASE stream' = [stream EXCEPT ![s] = z]
    BY <1>1, <1>3, <1>5, <2>2, OneStream DEF OnStream, AnsweredOuts
  <2>3. CASE stream' = [stream EXCEPT ![s] = x]
    BY <1>1, <1>3, <2>3, OneStream DEF OnStream, AnsweredOuts
  <2>4. CASE stream' = [stream EXCEPT ![s] = b]
    BY <1>1, <1>4, <2>4, OneStream DEF OnStream, AnsweredOuts
  <2> QED BY <1>2, <2>1, <2>2, <2>3, <2>4
<1> QED BY <1>6 DEF s

\* An answer, as the next state has it.
AnswersNext(x, s) ==
    /\ x \in 1 .. handled' /\ written'[x].stream = s
    /\ \A i \in oHeld' \cup uHeld' : written'[i].stream = s => x < i

LEMMA RepliesKeep ==
  ASSUME Types, Replies, written' = written, NEW s \in Streams, NEW Outs, OnStream(s, Outs),
         \A o \in Outs : /\ InOrder(o, s)
                         /\ \A k \in DOMAIN o : o[k] # Trailers => AnswersNext(o[k], s),
         \A u \in Streams, x \in 1 .. handled : Answers(x, u) => AnswersNext(x, u)
  PROVE  Replies'
<1> SUFFICES ASSUME NEW u \in Streams
             PROVE  /\ InOrder(stream[u].out, u)'
                    /\ \A k \in DOMAIN stream'[u].out :
                         stream'[u].out[k] # Trailers => AnswersNext(stream'[u].out[k], u)
  BY DEF Replies, InOrder, Answers, AnswersNext
<1>1. CASE u = s
  <2> DEFINE o == stream'[s].out
  <2>1. o \in Outs
    BY DEF OnStream
  <2>2. InOrder(o, s) /\ \A k \in DOMAIN o : o[k] # Trailers => AnswersNext(o[k], s)
    BY <2>1
  <2> QED BY <1>1, <2>2 DEF InOrder
<1>2. CASE u # s
  <2>1. stream'[u].out = stream[u].out
    BY <1>2 DEF OnStream
  <2>2. /\ InOrder(stream[u].out, u)
        /\ \A k \in DOMAIN stream[u].out : stream[u].out[k] # Trailers => Answers(stream[u].out[k], u)
    BY DEF Replies
  <2>3. InOrder(stream[u].out, u)'
    BY <2>1, <2>2 DEF InOrder
  <2>4. \A k \in DOMAIN stream[u].out :
          stream[u].out[k] # Trailers => AnswersNext(stream[u].out[k], u)
    BY <2>2 DEF Answers
  <2> QED BY <2>1, <2>3, <2>4
<1> QED BY <1>1, <1>2

\* An event held is answered before the others held for its stream.
LEMMA SentReplies ==
  ASSUME Types, Replies, written' = written, handled' = handled,
         NEW i \in 1 .. handled, i \in oHeld \cup uHeld, written[i].stream \in Streams,
         OnStream(written[i].stream, AnsweredOuts(stream[written[i].stream].out, i)),
         oHeld' \subseteq oHeld, uHeld' \subseteq uHeld,
         \A y \in oHeld' \cup uHeld' : written[y].stream = written[i].stream => i < y
  PROVE  Replies'
<1> DEFINE s == written[i].stream
           out == stream[s].out
           Outs == AnsweredOuts(out, i)
<1>1. s \in Streams /\ stream \in [Streams -> StreamState] /\ handled \in Nat
  BY HandledIs DEF Types, LoopTypes
<1>2. out \in Seq(Nat)
  BY <1>1, FieldsOf
<1>3. i \in Nat /\ i # Trailers
  BY DEF Trailers
<1>4. /\ InOrder(out, s)
      /\ \A k \in DOMAIN out : out[k] # Trailers => Answers(out[k], s)
  BY <1>1 DEF Replies
<1>5. \A k \in DOMAIN out : out[k] # Trailers => out[k] < i
  BY <1>4 DEF Answers
<1>6. \A u \in Streams, x \in 1 .. handled : Answers(x, u) => AnswersNext(x, u)
  BY DEF Answers, AnswersNext
<1>7. AnswersNext(i, s)
  BY DEF AnswersNext
<1>8. \A k \in DOMAIN out : out[k] # Trailers => AnswersNext(out[k], s)
  BY <1>1, <1>4, <1>6 DEF Answers
<1>9. OnStream(s, Outs)
  OBVIOUS
<1> HIDE DEF s, out
<1>10. ASSUME NEW o \in Outs
       PROVE  /\ InOrder(o, s)
              /\ \A k \in DOMAIN o : o[k] # Trailers => AnswersNext(o[k], s)
  <2>1. written[i].stream = s
    BY DEF s
  <2>2. /\ InOrder(o, s)
        /\ \A k \in DOMAIN o : \/ o[k] = Trailers \/ o[k] = i
                               \/ \E j \in DOMAIN out : o[k] = out[j]
    BY <1>2, <1>3, <1>4, <1>5, <1>10, <2>1, AnsweredInOrder
  <2> QED BY <1>7, <1>8, <2>2
<1> HIDE DEF Outs
<1> QED BY <1>1, <1>6, <1>9, <1>10, RepliesKeep

-----------------------------------------------------------------------------
(* Sending a result *)

LEMMA LineTail ==
  ASSUME NEW r \in Seq(Places), NEW d \in Seq(Places), r # <<>>
  PROVE  r \o d # <<>> /\ Head(r \o d) = Head(r) /\ Tail(r \o d) = Tail(r) \o d
<1>1. r = <<Head(r)>> \o Tail(r) /\ Head(r) \in Places /\ Tail(r) \in Seq(Places)
  BY HeadTailProperties
<1>2. r \o d \in Seq(Places) /\ Len(r \o d) = Len(r) + Len(d) /\ Len(r) \in Nat /\ Len(r) # 0
      /\ Len(d) \in Nat
  BY ConcatProperties, EmptySeq
<1>3. r \o d # <<>>
  BY <1>2
<1>4. Head(r \o d) = (r \o d)[1] /\ Head(r) = r[1]
  BY <1>2, <1>3
<1>5. (r \o d)[1] = r[1]
  BY <1>2, ConcatProperties
<1>6. Tail(r \o d) = Tail(r) \o d
  BY <1>2, <1>3
<1> QED BY <1>3, <1>4, <1>5, <1>6

\* The list of what is sent is freed, unless the callback has done it.
LEMMA SentLists ==
  ASSUME StoreTypes, LoopTypes, Lists, UNCHANGED <<written, handled, uOutcome>>,
         NEW i \in Places, i <= handled, i \notin oGone \cup uGone,
         oGone' \cup uGone' = oGone \cup uGone \cup {i}, FreeUserdata(i)
  PROVE  Lists' /\ freed' \in [Places -> Nat]
<1>1. freed' \in [Places -> Nat]
  BY DEF FreeUserdata, LoopTypes
<1>2. ASSUME NEW j \in Places
      PROVE  freed'[j] = IF Released(j)' THEN 1 ELSE 0
  <2>1. FreedByCallback(j)' <=> FreedByCallback(j)
    BY DEF FreedByCallback
  <2>2. freed[j] = IF Released(j) THEN 1 ELSE 0
    BY DEF Lists
  <2>3. CASE j # i \/ FreedByCallback(j)
    <3>1. Released(j)' <=> Released(j)
      BY <2>1, <2>3 DEF Released
    <3>2. freed'[j] = freed[j]
      BY <2>3 DEF FreeUserdata, LoopTypes
    <3> QED BY <2>2, <3>1, <3>2
  <2>4. CASE j = i /\ ~FreedByCallback(j)
    <3>1. ~Released(j)
      BY <2>4 DEF Released
    <3>2. Released(j)'
      BY <2>1, <2>4 DEF Released
    <3>3. freed'[j] = freed[j] + 1
      BY <2>4 DEF FreeUserdata, LoopTypes
    <3> QED BY <2>2, <3>1, <3>2, <3>3
  <2> QED BY <2>3, <2>4
<1> QED BY <1>1, <1>2 DEF Lists

LEMMA NotItself == \A x \in Places : <<x, x>> \notin Before /\ <<x, x>> \notin Apart
  BY PlacesAre DEF Before, Apart

LEMMA HandledMost ==
  ASSUME StoreTypes
  PROVE  \A x \in 1 .. handled : x <= handled
<1>1. handled \in Nat
  BY HandledIs
<1> QED BY <1>1

LEMMA GoodRequest ==
  ASSUME StoreTypes, NEW x \in 1 .. Len(written), written[x].stream \in Unary, ~Refused(written[x])
  PROVE  written[x].end
<1>1. written[x] \in Reported
  BY DEF StoreTypes
<1>2. PICK s \in Streams : written[x] \in Reports(s)
  BY <1>1, Zenon DEF Reported
<1> QED BY <1>2, ReportIs

LEMMA OneEnd ==
  ASSUME StoreTypes, Ends, NEW x \in 1 .. Len(written), NEW y \in 1 .. Len(written),
         written[x].stream = written[y].stream, written[x].end, written[y].end
  PROVE  x = y
<1>1. Len(written) \in Nat
  BY HandledIs
<1>2. ~(x < y) /\ ~(y < x)
  BY DEF Ends
<1> QED BY <1>1, <1>2

LEMMA SendOrderedKeeps ==
  ASSUME IInv, SendResult, pc = "answer ordered"
  PROVE  IInv'
<1>1. /\ UNCHANGED <<oVars, uVars, threaded, pc, long, handled>>
      /\ written' = written /\ read' = read
      /\ results # <<>> /\ results' = Tail(results)
      /\ Answer(Head(results)) /\ FreeUserdata(Head(results))
  BY DEF SendResult, store
<1>2. Types /\ StoreTypes /\ LoopTypes /\ Accounts /\ Lists /\ Replies /\ Ends /\ Stations /\ Sending
  BY DEF IInv, Types
<1>24. /\ Good(Before, oLine, oActive, oPending, oGone, oDiscarded)
       /\ Good(Apart, uLine, uActive, uPending, uGone, uDiscarded)
  BY DEF IInv
<1>25. results \in Seq(Places) /\ oDone \in Seq(Places)
  BY <1>2 DEF Types, OrderedTypes, UnorderedTypes, LoopTypes
<1>26. /\ handled \in Nat /\ Len(written) \in Nat
       /\ \A x \in 1 .. handled : x \in 1 .. Len(written) /\ x \in Places
  BY <1>2, HandledIs
<1>27. \A x \in 1 .. handled : x <= handled
  BY <1>2, HandledMost
<1>3. PICK i : i = Head(results)
  OBVIOUS
<1>4. /\ i \in Places /\ Tail(results) \in Seq(Places)
      /\ Elements(results) = {i} \cup Elements(Tail(results))
  BY <1>1, <1>3, <1>25, TailIs
<1>5. oRes = results /\ oRes' = Tail(results) /\ uRes' = uRes
  BY <1>1 DEF oRes, uRes
<1>6. UNCHANGED <<oActive, oPending, oDone, oDelivered, oDiscarded,
                  uActive, uPending, uDone, uDelivered, uDiscarded, uOutcome>>
  BY <1>1 DEF oVars, uVars
<1>7. oLine # <<>> /\ Head(oLine) = i /\ oLine' = Tail(oLine)
  BY <1>1, <1>3, <1>5, <1>6, <1>25, LineTail DEF oLine
<1>8. UNCHANGED <<uLine, uGone, uHeld>>
  <2>1. UNCHANGED <<uLine, uGone>>
    BY <1>5, <1>6 DEF uLine, uGone
  <2> QED BY <1>6, <2>1 DEF uHeld
<1>9. oDiscarded = {} /\ uDiscarded = {}
  BY <1>2 DEF Stations
<1>10. /\ Good(Before, Tail(oLine), oActive, oPending, oGone \cup {i}, {})
       /\ Held(Tail(oLine), oActive, oPending) = oHeld \ {i}
       /\ i \in oHeld
       /\ \A y \in Held(Tail(oLine), oActive, oPending) : <<i, y>> \in Before
  <2>1. \A x \in Places : <<x, x>> \notin Before
    BY NotItself
  <2>2. Good(Before, oLine, oActive, oPending, oGone, {})
    BY <1>9, <1>24
  <2> QED BY <1>7, <2>1, <2>2, SentOff DEF oHeld
<1>11. oHeld' = oHeld \ {i}
  BY <1>6, <1>7, <1>10, GoodNext
<1>12. oGone' = oGone \cup {i}
  <2>1. i \in Elements(oDelivered)
    BY <1>2, <1>4, <1>5 DEF Sending
  <2>2. Elements(Tail(results)) \subseteq Elements(oLine')
    <3>1. oLine' = Tail(results) \o oDone
      BY <1>5, <1>6 DEF oLine
    <3>2. Elements(Tail(results) \o oDone) = Elements(Tail(results)) \cup Elements(oDone)
      <4>1. Tail(results) \in Seq(Places)
        BY <1>4
      <4>2. oDone \in Seq(Places)
        BY <1>25
      <4> QED BY <4>1, <4>2, ElementsConcat, Zenon
    <3> QED BY <3>1, <3>2
  <2>3. i \notin Elements(Tail(results))
    BY <1>7, <1>10, <2>2 DEF Held
  <2> QED BY <1>4, <1>5, <1>6, <2>1, <2>3 DEF oGone
<1>13. /\ Good(Before, oLine, oActive, oPending, oGone, oDiscarded)'
       /\ Good(Apart, uLine, uActive, uPending, uGone, uDiscarded)'
  <2>1. Good(Before, oLine, oActive, oPending, oGone, oDiscarded)'
    <3>1. Good(Before, oLine', oActive', oPending', oGone', oDiscarded')
      BY <1>6, <1>7, <1>9, <1>10, <1>12
    <3> QED BY <3>1, GoodNext
  <2>2. Good(Apart, uLine, uActive, uPending, uGone, uDiscarded)'
    <3>1. Good(Apart, uLine', uActive', uPending', uGone', uDiscarded')
      BY <1>6, <1>8, <1>24
    <3> QED BY <3>1, GoodNext
  <2> QED BY <2>1, <2>2
<1>14. /\ i \in 1 .. handled /\ i \in oHeld \cup uHeld /\ i <= handled
       /\ written[i].stream \in Streams /\ i \notin oGone \cup uGone
  <2>1. i \in oKnown
    BY <1>10 DEF oKnown
  <2>2. i \in 1 .. handled /\ written[i].stream \in Streaming
    BY <1>2, <2>1 DEF Accounts
  <2>3. i \notin oGone
    BY <1>10, <1>24 DEF Good, oHeld
  <2>4. i \notin uGone
    BY <1>2, <2>2, StreamsAssumption DEF Accounts, uKnown
  <2>5. i <= handled /\ i \in oHeld \cup uHeld
    <3>1. i \in oHeld \cup uHeld
      BY <1>10
    <3>2. i <= handled
      BY <1>27, <2>2
    <3> QED BY <3>1, <3>2
  <2>6. written[i].stream \in Streams
    BY <2>2 DEF Streams
  <2> QED BY <2>2, <2>3, <2>4, <2>5, <2>6
<1>15. oKnown' = oKnown /\ uKnown' = uKnown
  BY <1>6, <1>8, <1>10, <1>11, <1>12 DEF oKnown, uKnown
<1>16. Accounts'
  <2>1. /\ \A j \in oKnown' : j \in 1 .. handled' /\ written'[j].stream \in Streaming
        /\ \A j \in uKnown' : j \in 1 .. handled' /\ written'[j].stream \in Unary /\ ~Refused(written'[j])
        /\ threaded' => \A j \in 1 .. handled' : ~Refused(written'[j]) => j \in oKnown' \cup uKnown'
    BY <1>1, <1>2, <1>15 DEF Accounts
  <2>2. \A j \in Places : uOutcome'[j] = "executed" => j \in uKnown'
    BY <1>2, <1>6, <1>15 DEF Accounts
  <2>3. Elements(uLine') \cup uGone' \subseteq Elements(uLine) \cup uGone
    BY <1>8
  <2>4. \A j \in Elements(uLine') \cup uGone' : uOutcome'[j] = "executed"
    BY <1>2, <1>6, <2>3 DEF Accounts
  <2> QED BY <2>1, <2>2, <2>4 DEF Accounts
<1>17. Lists' /\ freed' \in [Places -> Nat]
  <2>1. FreeUserdata(i)
    BY <1>1, <1>3
  <2>2. oGone' \cup uGone' = oGone \cup uGone \cup {i}
    BY <1>8, <1>12
  <2> QED BY <1>1, <1>2, <1>4, <1>6, <1>14, <2>1, <2>2, SentLists
<1>18. OnStream(written[i].stream, AnsweredOuts(stream[written[i].stream].out, i))
  <2>1. Answer(i) /\ i \in Nat
    BY <1>1, <1>3, <1>4, PlacesAre
  <2> QED BY <1>2, <1>14, <2>1, AnswerIs
<1>19. Replies'
  <2>1. oHeld' \subseteq oHeld /\ uHeld' \subseteq uHeld
    BY <1>8, <1>11
  <2>2. \A y \in oHeld' \cup uHeld' : written[y].stream = written[i].stream => i < y
    <3>1. ASSUME NEW y \in uHeld'
          PROVE  written[y].stream # written[i].stream
      <4>1. y \in uKnown /\ i \in oKnown
        BY <1>8, <1>10, <3>1 DEF uKnown, oKnown
      <4> QED BY <1>2, <4>1, StreamsAssumption DEF Accounts
    <3>2. ASSUME NEW y \in oHeld', written[y].stream = written[i].stream
          PROVE  i < y
      <4>1. <<i, y>> \in Before /\ y \in Places
        <5>1. y \in Held(Tail(oLine), oActive, oPending)
          BY <1>10, <1>11, <3>2
        <5>2. y \in 1 .. handled
          BY <1>2, <1>11, <3>2 DEF Accounts, oKnown
        <5> QED BY <1>10, <1>26, <5>1, <5>2
      <4> QED BY <1>4, <4>1, Relations
    <3> QED BY <3>1, <3>2
  <2> QED BY <1>1, <1>2, <1>14, <1>18, <2>1, <2>2, SentReplies
<1>20. Ends'
  BY <1>1, <1>2, <1>18, EndsStay DEF OnStream
<1>21. Types'
  <2>1. stream' \in [Streams -> StreamState]
    BY <1>18 DEF OnStream
  <2>2. OrderedTypes' /\ UnorderedTypes' /\ LoopTypes'
    BY <1>1, <1>2, <1>4, <1>6, <1>17, <2>1 DEF Types, OrderedTypes, UnorderedTypes, LoopTypes
  <2> QED BY <1>1, <2>2, SameStore DEF Types
<1>22. Sending'
  <2>1. Elements(oRes') \subseteq Elements(oDelivered')
    BY <1>2, <1>4, <1>5, <1>6 DEF Sending
  <2>2. Elements(uRes') \subseteq Elements(uDelivered')
    BY <1>2, <1>5, <1>6 DEF Sending
  <2> QED BY <2>1, <2>2 DEF Sending
<1>23. Stations'
  <2>1. threaded
    BY <1>2 DEF Stations
  <2> QED BY <1>1, <1>2, <1>6, <2>1 DEF Stations
<1> QED BY <1>13, <1>16, <1>17, <1>19, <1>20, <1>21, <1>22, <1>23 DEF IInv

LEMMA SendUnorderedKeeps ==
  ASSUME IInv, SendResult, pc = "answer unordered"
  PROVE  IInv'
<1>1. /\ UNCHANGED <<oVars, uVars, threaded, pc, long, handled>>
      /\ written' = written /\ read' = read
      /\ results # <<>> /\ results' = Tail(results)
      /\ Answer(Head(results)) /\ FreeUserdata(Head(results))
  BY DEF SendResult, store
<1>2. Types /\ StoreTypes /\ LoopTypes /\ Accounts /\ Lists /\ Replies /\ Ends /\ Stations /\ Sending
  BY DEF IInv, Types
<1>24. /\ Good(Before, oLine, oActive, oPending, oGone, oDiscarded)
       /\ Good(Apart, uLine, uActive, uPending, uGone, uDiscarded)
  BY DEF IInv
<1>25. results \in Seq(Places) /\ uDone \in Seq(Places)
  BY <1>2 DEF Types, OrderedTypes, UnorderedTypes, LoopTypes
<1>26. /\ handled \in Nat /\ Len(written) \in Nat
       /\ \A x \in 1 .. handled : x \in 1 .. Len(written) /\ x \in Places
  BY <1>2, HandledIs
<1>27. \A x \in 1 .. handled : x <= handled
  BY <1>2, HandledMost
<1>3. PICK i : i = Head(results)
  OBVIOUS
<1>4. /\ i \in Places /\ Tail(results) \in Seq(Places)
      /\ Elements(results) = {i} \cup Elements(Tail(results))
  BY <1>1, <1>3, <1>25, TailIs
<1>5. uRes = results /\ uRes' = Tail(results) /\ oRes' = oRes
  BY <1>1 DEF oRes, uRes
<1>6. UNCHANGED <<oActive, oPending, oDone, oDelivered, oDiscarded,
                  uActive, uPending, uDone, uDelivered, uDiscarded, uOutcome>>
  BY <1>1 DEF oVars, uVars
<1>7. uLine # <<>> /\ Head(uLine) = i /\ uLine' = Tail(uLine)
  BY <1>1, <1>3, <1>5, <1>6, <1>25, LineTail DEF uLine
<1>8. UNCHANGED <<oLine, oGone, oHeld>>
  <2>1. UNCHANGED <<oLine, oGone>>
    BY <1>5, <1>6 DEF oLine, oGone
  <2> QED BY <1>6, <2>1 DEF oHeld
<1>9. oDiscarded = {} /\ uDiscarded = {}
  BY <1>2 DEF Stations
<1>10. /\ Good(Apart, Tail(uLine), uActive, uPending, uGone \cup {i}, {})
       /\ Held(Tail(uLine), uActive, uPending) = uHeld \ {i}
       /\ i \in uHeld
       /\ \A y \in Held(Tail(uLine), uActive, uPending) : <<i, y>> \in Apart
  <2>1. \A x \in Places : <<x, x>> \notin Apart
    BY NotItself
  <2>2. Good(Apart, uLine, uActive, uPending, uGone, {})
    BY <1>9, <1>24
  <2> QED BY <1>7, <2>1, <2>2, SentOff DEF uHeld
<1>11. uHeld' = uHeld \ {i}
  BY <1>6, <1>7, <1>10, GoodNext
<1>12. uGone' = uGone \cup {i}
  <2>1. i \in Elements(uDelivered)
    BY <1>2, <1>4, <1>5 DEF Sending
  <2>2. Elements(Tail(results)) \subseteq Elements(uLine')
    <3>1. uLine' = Tail(results) \o uDone
      BY <1>5, <1>6 DEF uLine
    <3>2. Elements(Tail(results) \o uDone) = Elements(Tail(results)) \cup Elements(uDone)
      <4>1. Tail(results) \in Seq(Places)
        BY <1>4
      <4>2. uDone \in Seq(Places)
        BY <1>25
      <4> QED BY <4>1, <4>2, ElementsConcat, Zenon
    <3> QED BY <3>1, <3>2
  <2>3. i \notin Elements(Tail(results))
    BY <1>7, <1>10, <2>2 DEF Held
  <2> QED BY <1>4, <1>5, <1>6, <2>1, <2>3 DEF uGone
<1>13. /\ Good(Before, oLine, oActive, oPending, oGone, oDiscarded)'
       /\ Good(Apart, uLine, uActive, uPending, uGone, uDiscarded)'
  <2>1. Good(Apart, uLine, uActive, uPending, uGone, uDiscarded)'
    <3>1. Good(Apart, uLine', uActive', uPending', uGone', uDiscarded')
      BY <1>6, <1>7, <1>9, <1>10, <1>12
    <3> QED BY <3>1, GoodNext
  <2>2. Good(Before, oLine, oActive, oPending, oGone, oDiscarded)'
    <3>1. Good(Before, oLine', oActive', oPending', oGone', oDiscarded')
      BY <1>6, <1>8, <1>24
    <3> QED BY <3>1, GoodNext
  <2> QED BY <2>1, <2>2
<1>14. /\ i \in 1 .. handled /\ i \in oHeld \cup uHeld /\ i <= handled
       /\ written[i].stream \in Streams /\ i \notin oGone \cup uGone
  <2>1. i \in uKnown
    BY <1>10 DEF uKnown
  <2>2. i \in 1 .. handled /\ written[i].stream \in Unary
    BY <1>2, <2>1 DEF Accounts
  <2>3. i \notin uGone
    BY <1>10, <1>24 DEF Good, uHeld
  <2>4. i \notin oGone
    BY <1>2, <2>2, StreamsAssumption DEF Accounts, oKnown
  <2>5. i <= handled /\ i \in oHeld \cup uHeld
    <3>1. i \in oHeld \cup uHeld
      BY <1>10
    <3>2. i <= handled
      BY <1>27, <2>2
    <3> QED BY <3>1, <3>2
  <2>6. written[i].stream \in Streams
    BY <2>2 DEF Streams
  <2> QED BY <2>2, <2>3, <2>4, <2>5, <2>6
<1>15. oKnown' = oKnown /\ uKnown' = uKnown
  BY <1>6, <1>8, <1>10, <1>11, <1>12 DEF oKnown, uKnown
<1>16. Accounts'
  <2>1. /\ \A j \in oKnown' : j \in 1 .. handled' /\ written'[j].stream \in Streaming
        /\ \A j \in uKnown' : j \in 1 .. handled' /\ written'[j].stream \in Unary /\ ~Refused(written'[j])
        /\ threaded' => \A j \in 1 .. handled' : ~Refused(written'[j]) => j \in oKnown' \cup uKnown'
    BY <1>1, <1>2, <1>15 DEF Accounts
  <2>2. \A j \in Places : uOutcome'[j] = "executed" => j \in uKnown'
    BY <1>2, <1>6, <1>15 DEF Accounts
  <2>3. Elements(uLine') \cup uGone' \subseteq Elements(uLine) \cup uGone
    <3>1. i \in Elements(uLine) /\ Elements(uLine') \subseteq Elements(uLine)
      <4>1. uLine \in Seq(Places)
        BY <1>24 DEF Good
      <4> QED BY <1>7, <4>1, TailIs
    <3> QED BY <1>12, <3>1
  <2>4. \A j \in Elements(uLine') \cup uGone' : uOutcome'[j] = "executed"
    BY <1>2, <1>6, <2>3 DEF Accounts
  <2> QED BY <2>1, <2>2, <2>4 DEF Accounts
<1>17. Lists' /\ freed' \in [Places -> Nat]
  <2>1. FreeUserdata(i)
    BY <1>1, <1>3
  <2>2. oGone' \cup uGone' = oGone \cup uGone \cup {i}
    BY <1>8, <1>12
  <2> QED BY <1>1, <1>2, <1>4, <1>6, <1>14, <2>1, <2>2, SentLists
<1>18. OnStream(written[i].stream, AnsweredOuts(stream[written[i].stream].out, i))
  <2>1. Answer(i) /\ i \in Nat
    BY <1>1, <1>3, <1>4, PlacesAre
  <2> QED BY <1>2, <1>14, <2>1, AnswerIs
<1>19. Replies'
  <2>1. oHeld' \subseteq oHeld /\ uHeld' \subseteq uHeld
    BY <1>8, <1>11
  <2>2. \A y \in oHeld' \cup uHeld' : written[y].stream = written[i].stream => i < y
    <3>1. ASSUME NEW y \in oHeld'
          PROVE  written[y].stream # written[i].stream
      <4>1. y \in oKnown /\ i \in uKnown
        BY <1>8, <1>10, <3>1 DEF oKnown, uKnown
      <4> QED BY <1>2, <4>1, StreamsAssumption DEF Accounts
    <3>2. ASSUME NEW y \in uHeld', written[y].stream = written[i].stream
          PROVE  i < y
      <4>1. y \in uHeld /\ y # i /\ y \in uKnown /\ i \in uKnown
        BY <1>10, <1>11, <3>2 DEF uKnown
      <4>2. /\ y \in 1 .. Len(written) /\ i \in 1 .. Len(written)
            /\ written[y].end /\ written[i].end
        <5>1. \A x \in uKnown : x \in 1 .. Len(written) /\ written[x].end
          <6> SUFFICES ASSUME NEW x \in uKnown
                       PROVE  x \in 1 .. Len(written) /\ written[x].end
            OBVIOUS
          <6>1. x \in 1 .. Len(written) /\ written[x].stream \in Unary /\ ~Refused(written[x])
            BY <1>2, <1>26 DEF Accounts
          <6> QED BY <1>2, <6>1, GoodRequest
        <5> QED BY <4>1, <5>1
      <4>3. y = i
        BY <1>2, <3>2, <4>2, OneEnd
      <4> QED BY <4>1, <4>3
    <3> QED BY <3>1, <3>2
  <2> QED BY <1>1, <1>2, <1>14, <1>18, <2>1, <2>2, SentReplies
<1>20. Ends'
  BY <1>1, <1>2, <1>18, EndsStay DEF OnStream
<1>21. Types'
  <2>1. stream' \in [Streams -> StreamState]
    BY <1>18 DEF OnStream
  <2>2. OrderedTypes' /\ UnorderedTypes' /\ LoopTypes'
    BY <1>1, <1>2, <1>4, <1>6, <1>17, <2>1 DEF Types, OrderedTypes, UnorderedTypes, LoopTypes
  <2> QED BY <1>1, <2>2, SameStore DEF Types
<1>22. Sending'
  <2>1. Elements(uRes') \subseteq Elements(uDelivered')
    BY <1>2, <1>4, <1>5, <1>6 DEF Sending
  <2>2. Elements(oRes') \subseteq Elements(oDelivered')
    BY <1>2, <1>5, <1>6 DEF Sending
  <2> QED BY <2>1, <2>2 DEF Sending
<1>23. Stations'
  <2>1. threaded
    BY <1>2 DEF Stations
  <2> QED BY <1>1, <1>2, <1>6, <2>1 DEF Stations
<1> QED BY <1>13, <1>16, <1>17, <1>19, <1>20, <1>21, <1>22, <1>23 DEF IInv

LEMMA SendResultKeeps ==
  ASSUME IInv, SendResult
  PROVE  IInv'
  BY SendOrderedKeeps, SendUnorderedKeeps DEF SendResult

-----------------------------------------------------------------------------
(* Handling an event *)

\* The next event is one nobody has seen.
LEMMA NextEvent ==
  ASSUME StoreTypes, Accounts, handled < Len(read), NEW i, i = handled + 1
  PROVE  /\ i \in Places /\ read[i] = written[i]
         /\ written[i].stream \in Streams
         /\ written[i].kind = "message" \/ written[i].kind = "dataloss"
         /\ i \notin oKnown \cup uKnown /\ uOutcome[i] # "executed"
<1>1. /\ handled \in Nat /\ Len(read) \in Nat /\ Len(written) \in Nat
      /\ Len(read) <= Len(written) /\ Len(written) <= MaxEvents
  BY HandledIs DEF StoreTypes
<1>2. i \in Places
  BY <1>1, PlacesAre
<1>3. i \in 1 .. Len(read) /\ i \in 1 .. Len(written) /\ i \notin 1 .. handled
  BY <1>1
<1>4. read[i] = written[i] /\ written[i] \in Reported
  BY <1>3 DEF StoreTypes
<1>5. /\ written[i].stream \in Streams
      /\ written[i].kind = "message" \/ written[i].kind = "dataloss"
  <2>1. PICK s \in Streams : written[i] \in Reports(s)
    BY <1>4, Zenon DEF Reported
  <2> QED BY <2>1, ReportIs
<1>6. i \notin oKnown \cup uKnown
  BY <1>3 DEF Accounts
<1>7. uOutcome[i] # "executed"
  BY <1>2, <1>6 DEF Accounts
<1> QED BY <1>2, <1>4, <1>5, <1>6, <1>7

LEMMA NextStore ==
  ASSUME StoreTypes, handled < Len(read), handled' = handled + 1,
         written' = written, read' = read
  PROVE  /\ StoreTypes'
         /\ \A x \in 1 .. handled : x \in 1 .. handled' /\ x < handled'
         /\ \A x \in 1 .. handled' : x \in 1 .. handled \/ x = handled'
         /\ \A x \in Nat : x <= handled' <=> x <= handled \/ x = handled'
         /\ handled' \in 1 .. handled' /\ handled' # 0
<1>1. handled \in Nat /\ Len(read) \in Nat
  BY HandledIs
<1>2. handled + 1 \in 0 .. Len(read)
  BY <1>1
<1>3. StoreTypes'
  BY <1>2 DEF StoreTypes
<1> QED BY <1>1, <1>3

\* No list is freed by it.
LEMMA NextLists ==
  ASSUME StoreTypes, Accounts, Lists, handled < Len(read), handled' = handled + 1, read' = read,
         UNCHANGED <<written, freed, uOutcome, oGone, uGone>>
  PROVE  Lists'
<1> SUFFICES ASSUME NEW j \in Places
             PROVE  Released(j)' <=> Released(j)
  BY DEF Lists
<1>1. FreedByCallback(j)' <=> FreedByCallback(j)
  BY DEF FreedByCallback
<1>2. j <= handled' <=> j <= handled \/ j = handled'
  BY NextStore, PlacesAre
<1>3. CASE j # handled'
  BY <1>1, <1>2, <1>3 DEF Released
<1>4. CASE j = handled'
  <2>1. j \notin oGone \cup uGone /\ uOutcome[j] # "executed"
    BY <1>4, NextEvent DEF oKnown, uKnown
  <2> QED BY <1>1, <2>1 DEF Released
<1> QED BY <1>3, <1>4

\* It is a task of the pool of its stream, or refused.
LEMMA NextAccounts ==
  ASSUME StoreTypes, Accounts, handled < Len(read), handled' = handled + 1, read' = read,
         UNCHANGED <<written, uOutcome, threaded, uLine, uGone>>,
         NEW o \in SUBSET {handled'}, NEW u \in SUBSET {handled'},
         oKnown' = oKnown \cup o, uKnown' = uKnown \cup u,
         handled' \in o => written[handled'].stream \in Streaming,
         handled' \in u => written[handled'].stream \in Unary /\ ~Refused(written[handled']),
         threaded /\ ~Refused(written[handled']) => handled' \in o \cup u
  PROVE  Accounts'
<1>1. /\ \A x \in 1 .. handled : x \in 1 .. handled'
      /\ \A x \in 1 .. handled' : x \in 1 .. handled \/ x = handled'
      /\ handled' \in 1 .. handled'
  BY NextStore
<1>2. \A i \in oKnown' : i \in 1 .. handled' /\ written'[i].stream \in Streaming
  BY <1>1 DEF Accounts
<1>3. \A i \in uKnown' : i \in 1 .. handled' /\ written'[i].stream \in Unary /\ ~Refused(written'[i])
  BY <1>1 DEF Accounts
<1>4. threaded' => \A i \in 1 .. handled' : ~Refused(written'[i]) => i \in oKnown' \cup uKnown'
  BY <1>1 DEF Accounts
<1>5. /\ \A i \in Places : uOutcome'[i] = "executed" => i \in uKnown'
      /\ \A i \in Elements(uLine') \cup uGone' : uOutcome'[i] = "executed"
  BY DEF Accounts
<1> QED BY <1>2, <1>3, <1>4, <1>5 DEF Accounts

\* Its task comes after all that was answered.
LEMMA NextAnswers ==
  ASSUME StoreTypes, handled < Len(read), handled' = handled + 1, read' = read, written' = written,
         oHeld' \subseteq oHeld \cup {handled'}, uHeld' \subseteq uHeld \cup {handled'}
  PROVE  \A u \in Streams, x \in 1 .. handled : Answers(x, u) => AnswersNext(x, u)
<1>1. \A x \in 1 .. handled : x \in 1 .. handled' /\ x < handled'
  BY NextStore
<1>2. \A y \in oHeld' \cup uHeld' : y \in oHeld \cup uHeld \/ y = handled'
  OBVIOUS
<1> QED BY <1>1, <1>2 DEF Answers, AnswersNext

LEMMA NextEnded ==
  ASSUME Types, Replies, handled < Len(read), handled' = handled + 1, read' = read, written' = written,
         oHeld' \subseteq oHeld \cup {handled'}, uHeld' \subseteq uHeld \cup {handled'},
         NEW s \in Streams, OnStream(s, Ended(stream[s].out))
  PROVE  Replies'
<1> DEFINE out == stream[s].out
           Outs == Ended(out)
<1>1. \A u \in Streams, x \in 1 .. handled : Answers(x, u) => AnswersNext(x, u)
  BY NextAnswers DEF Types
<1>2. stream[s] \in StreamState
  BY DEF Types, LoopTypes
<1>3. out \in Seq(Nat)
  BY <1>2, FieldsOf
<1>4. /\ InOrder(out, s)
      /\ \A k \in DOMAIN out : out[k] # Trailers => Answers(out[k], s)
  BY DEF Replies
<1>5. \A k \in DOMAIN out : out[k] # Trailers => AnswersNext(out[k], s)
  BY <1>1, <1>4 DEF Answers
<1>6. OnStream(s, Outs)
  OBVIOUS
<1> HIDE DEF out
<1>7. ASSUME NEW o \in Outs
      PROVE  InOrder(o, s) /\ \A k \in DOMAIN o : o[k] # Trailers => AnswersNext(o[k], s)
  <2>1. /\ InOrder(o, s)
        /\ \A k \in DOMAIN o : o[k] = Trailers \/ \E j \in DOMAIN out : o[k] = out[j]
    BY <1>3, <1>4, <1>7, EndedInOrder
  <2> QED BY <1>5, <2>1
<1> HIDE DEF Outs
<1> QED BY <1>1, <1>6, <1>7, RepliesKeep

\* The event leads to no task: its stream is ended, or answered at once.
LEMMA AnsweredKeeps ==
  ASSUME IInv, pc = "events", handled < Len(read), handled' = handled + 1,
         UNCHANGED <<oVars, uVars, written, read, threaded, pc, long, results, freed>>,
         NEW s \in Streams, NEW Outs, OnStream(s, Outs), Replies',
         threaded => Refused(written[handled'])
  PROVE  IInv'
<1>1. Types /\ StoreTypes /\ LoopTypes /\ Accounts /\ Lists /\ Replies /\ Ends /\ Stations /\ Sending
  BY DEF IInv, Types
<1>2. PoolsStand /\ Sending' /\ UNCHANGED <<oHeld, uHeld, PoolsEmpty>>
  BY <1>1, PoolsStay
<1>3. /\ Good(Before, oLine, oActive, oPending, oGone, oDiscarded)'
      /\ Good(Apart, uLine, uActive, uPending, uGone, uDiscarded)'
  <2>1. /\ Good(Before, oLine', oActive', oPending', oGone', oDiscarded')
        /\ Good(Apart, uLine', uActive', uPending', uGone', uDiscarded')
    BY <1>2 DEF IInv, PoolsStand
  <2> QED BY <2>1, GoodNext
<1>4. oKnown' = oKnown \cup {} /\ uKnown' = uKnown \cup {}
  BY <1>2 DEF PoolsStand, oKnown, uKnown
<1>5. Accounts'
  <2>1. {} \in SUBSET {handled'}
    OBVIOUS
  <2> QED BY <1>1, <1>2, <1>4, <2>1, NextAccounts DEF PoolsStand
<1>6. Lists'
  BY <1>1, <1>2, NextLists DEF PoolsStand
<1>7. Ends'
  BY <1>1, EndsStay DEF OnStream
<1>8. Stations'
  BY <1>1, <1>2, StationsStay DEF oVars, uVars
<1>9. Types'
  <2>1. StoreTypes'
    BY <1>1, NextStore
  <2>2. OrderedTypes' /\ UnorderedTypes'
    BY <1>1 DEF Types, OrderedTypes, UnorderedTypes, oVars, uVars
  <2>3. LoopTypes'
    BY <1>1 DEF LoopTypes, OnStream
  <2> QED BY <2>1, <2>2, <2>3 DEF Types
<1> QED BY <1>2, <1>3, <1>5, <1>6, <1>7, <1>8, <1>9 DEF IInv

LEMMA RefusedKeeps ==
  ASSUME IInv, pc = "events", handled < Len(read), handled' = handled + 1,
         UNCHANGED <<oVars, uVars, written, read, threaded, pc, long, results, freed>>,
         NEW s \in Streams, OnStream(s, Ended(stream[s].out)),
         threaded => Refused(written[handled'])
  PROVE  IInv'
<1>1. UNCHANGED <<oHeld, uHeld>> /\ Types /\ Replies
  BY PoolsStay DEF IInv
<1>2. Replies'
  BY <1>1, NextEnded
<1> QED BY <1>2, AnsweredKeeps

LEMMA AddOrderedKeeps ==
  ASSUME IInv, pc = "events", handled < Len(read), handled' = handled + 1, threaded,
         UNCHANGED <<uVars, written, read, threaded, pc, long, results, freed, stream>>,
         written[handled'].stream \notin Unary, ~Refused(written[handled']),
         O!Submit(handled')
  PROVE  IInv'
<1>1. Types /\ StoreTypes /\ LoopTypes /\ Accounts /\ Lists /\ Replies /\ Ends /\ Stations /\ Sending
  BY DEF IInv, Types
<1>2. PICK i : i = handled'
  OBVIOUS
<1>3. /\ i \in Places /\ written[i].stream \in Streams
      /\ i \notin oKnown \cup uKnown
  BY <1>1, <1>2, NextEvent
<1>4. /\ oPending' = Append(oPending, i)
      /\ UNCHANGED <<oActive, oOutcome, oDone, oDelivered, oDiscarded>>
  BY <1>2 DEF O!Submit
<1>5. UNCHANGED <<uActive, uPending, uOutcome, uDone, uDelivered, uDiscarded>>
  BY DEF uVars
<1>6. oRes' = oRes /\ uRes' = uRes
  BY DEF oRes, uRes
<1>7. UNCHANGED <<oLine, uLine, oGone, uGone, oDiscarded, uDiscarded>>
  BY <1>4, <1>5, <1>6 DEF oLine, uLine, oGone, uGone
<1>8. uHeld' = uHeld
  BY <1>5, <1>7 DEF uHeld
<1>9. \A y \in oHeld : <<y, i>> \in Before
  <2> SUFFICES ASSUME NEW y \in oHeld
               PROVE  <<y, i>> \in Before
    OBVIOUS
  <2>1. y \in 1 .. handled
    BY <1>1 DEF Accounts, oKnown
  <2>2. y \in Places
    BY <1>1, <2>1, HandledIs
  <2>3. y < i
    BY <1>1, <1>2, <2>1, NextStore
  <2> QED BY <1>3, <2>2, <2>3, Relations
<1>10. /\ Good(Before, oLine, oActive, Append(oPending, i), oGone, oDiscarded)
       /\ Held(oLine, oActive, Append(oPending, i)) = oHeld \cup {i}
  <2>1. Good(Before, oLine, oActive, oPending, oGone, oDiscarded)
    BY DEF IInv
  <2>2. i \notin oGone
    BY <1>3 DEF oKnown
  <2> QED BY <1>3, <1>9, <2>1, <2>2, Submitted DEF oHeld
<1>11. oHeld' = oHeld \cup {i}
  BY <1>4, <1>7, <1>10, GoodNext
<1>12. /\ Good(Before, oLine, oActive, oPending, oGone, oDiscarded)'
       /\ Good(Apart, uLine, uActive, uPending, uGone, uDiscarded)'
  <2>1. Good(Before, oLine, oActive, oPending, oGone, oDiscarded)'
    <3>1. Good(Before, oLine', oActive', oPending', oGone', oDiscarded')
      BY <1>4, <1>7, <1>10
    <3> QED BY <3>1, GoodNext
  <2>2. Good(Apart, uLine, uActive, uPending, uGone, uDiscarded)'
    <3>1. Good(Apart, uLine', uActive', uPending', uGone', uDiscarded')
      BY <1>5, <1>7 DEF IInv
    <3> QED BY <3>1, GoodNext
  <2> QED BY <2>1, <2>2
<1>13. oKnown' = oKnown \cup {handled'} /\ uKnown' = uKnown \cup {}
  BY <1>2, <1>7, <1>8, <1>11 DEF oKnown, uKnown
<1>14. uOutcome' = uOutcome
  BY <1>4, <1>5
<1>15. Accounts'
  <2>1. {} \in SUBSET {handled'} /\ {handled'} \in SUBSET {handled'}
    OBVIOUS
  <2>2. written[handled'].stream \in Streaming
    BY <1>2, <1>3 DEF Streams
  <2> QED BY <1>1, <1>7, <1>13, <1>14, <2>1, <2>2, NextAccounts
<1>16. Lists'
  BY <1>1, <1>7, <1>14, NextLists
<1>17. Replies'
  <2>1. PICK s \in Streams : s = written[i].stream
    BY <1>3
  <2>2. OnStream(s, Ended(stream[s].out))
    BY <1>1 DEF OnStream, Ended, LoopTypes
  <2>3. oHeld' \subseteq oHeld \cup {handled'} /\ uHeld' \subseteq uHeld \cup {handled'}
    BY <1>2, <1>8, <1>11
  <2> QED BY <1>1, <2>2, <2>3, NextEnded
<1>18. Ends'
  BY <1>1, EndsStay
<1>19. Sending'
  BY <1>1, <1>4, <1>5, <1>6 DEF Sending
<1>20. Stations'
  BY <1>1, <1>7 DEF Stations
<1>21. Types'
  <2>1. StoreTypes'
    BY <1>1, NextStore
  <2>2. Append(oPending, i) \in Seq(Places)
    BY <1>1, <1>3, AppendProperties DEF Types, OrderedTypes, UnorderedTypes
  <2>3. OrderedTypes' /\ UnorderedTypes' /\ LoopTypes'
    BY <1>1, <1>4, <1>5, <1>14, <2>2 DEF Types, OrderedTypes, UnorderedTypes, LoopTypes
  <2> QED BY <2>1, <2>3 DEF Types
<1> QED BY <1>12, <1>15, <1>16, <1>17, <1>18, <1>19, <1>20, <1>21 DEF IInv

LEMMA AddUnorderedKeeps ==
  ASSUME IInv, pc = "events", handled < Len(read), handled' = handled + 1, threaded,
         UNCHANGED <<oVars, written, read, threaded, pc, long, results, freed, stream>>,
         written[handled'].stream \in Unary, ~Refused(written[handled']),
         U!Submit(handled')
  PROVE  IInv'
<1>1. Types /\ StoreTypes /\ LoopTypes /\ Accounts /\ Lists /\ Replies /\ Ends /\ Stations /\ Sending
  BY DEF IInv, Types
<1>2. PICK i : i = handled'
  OBVIOUS
<1>3. /\ i \in Places /\ written[i].stream \in Streams
      /\ i \notin oKnown \cup uKnown
  BY <1>1, <1>2, NextEvent
<1>4. /\ uPending' = Append(uPending, i)
      /\ UNCHANGED <<uActive, uOutcome, uDone, uDelivered, uDiscarded>>
  BY <1>2 DEF U!Submit
<1>5. UNCHANGED <<oActive, oPending, oOutcome, oDone, oDelivered, oDiscarded>>
  BY DEF oVars
<1>6. oRes' = oRes /\ uRes' = uRes
  BY DEF oRes, uRes
<1>7. UNCHANGED <<oLine, uLine, oGone, uGone, oDiscarded, uDiscarded>>
  BY <1>4, <1>5, <1>6 DEF oLine, uLine, oGone, uGone
<1>8. oHeld' = oHeld
  BY <1>5, <1>7 DEF oHeld
<1>9. \A y \in uHeld : <<y, i>> \in Apart
  <2> SUFFICES ASSUME NEW y \in uHeld
               PROVE  <<y, i>> \in Apart
    OBVIOUS
  <2>1. y \in uKnown
    BY DEF uKnown
  <2>2. y \in 1 .. handled
    BY <1>1, <2>1 DEF Accounts
  <2>3. y \in Places
    BY <1>1, <2>2, HandledIs
  <2> QED BY <1>3, <2>1, <2>3, Relations
<1>10. /\ Good(Apart, uLine, uActive, Append(uPending, i), uGone, uDiscarded)
       /\ Held(uLine, uActive, Append(uPending, i)) = uHeld \cup {i}
  <2>1. Good(Apart, uLine, uActive, uPending, uGone, uDiscarded)
    BY DEF IInv
  <2>2. i \notin uGone
    BY <1>3 DEF uKnown
  <2> QED BY <1>3, <1>9, <2>1, <2>2, Submitted DEF uHeld
<1>11. uHeld' = uHeld \cup {i}
  BY <1>4, <1>7, <1>10, GoodNext
<1>12. /\ Good(Before, oLine, oActive, oPending, oGone, oDiscarded)'
       /\ Good(Apart, uLine, uActive, uPending, uGone, uDiscarded)'
  <2>1. Good(Apart, uLine, uActive, uPending, uGone, uDiscarded)'
    <3>1. Good(Apart, uLine', uActive', uPending', uGone', uDiscarded')
      BY <1>4, <1>7, <1>10
    <3> QED BY <3>1, GoodNext
  <2>2. Good(Before, oLine, oActive, oPending, oGone, oDiscarded)'
    <3>1. Good(Before, oLine', oActive', oPending', oGone', oDiscarded')
      BY <1>5, <1>7 DEF IInv
    <3> QED BY <3>1, GoodNext
  <2> QED BY <2>1, <2>2
<1>13. uKnown' = uKnown \cup {handled'} /\ oKnown' = oKnown \cup {}
  BY <1>2, <1>7, <1>8, <1>11 DEF oKnown, uKnown
<1>14. uOutcome' = uOutcome
  BY <1>4, <1>5
<1>15. Accounts'
  <2>1. {} \in SUBSET {handled'} /\ {handled'} \in SUBSET {handled'}
    OBVIOUS
  <2>2. written[handled'].stream \in Unary
    BY <1>2, <1>3 DEF Streams
  <2> QED BY <1>1, <1>7, <1>13, <1>14, <2>1, <2>2, NextAccounts
<1>16. Lists'
  BY <1>1, <1>7, <1>14, NextLists
<1>17. Replies'
  <2>1. PICK s \in Streams : s = written[i].stream
    BY <1>3
  <2>2. OnStream(s, Ended(stream[s].out))
    BY <1>1 DEF OnStream, Ended, LoopTypes
  <2>3. oHeld' \subseteq oHeld \cup {handled'} /\ uHeld' \subseteq uHeld \cup {handled'}
    BY <1>2, <1>8, <1>11
  <2> QED BY <1>1, <2>2, <2>3, NextEnded
<1>18. Ends'
  BY <1>1, EndsStay
<1>19. Sending'
  BY <1>1, <1>4, <1>5, <1>6 DEF Sending
<1>20. Stations'
  BY <1>1, <1>7 DEF Stations
<1>21. Types'
  <2>1. StoreTypes'
    BY <1>1, NextStore
  <2>2. Append(uPending, i) \in Seq(Places)
    BY <1>1, <1>3, AppendProperties DEF Types, OrderedTypes, UnorderedTypes
  <2>3. OrderedTypes' /\ UnorderedTypes' /\ LoopTypes'
    BY <1>1, <1>4, <1>5, <1>14, <2>2 DEF Types, OrderedTypes, UnorderedTypes, LoopTypes
  <2> QED BY <2>1, <2>3 DEF Types
<1> QED BY <1>12, <1>15, <1>16, <1>17, <1>18, <1>19, <1>20, <1>21 DEF IInv

LEMMA HandleEventKeeps ==
  ASSUME IInv, HandleEvent
  PROVE  IInv'
<1>1. /\ pc = "events" /\ handled < Len(read) /\ threaded /\ handled' = handled + 1
      /\ UNCHANGED <<written, read, threaded, pc, long, results, freed>>
  BY DEF HandleEvent, store
<1>2. PICK i : i = handled + 1
  OBVIOUS
<1>3. /\ Types /\ StoreTypes /\ LoopTypes
      /\ read[i] = written[i] /\ written[i].stream \in Streams
  BY <1>1, <1>2, NextEvent DEF IInv, Types
<1>4. CASE Refused(read[i])
  <2>1. StreamEnd(read[i].stream) /\ UNCHANGED <<oVars, uVars>>
    BY <1>2, <1>4 DEF HandleEvent
  <2>2. PICK s \in Streams : s = written[i].stream
    BY <1>3
  <2>3. OnStream(s, Ended(stream[s].out))
    BY <1>3, <2>1, <2>2, StreamEndIs
  <2> QED BY <1>1, <1>2, <1>3, <1>4, <2>1, <2>3, RefusedKeeps
<1>5. CASE ~Refused(read[i])
  <2>1. AddTask(handled') /\ UNCHANGED stream
    BY <1>1, <1>2, <1>5 DEF HandleEvent
  <2>2. ~Refused(written[handled'])
    BY <1>1, <1>2, <1>3, <1>5
  <2>3. CASE written[handled'].stream \in Unary
    <3>1. U!Submit(handled') /\ UNCHANGED oVars
      BY <2>1, <2>3 DEF AddTask
    <3> QED BY <1>1, <2>1, <2>2, <2>3, <3>1, AddUnorderedKeeps
  <2>4. CASE written[handled'].stream \notin Unary
    <3>1. O!Submit(handled') /\ UNCHANGED uVars
      BY <2>1, <2>4 DEF AddTask
    <3> QED BY <1>1, <2>1, <2>2, <2>4, <3>1, AddOrderedKeeps
  <2> QED BY <2>3, <2>4
<1> QED BY <1>4, <1>5

\* One loop answers at once, and holds nothing.
LEMMA InlineAnswers ==
  ASSUME Types, Accounts, Replies, oHeld' = {}, uHeld' = {},
         handled < Len(read), handled' = handled + 1, read' = read, written' = written,
         NEW s \in Streams, s = written[handled'].stream,
         OnStream(s, AnsweredOuts(stream[s].out, handled'))
  PROVE  Replies'
<1> DEFINE out == stream[s].out
           Outs == AnsweredOuts(out, handled')
<1>1. PICK i : i = handled'
  OBVIOUS
<1>2. StoreTypes /\ stream[s] \in StreamState
  BY DEF Types, LoopTypes
<1>3. out \in Seq(Nat)
  BY <1>2, FieldsOf
<1>4. /\ \A x \in 1 .. handled : x \in 1 .. handled' /\ x < handled'
      /\ handled' \in 1 .. handled' /\ handled' # 0
  BY <1>2, NextStore
<1>5. i \in Nat /\ i # Trailers
  <2>1. handled \in Nat
    BY <1>2, HandledIs
  <2> QED BY <1>1, <1>4, <2>1 DEF Trailers
<1>6. /\ InOrder(out, s)
      /\ \A k \in DOMAIN out : out[k] # Trailers => Answers(out[k], s)
  BY DEF Replies
<1>7. \A u \in Streams, x \in 1 .. handled : Answers(x, u) => AnswersNext(x, u)
  BY <1>4 DEF Answers, AnswersNext
<1>8. /\ \A k \in DOMAIN out : out[k] # Trailers => AnswersNext(out[k], s)
      /\ \A k \in DOMAIN out : out[k] # Trailers => out[k] < i
  BY <1>1, <1>4, <1>6, <1>7 DEF Answers
<1>9. AnswersNext(i, s)
  BY <1>1, <1>4 DEF AnswersNext
<1>10. OnStream(s, Outs) /\ written[i].stream = s
  BY <1>1
<1> HIDE DEF out
<1>11. ASSUME NEW o \in Outs
       PROVE  InOrder(o, s) /\ \A k \in DOMAIN o : o[k] # Trailers => AnswersNext(o[k], s)
  <2>1. o \in AnsweredOuts(out, i)
    BY <1>1, <1>11
  <2>2. /\ InOrder(o, s)
        /\ \A k \in DOMAIN o : \/ o[k] = Trailers \/ o[k] = i
                               \/ \E j \in DOMAIN out : o[k] = out[j]
    BY <1>3, <1>5, <1>6, <1>8, <1>10, <2>1, AnsweredInOrder
  <2> QED BY <1>8, <1>9, <2>2
<1> HIDE DEF Outs
<1> QED BY <1>7, <1>10, <1>11, RepliesKeep

LEMMA HandleInlineKeeps ==
  ASSUME IInv, HandleInline
  PROVE  IInv'
<1>1. /\ pc = "events" /\ handled < Len(read) /\ ~threaded /\ handled' = handled + 1
      /\ UNCHANGED <<oVars, uVars, written, read, threaded, pc, long, results, freed>>
  BY DEF HandleInline, store
<1>2. PICK i : i = handled + 1
  OBVIOUS
<1>3. /\ Types /\ StoreTypes /\ LoopTypes /\ Accounts /\ Replies /\ Stations /\ Sending
      /\ read[i] = written[i] /\ written[i].stream \in Streams
      /\ written[i].kind = "message" \/ written[i].kind = "dataloss"
  BY <1>1, <1>2, NextEvent DEF IInv, Types
<1>4. PICK s \in Streams : s = written[i].stream
  BY <1>3
<1>5. CASE Refused(read[i]) \/ read[i].kind = "dataloss"
  <2>1. StreamEnd(read[i].stream)
    BY <1>2, <1>5 DEF HandleInline
  <2>2. OnStream(s, Ended(stream[s].out))
    BY <1>3, <1>4, <2>1, StreamEndIs
  <2> QED BY <1>1, <2>2, RefusedKeeps
<1>6. CASE Answer(i)
  <2>1. i \in Nat
    BY <1>1, <1>2, <1>3, NextEvent, PlacesAre
  <2>2. OnStream(s, AnsweredOuts(stream[s].out, handled'))
    BY <1>1, <1>2, <1>3, <1>4, <1>6, <2>1, AnswerIs
  <2>3. oHeld' = {} /\ uHeld' = {}
    <3>1. UNCHANGED <<oHeld, uHeld>>
      BY <1>1, <1>3, PoolsStay
    <3> QED BY <1>1, <1>3, <3>1 DEF Stations
  <2>4. Replies'
    BY <1>1, <1>2, <1>3, <1>4, <2>2, <2>3, InlineAnswers
  <2> QED BY <1>1, <2>2, <2>4, AnsweredKeeps
<1>7. CASE ~Refused(read[i]) /\ read[i].kind = "message"
  <2>1. Answer(i)
    BY <1>2, <1>7 DEF HandleInline
  <2> QED BY <1>6, <2>1
<1> QED BY <1>3, <1>5, <1>7

-----------------------------------------------------------------------------
(* The pools are freed *)

LEMMA FreeOrderedKeeps ==
  ASSUME IInv, FreeOrdered
  PROVE  IInv'
<1>1. /\ UNCHANGED <<uVars, written, read, threaded, long, handled, results, stream, freed>>
      /\ pc = "free ordered" /\ pc' = "free unordered"
      /\ oActive = {} /\ oDiscarded' = oDiscarded \cup Elements(oDone) \cup Elements(oPending)
      /\ oDone' = <<>> /\ oPending' = <<>>
      /\ oActive' = {} /\ oDelivered' = oDelivered
  BY PoolNames DEF FreeOrdered, O!Close, store
<1>2. /\ Types /\ StoreTypes /\ LoopTypes /\ Accounts /\ Lists /\ Replies /\ Ends /\ Stations /\ Sending
  BY DEF IInv, Types
<1>3. results = <<>> /\ threaded
  BY <1>1, <1>2 DEF Stations
<1>4. oRes = <<>> /\ oRes' = <<>> /\ uRes' = uRes
  BY <1>1, <1>3 DEF oRes, uRes
<1>5. oLine = oDone /\ oLine' = <<>>
  <2>1. oDone \in Seq(Places)
    BY <1>2 DEF Types, OrderedTypes
  <2>2. <<>> \o oDone = oDone /\ <<>> \o <<>> = <<>>
    BY <2>1
  <2> QED BY <1>1, <1>4, <2>2 DEF oLine
<1>6. UNCHANGED <<uActive, uPending, uDone, uDelivered, uDiscarded, uOutcome>>
  BY <1>1 DEF uVars
<1>7. UNCHANGED <<oGone, uLine, uGone>>
  BY <1>1, <1>4, <1>6 DEF oGone, uLine, uGone
<1>8. uHeld' = uHeld
  BY <1>6, <1>7 DEF uHeld
<1>9. /\ Good(Before, oLine', oActive', oPending', oGone', oDiscarded')
      /\ oHeld' = {} /\ oDiscarded' = oDiscarded \cup oHeld
  <2>1. Good(Before, oDone, {}, oPending, oGone, oDiscarded)
    BY <1>1, <1>5 DEF IInv
  <2>2. /\ Good(Before, <<>>, {}, <<>>, oGone, oDiscarded \cup Elements(oDone) \cup Elements(oPending))
        /\ Held(<<>>, {}, <<>>) = {}
        /\ Held(oDone, {}, oPending) = Elements(oDone) \cup Elements(oPending)
    BY <2>1, DroppedAll
  <2>3. oHeld = Elements(oDone) \cup Elements(oPending)
    BY <1>1, <1>5, <2>2 DEF oHeld
  <2>4. oHeld' = {}
    BY <1>1, <1>5, <2>2, GoodNext
  <2> QED BY <1>1, <1>5, <1>7, <2>2, <2>3, <2>4
<1>10. /\ Good(Before, oLine, oActive, oPending, oGone, oDiscarded)'
       /\ Good(Apart, uLine, uActive, uPending, uGone, uDiscarded)'
  <2>1. Good(Apart, uLine', uActive', uPending', uGone', uDiscarded')
    BY <1>6, <1>7 DEF IInv
  <2> QED BY <1>9, <2>1, GoodNext
<1>11. oKnown' = oKnown /\ uKnown' = uKnown
  BY <1>6, <1>7, <1>8, <1>9 DEF oKnown, uKnown
<1>12. Accounts'
  BY <1>1, <1>2, <1>6, <1>7, <1>11 DEF Accounts
<1>13. Longer /\ SameOut /\ Ends'
  BY <1>1, SameStore, SameStream
<1>14. Lists'
  BY <1>1, <1>2, <1>6, <1>7, <1>13, ListsStay
<1>15. Replies'
  BY <1>1, <1>2, <1>8, <1>9, <1>13, RepliesStay
<1>16. Sending'
  BY <1>1, <1>2, <1>4, <1>6, Empty DEF Sending
<1>17. Stations'
  BY <1>1, <1>2, <1>3, <1>6, <1>8, <1>9 DEF Stations
<1>18. Types'
  <2>1. OrderedTypes'
    BY <1>1, <1>2, Empty DEF Types, OrderedTypes
  <2>2. UnorderedTypes' /\ LoopTypes'
    BY <1>1, <1>2, <1>6 DEF Types, UnorderedTypes, LoopTypes
  <2> QED BY <1>1, <2>1, <2>2, SameStore DEF Types
<1> QED BY <1>10, <1>12, <1>13, <1>14, <1>15, <1>16, <1>17, <1>18 DEF IInv

LEMMA FreeUnorderedKeeps ==
  ASSUME IInv, FreeUnordered
  PROVE  IInv'
<1>1. /\ UNCHANGED <<oVars, written, read, threaded, long, handled, results, stream, freed>>
      /\ pc = "free unordered" /\ pc' = "over"
      /\ uActive = {} /\ uDiscarded' = uDiscarded \cup Elements(uDone) \cup Elements(uPending)
      /\ uDone' = <<>> /\ uPending' = <<>>
      /\ uActive' = {} /\ uDelivered' = uDelivered /\ uOutcome' = uOutcome
  BY PoolNames DEF FreeUnordered, U!Close, store
<1>2. /\ Types /\ StoreTypes /\ LoopTypes /\ Accounts /\ Lists /\ Replies /\ Ends /\ Stations /\ Sending
  BY DEF IInv, Types
<1>3. results = <<>> /\ threaded
  BY <1>1, <1>2 DEF Stations
<1>4. uRes = <<>> /\ uRes' = <<>> /\ oRes' = oRes
  BY <1>1, <1>3 DEF oRes, uRes
<1>5. uLine = uDone /\ uLine' = <<>>
  <2>1. uDone \in Seq(Places)
    BY <1>2 DEF Types, UnorderedTypes
  <2>2. <<>> \o uDone = uDone /\ <<>> \o <<>> = <<>>
    BY <2>1
  <2> QED BY <1>1, <1>4, <2>2 DEF uLine
<1>6. UNCHANGED <<oActive, oPending, oDone, oDelivered, oDiscarded>>
  BY <1>1 DEF oVars
<1>7. UNCHANGED <<uGone, oLine, oGone>>
  BY <1>1, <1>4, <1>6 DEF oGone, oLine, uGone
<1>8. oHeld' = oHeld
  BY <1>6, <1>7 DEF oHeld
<1>9. /\ Good(Apart, uLine', uActive', uPending', uGone', uDiscarded')
      /\ uHeld' = {} /\ uDiscarded' = uDiscarded \cup uHeld
  <2>1. Good(Apart, uDone, {}, uPending, uGone, uDiscarded)
    BY <1>1, <1>5 DEF IInv
  <2>2. /\ Good(Apart, <<>>, {}, <<>>, uGone, uDiscarded \cup Elements(uDone) \cup Elements(uPending))
        /\ Held(<<>>, {}, <<>>) = {}
        /\ Held(uDone, {}, uPending) = Elements(uDone) \cup Elements(uPending)
    BY <2>1, DroppedAll
  <2>3. uHeld = Elements(uDone) \cup Elements(uPending)
    BY <1>1, <1>5, <2>2 DEF uHeld
  <2>4. uHeld' = {}
    BY <1>1, <1>5, <2>2, GoodNext
  <2> QED BY <1>1, <1>5, <1>7, <2>2, <2>3, <2>4
<1>10. /\ Good(Before, oLine, oActive, oPending, oGone, oDiscarded)'
       /\ Good(Apart, uLine, uActive, uPending, uGone, uDiscarded)'
  <2>1. Good(Before, oLine', oActive', oPending', oGone', oDiscarded')
    BY <1>6, <1>7 DEF IInv
  <2> QED BY <1>9, <2>1, GoodNext
<1>11. oKnown' = oKnown /\ uKnown' = uKnown
  BY <1>6, <1>7, <1>8, <1>9 DEF oKnown, uKnown
<1>12. Accounts'
  <2>1. Elements(uLine') = {}
    BY <1>5, Empty
  <2> QED BY <1>1, <1>2, <1>7, <1>11, <2>1 DEF Accounts
<1>13. Longer /\ SameOut /\ Ends'
  BY <1>1, SameStore, SameStream
<1>14. Lists'
  BY <1>1, <1>2, <1>7, <1>13, ListsStay
<1>15. Replies'
  BY <1>1, <1>2, <1>8, <1>9, <1>13, RepliesStay
<1>16. Sending'
  BY <1>1, <1>2, <1>4, <1>6, Empty DEF Sending
<1>17. Stations'
  BY <1>1, <1>2, <1>3, <1>6, <1>8, <1>9 DEF Stations
<1>18. Types'
  <2>1. UnorderedTypes'
    BY <1>1, <1>2, Empty DEF Types, UnorderedTypes
  <2>2. OrderedTypes' /\ LoopTypes'
    BY <1>1, <1>2, <1>6 DEF Types, OrderedTypes, LoopTypes
  <2> QED BY <1>1, <2>1, <2>2, SameStore DEF Types
<1> QED BY <1>10, <1>12, <1>13, <1>14, <1>15, <1>16, <1>17, <1>18 DEF IInv

-----------------------------------------------------------------------------
(* The inductive invariant *)

LEMMA InitInv ==
  ASSUME Init
  PROVE  IInv
<1>1. /\ written = <<>> /\ read = <<>> /\ handled = 0 /\ results = <<>> /\ pc = "top"
      /\ threaded \in BOOLEAN /\ freed = [i \in Places |-> 0]
      /\ stream = [s \in Streams |-> [is |-> "open", closed |-> FALSE, out |-> <<>>]]
  BY DEF Init, E!Init
<1>2. /\ oPending = <<>> /\ oDone = <<>> /\ oDelivered = <<>> /\ oActive = {} /\ oDiscarded = {}
      /\ uPending = <<>> /\ uDone = <<>> /\ uDelivered = <<>> /\ uActive = {} /\ uDiscarded = {}
      /\ uOutcome = [i \in Places |-> "none"]
  BY DEF Init, O!Init, U!Init
<1>3. oRes = <<>> /\ uRes = <<>> /\ oLine = <<>> /\ uLine = <<>>
  <2>1. oRes = <<>> /\ uRes = <<>>
    BY <1>1 DEF oRes, uRes
  <2>2. <<>> \o <<>> = <<>>
    OBVIOUS
  <2> QED BY <1>2, <2>1, <2>2 DEF oLine, uLine
<1>4. oGone = {} /\ uGone = {} /\ oHeld = {} /\ uHeld = {}
  BY <1>2, <1>3, Empty DEF oGone, uGone, oHeld, uHeld, Held
<1>5. oKnown = {} /\ uKnown = {}
  BY <1>2, <1>4 DEF oKnown, uKnown
<1>6. \A s \in Streams : stream[s].out = <<>>
  BY <1>1
<1>7. Types
  <2>1. StoreTypes
    <3>1. 0 <= MaxEvents /\ <<>> \in Seq(Reported) /\ Len(<<>>) = 0
      BY PlacesAre
    <3> QED BY <1>1, <3>1 DEF StoreTypes
  <2>2. OrderedTypes /\ UnorderedTypes
    BY <1>2, Empty DEF OrderedTypes, UnorderedTypes
  <2>3. LoopTypes
    <3>1. stream \in [Streams -> StreamState]
      BY <1>1 DEF StreamState
    <3>2. freed \in [Places -> Nat]
      BY <1>1
    <3> QED BY <1>1, <3>1, <3>2, Empty DEF LoopTypes
  <2> QED BY <2>1, <2>2, <2>3 DEF Types
<1>8. Stations
  BY <1>1, <1>2, <1>4 DEF Stations
<1>9. Sending
  BY <1>2, <1>3 DEF Sending
<1>10. /\ Good(Before, oLine, oActive, oPending, oGone, oDiscarded)
       /\ Good(Apart, uLine, uActive, uPending, uGone, uDiscarded)
  BY <1>2, <1>3, <1>4, Empty DEF Good, Lined, Held
<1>11. Accounts
  BY <1>1, <1>2, <1>3, <1>4, <1>5, Empty DEF Accounts
<1>12. Lists
  <2> SUFFICES ASSUME NEW i \in Places
               PROVE  ~Released(i)
    BY <1>1 DEF Lists
  <2> QED BY <1>2, <1>4 DEF Released
<1>13. Ends
  BY <1>1 DEF Ends
<1>14. Replies
  BY <1>6, Empty DEF Replies, InOrder
<1> QED BY <1>7, <1>8, <1>9, <1>10, <1>11, <1>12, <1>13, <1>14 DEF IInv

LEMMA StepKeeps ==
  ASSUME IInv, [Next]_vars
  PROVE  IInv'
<1>1. CASE MainStep
  <2>1. CASE LoopTop
    BY <2>1, LoopTopKeeps
  <2>2. CASE PollReturns
    BY <2>2, PollReturnsKeeps
  <2>3. CASE EventsRead
    BY <2>3, EventsReadKeeps
  <2>4. CASE HandleEvent
    BY <2>4, HandleEventKeeps
  <2>5. CASE HandleInline
    BY <2>5, HandleInlineKeeps
  <2>6. CASE PollOrdered
    BY <2>6, PollOrderedKeeps
  <2>7. CASE PollUnordered
    BY <2>7, PollUnorderedKeeps
  <2>8. CASE SendResult
    BY <2>8, SendResultKeeps
  <2>9. CASE ResultsDone
    BY <2>9, ResultsDoneKeeps
  <2>10. CASE ServerFree
    BY <2>10, ServerFreeKeeps
  <2>11. CASE FreeOrdered
    BY <2>11, FreeOrderedKeeps
  <2>12. CASE FreeUnordered
    BY <2>12, FreeUnorderedKeeps
  <2> QED BY <1>1, <2>1, <2>2, <2>3, <2>4, <2>5, <2>6, <2>7, <2>8, <2>9, <2>10, <2>11, <2>12
          DEF MainStep
<1>2. CASE PollFails
  BY <1>2, PollFailsKeeps
<1>3. CASE OrderedWorker
  BY <1>3, OrderedWorkerKeeps
<1>4. CASE UnorderedWorker
  BY <1>4, UnorderedWorkerKeeps
<1>5. ASSUME NEW s \in Streams, NEW e \in Reports(s), Arrives(s, e)
      PROVE  IInv'
  BY <1>5, ArrivesKeeps
<1>6. ASSUME NEW s \in Streams, Cancels(s)
      PROVE  IInv'
  BY <1>6, CancelsKeeps
<1>7. CASE SessionLost
  BY <1>7, SessionLostKeeps
<1>8. CASE SignalHandler
  BY <1>8, SignalKeeps
<1>9. CASE UNCHANGED vars
  BY <1>9, StutterKeeps
<1> QED BY <1>1, <1>2, <1>3, <1>4, <1>5, <1>6, <1>7, <1>8, <1>9 DEF Next, Over

-----------------------------------------------------------------------------
(* Theorems *)

\* What each pool holds is in its line, and every event handled is accounted for.
THEOREM Invariance == Spec => []IInv
<1>1. Init => IInv
  BY InitInv
<1>2. IInv /\ [Next]_vars => IInv'
  BY StepKeeps
<1> QED BY <1>1, <1>2, PTL DEF Spec

\* For any streams and any number of requests, the answers on a stream are in
\* the order of its requests, each once, and nothing follows the trailers:
\* of tasks of one worker because it ends them in the order they came, of those
\* of the pool with two because a unary stream never has two of them.
THEOREM RepliesOrdered == Spec => []RepliesInOrder
<1>1. IInv => RepliesInOrder
  <2> SUFFICES ASSUME IInv, NEW s \in Streams
               PROVE  InOrder(stream[s].out, s)
    BY DEF RepliesInOrder, InOrder
  <2> QED BY DEF IInv, Replies
<1> QED BY <1>1, Invariance, PTL

\* While the loop waits long in ezgrpc2_server_poll no task is left in either
\* pool, so no result waits for a client to write.
THEOREM LoopAwake == Spec => []NeverSleepsOnWork
<1>1. IInv => NeverSleepsOnWork
  <2> SUFFICES ASSUME IInv, threaded, pc = "polling", long
               PROVE  O!Accepted \cup U!Accepted \subseteq Elements(oDelivered) \cup Elements(uDelivered)
    BY DEF NeverSleepsOnWork
  <2>1. PoolsEmpty /\ oDiscarded = {} /\ uDiscarded = {}
    BY DEF IInv, Stations
  <2>2. O!Accepted = Elements(oDelivered)
    BY <2>1, Empty, PoolNames DEF PoolsEmpty, O!Accepted
  <2>3. U!Accepted = Elements(uDelivered)
    BY <2>1, Empty, PoolNames DEF PoolsEmpty, U!Accepted
  <2> QED BY <2>2, <2>3
<1> QED BY <1>1, Invariance, PTL

\* The list of a request is never freed twice, by callback_path1 and with its
\* userdata; those still not freed when the loop is over are exactly those of
\* refused requests and of tasks the pools dropped before it.
THEOREM ListsFreed == Spec => []ListsFreedOnce
<1>1. IInv => ListsFreedOnce
  <2> SUFFICES ASSUME IInv
               PROVE  ListsFreedOnce
    OBVIOUS
  <2>1. StoreTypes /\ Accounts /\ Lists /\ Stations
    BY DEF IInv, Types
  <2>2. \A i \in Places : freed[i] = IF Released(i) THEN 1 ELSE 0
    BY <2>1 DEF Lists
  <2>3. \A i \in Places : freed[i] <= 1
    BY <2>2
  <2>4. ASSUME pc = "over", threaded, NEW i \in 1 .. handled
        PROVE  freed[i] = 0 <=> \/ Refused(read[i])
                                \/ /\ i \in oDiscarded \cup uDiscarded
                                   /\ ~(FreedByCallback(i) /\ uOutcome[i] = "executed")
    <3>1. i \in Places /\ read[i] = written[i]
      BY <2>1, HandledIs
    <3>2. i <= handled
      BY <2>1, HandledMost
    <3>3. freed[i] = 0 <=> ~Released(i)
      BY <2>2, <3>1
    <3>4. oHeld = {} /\ uHeld = {}
      BY <2>1, <2>4 DEF Stations
    <3>5. Refused(written[i]) \/ i \in oGone \cup oDiscarded \cup uGone \cup uDiscarded
      BY <2>1, <2>4, <3>4 DEF Accounts, oKnown, uKnown
    <3>6. /\ i \in oGone \cup oDiscarded => written[i].stream \notin Unary /\ ~Refused(written[i])
          /\ i \in uGone \cup uDiscarded => written[i].stream \in Unary /\ ~Refused(written[i])
                                             /\ i \notin oGone \cup oDiscarded
          /\ uOutcome[i] = "executed" => i \in uGone \cup uDiscarded
          /\ i \in uGone => uOutcome[i] = "executed"
      <4>1. \A j \in oKnown : written[j].stream \in Streaming
        BY <2>1 DEF Accounts
      <4>2. \A j \in uKnown : written[j].stream \in Unary /\ ~Refused(written[j])
        BY <2>1 DEF Accounts
      <4>3. uOutcome[i] = "executed" => i \in uKnown
        BY <2>1, <3>1 DEF Accounts
      <4>4. i \in uGone => uOutcome[i] = "executed"
        BY <2>1 DEF Accounts
      <4>5. oKnown = oGone \cup oDiscarded /\ uKnown = uGone \cup uDiscarded
        BY <3>4 DEF oKnown, uKnown
      <4> QED BY <4>1, <4>2, <4>3, <4>4, <4>5, StreamsAssumption DEF Refused
    <3>7. oDiscarded \cap oGone = {} /\ uDiscarded \cap uGone = {}
      BY DEF IInv, Good
    <3>8. Released(i) <=> IF FreedByCallback(i) THEN uOutcome[i] = "executed" ELSE i \in oGone \cup uGone
      BY <3>2 DEF Released
    <3>9. FreedByCallback(i) => written[i].stream \in Unary
      BY DEF FreedByCallback
    <3>10. CASE Refused(written[i])
      BY <3>1, <3>3, <3>6, <3>8, <3>10
    <3>11. CASE ~Refused(written[i]) /\ FreedByCallback(i)
      BY <3>1, <3>3, <3>5, <3>6, <3>7, <3>8, <3>9, <3>11
    <3>12. CASE ~Refused(written[i]) /\ ~FreedByCallback(i)
      BY <3>1, <3>3, <3>5, <3>6, <3>7, <3>8, <3>12
    <3> QED BY <3>10, <3>11, <3>12
  <2> QED BY <2>3, <2>4 DEF ListsFreedOnce
<1> QED BY <1>1, Invariance, PTL

=============================================================================
