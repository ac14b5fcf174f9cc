---------------------------- MODULE Handoffs_proofs ----------------------------
(***************************************************************************)
(* Theorems about HandoffDelivery, HandoffManager and HandoffPackets, and  *)
(* about the three side by side, for any packets, any number of sends,     *)
(* sessions, candidates and fields, any limits and any retention.          *)
(***************************************************************************)
EXTENDS MCHandoffs, FiniteSetTheorems, SequenceTheorems, WellFoundedInduction, TLAPS

Ascending(q) == \A i, j \in DOMAIN q : i < j => q[i] < q[j]

\* What keeps the two ways to a client in order: a session has received nothing
\* before it polls, replays only later sends than it received, and is live, or
\* was, with later sends scheduled only.
SessionsOrdered ==
    /\ \A s \in Sessions :
         /\ Ascending(received[s]) /\ Ascending(replay[s])
         /\ \A m \in ToSet(received[s]), n \in ToSet(replay[s]) : m < n
         /\ stage[s] # "replaying" => replay[s] = <<>>
         /\ stage[s] \in {"new", "opening"} => received[s] = <<>>
    /\ \A j, k \in DOMAIN subscribers : subscribers[j] = subscribers[k] => j = k
    /\ \A k \in DOMAIN microtasks :
         LET task == microtasks[k]
         IN  /\ stage[task.session] \in {"live", "closed"}
             /\ \A m \in ToSet(received[task.session]) : m < task.send
             /\ \A j \in DOMAIN microtasks :
                  j < k /\ microtasks[j].session = task.session => microtasks[j].send < task.send

DeliveryInv == TypeOK /\ SessionsOrdered /\ NoSendVanishes /\ PolledOnce

-----------------------------------------------------------------------------
(* Sequences.                                                              *)

\* Adding an element to a sequence adds it to its elements.
LEMMA AppendKeeps ==
    ASSUME NEW S, NEW q \in Seq(S), NEW e \in S
    PROVE  /\ Append(q, e) \in Seq(S)
           /\ ToSet(Append(q, e)) = ToSet(q) \cup {e}
           /\ DOMAIN q = 1..Len(q) /\ Len(q) \in Nat
           /\ DOMAIN Append(q, e) = 1..(Len(q) + 1)
           /\ \A i \in 1..Len(q) : Append(q, e)[i] = q[i]
           /\ Append(q, e)[Len(q) + 1] = e
  <1>1. Len(q) \in Nat /\ DOMAIN q = 1..Len(q)
    BY LenProperties
  <1>2. /\ Append(q, e) \in Seq(S)
        /\ DOMAIN Append(q, e) = 1..(Len(q) + 1)
        /\ \A i \in 1..Len(q) : Append(q, e)[i] = q[i]
        /\ Append(q, e)[Len(q) + 1] = e
    BY <1>1
  <1>3. ToSet(Append(q, e)) = ToSet(q) \cup {e}
    BY <1>1, <1>2 DEF ToSet
  <1> QED
    BY <1>1, <1>2, <1>3

\* Taking the head of a sequence takes no other element with it.
LEMMA TailKeeps ==
    ASSUME NEW S, NEW q \in Seq(S), q # <<>>
    PROVE  /\ Tail(q) \in Seq(S)
           /\ Head(q) \in S /\ Head(q) = q[1] /\ 1 \in DOMAIN q
           /\ ToSet(q) = ToSet(Tail(q)) \cup {Head(q)}
           /\ \A i \in DOMAIN Tail(q) : i + 1 \in DOMAIN q /\ Tail(q)[i] = q[i + 1]
           /\ DOMAIN Tail(q) \subseteq Nat \ {0}
  <1>1. /\ Len(q) \in Nat \ {0} /\ DOMAIN q = 1..Len(q)
        /\ Tail(q) \in Seq(S) /\ Len(Tail(q)) = Len(q) - 1
        /\ Head(q) \in S /\ Head(q) = q[1]
        /\ \A i \in 1..Len(Tail(q)) : Tail(q)[i] = q[i + 1]
    BY LenProperties, EmptySeq, HeadTailProperties
  <1>2. DOMAIN Tail(q) = 1..(Len(q) - 1)
    BY <1>1, LenProperties
  <1>3. ToSet(q) = ToSet(Tail(q)) \cup {Head(q)}
    <2>1. ASSUME NEW i \in DOMAIN q
          PROVE  q[i] \in ToSet(Tail(q)) \cup {Head(q)}
      <3>1. CASE i = 1
        BY <3>1, <1>1
      <3>2. CASE i # 1
        <4>1. i - 1 \in DOMAIN Tail(q) /\ Tail(q)[i - 1] = q[i]
          BY <3>2, <1>1, <1>2
        <4> QED
          BY <4>1 DEF ToSet
      <3> QED
        BY <3>1, <3>2
    <2>2. ToSet(Tail(q)) \cup {Head(q)} \subseteq ToSet(q)
      BY <1>1, <1>2 DEF ToSet
    <2> QED
      BY <2>1, <2>2 DEF ToSet
  <1> QED
    BY <1>1, <1>2, <1>3

LEMMA AppendOfRange ==
    ASSUME NEW n, NEW q \in Seq(1..n), NEW e \in 1..n
    PROVE  Append(q, e) \in Seq(1..n) /\ ToSet(Append(q, e)) = ToSet(q) \cup {e}
  <1> DEFINE S == 1..n
  <1>1. q \in Seq(S) /\ e \in S
    OBVIOUS
  <1> HIDE DEF S
  <1>2. Append(q, e) \in Seq(S) /\ ToSet(Append(q, e)) = ToSet(q) \cup {e}
    BY <1>1, AppendKeeps
  <1> QED
    BY <1>2 DEF S

LEMMA AppendAscends ==
    ASSUME NEW q \in Seq(Int), NEW e \in Int, Ascending(q), \A m \in ToSet(q) : m < e
    PROVE  Ascending(Append(q, e))
  BY AppendKeeps DEF Ascending, ToSet

LEMMA TailAscends ==
    ASSUME NEW q \in Seq(Int), q # <<>>, Ascending(q)
    PROVE  Ascending(Tail(q)) /\ \A m \in ToSet(Tail(q)) : Head(q) < m
  <1>1. \A i \in DOMAIN Tail(q) : i + 1 \in DOMAIN q /\ Tail(q)[i] = q[i + 1] /\ i \in Nat \ {0}
    BY TailKeeps
  <1>2. Head(q) = q[1] /\ 1 \in DOMAIN q
    BY TailKeeps
  <1> QED
    BY <1>1, <1>2 DEF Ascending, ToSet

\* Removing the one place of an element removes it, and nothing else.
LEMMA RemoveAtKeeps ==
    ASSUME NEW S, NEW q \in Seq(S), NEW k \in DOMAIN q,
           \A i, j \in DOMAIN q : q[i] = q[j] => i = j
    PROVE  /\ RemoveAt(q, k) \in Seq(S)
           /\ ToSet(RemoveAt(q, k)) = ToSet(q) \ {q[k]}
           /\ \A i, j \in DOMAIN RemoveAt(q, k) : RemoveAt(q, k)[i] = RemoveAt(q, k)[j] => i = j
  <1> DEFINE r == RemoveAt(q, k)
             before == SubSeq(q, 1, k - 1)
             after == SubSeq(q, k + 1, Len(q))
             old(i) == IF i < k THEN i ELSE i + 1
  <1>1. Len(q) \in Nat /\ DOMAIN q = 1..Len(q) /\ \A i \in 1..Len(q) : q[i] \in S
    BY LenProperties, ElementOfSeq
  <1>2. /\ before \in Seq(S) /\ Len(before) = k - 1
        /\ \A i \in 1..(k - 1) : before[i] = q[i]
    BY <1>1, SubSeqProperties
  <1>3. /\ after \in Seq(S) /\ Len(after) = Len(q) - k
        /\ \A i \in 1..(Len(q) - k) : after[i] = q[k + i]
    <2>1. /\ after \in Seq(S)
          /\ Len(after) = IF k + 1 <= Len(q) THEN Len(q) - (k + 1) + 1 ELSE 0
          /\ \A i \in 1 .. Len(q) - (k + 1) + 1 : after[i] = q[(k + 1) + i - 1]
      <3>1. k + 1 \in Int /\ Len(q) \in Int /\ \A i \in (k + 1)..Len(q) : q[i] \in S
        BY <1>1
      <3> HIDE DEF after
      <3> QED
        BY <3>1, SubSeqProperties DEF after
    <2> QED
      BY <2>1, <1>1
  <1>4. /\ r \in Seq(S) /\ Len(r) = Len(q) - 1
        /\ \A i \in 1..(Len(q) - 1) : r[i] = IF i <= k - 1 THEN before[i] ELSE after[i - (k - 1)]
    <2>1. r = before \o after
      BY DEF RemoveAt
    <2> HIDE DEF r, before, after
    <2>2. before \in Seq(S) /\ after \in Seq(S)
      BY <1>2, <1>3
    <2>3. /\ before \o after \in Seq(S)
          /\ Len(before \o after) = Len(before) + Len(after)
          /\ \A i \in 1 .. Len(before) + Len(after) :
                (before \o after)[i] = IF i <= Len(before) THEN before[i] ELSE after[i - Len(before)]
      BY <2>2, ConcatProperties, Zenon
    <2>4. /\ r \in Seq(S)
          /\ Len(r) = Len(before) + Len(after)
          /\ \A i \in 1 .. Len(before) + Len(after) :
                r[i] = IF i <= Len(before) THEN before[i] ELSE after[i - Len(before)]
      BY <2>1, <2>3
    <2>5. Len(before) = k - 1 /\ Len(before) + Len(after) = Len(q) - 1
      BY <1>1, <1>2, <1>3
    <2> QED
      BY <2>4, <2>5
  <1>5. DOMAIN r = 1..(Len(q) - 1)
    BY <1>4, LenProperties
  <1>6. \A i \in DOMAIN r : old(i) \in DOMAIN q /\ old(i) # k /\ r[i] = q[old(i)]
    <2> TAKE i \in DOMAIN r
    <2> HIDE DEF r, before, after
    <2>1. CASE i < k
      BY <2>1, <1>1, <1>2, <1>4, <1>5
    <2>2. CASE ~(i < k)
      <3>1. i - (k - 1) \in 1..(Len(q) - k) /\ k + (i - (k - 1)) = i + 1 /\ ~(i <= k - 1)
        BY <2>2, <1>1, <1>5
      <3>2. r[i] = q[i + 1]
        BY <3>1, <1>3, <1>4, <1>5
      <3> QED
        BY <2>2, <3>2, <1>1, <1>5
    <2> QED
      BY <2>1, <2>2
  <1>7. \A i \in DOMAIN q : i # k => \E j \in DOMAIN r : old(j) = i
    <2> TAKE i \in DOMAIN q
    <2> HAVE i # k
    <2>1. CASE i < k
      BY <2>1, <1>1, <1>5
    <2>2. CASE i > k
      <3>1. i - 1 \in DOMAIN r /\ old(i - 1) = i
        BY <2>2, <1>1, <1>5
      <3> QED
        BY <3>1
    <2> QED
      BY <2>1, <2>2, <1>1
  <1>8. \A i, j \in DOMAIN r : old(i) = old(j) => i = j
    BY <1>5, <1>1
  <1>9. ToSet(r) = ToSet(q) \ {q[k]}
    <2> HIDE DEF r, old
    <2> QED
      BY <1>6, <1>7 DEF ToSet
  <1> HIDE DEF r, old
  <1> QED
    BY <1>4, <1>6, <1>8, <1>9 DEF r

-----------------------------------------------------------------------------
(* The queue and its polls.                                                *)

LEMMA SeqRange ==
    ASSUME NEW S, NEW q \in Seq(S)
    PROVE  ToSet(q) \subseteq S /\ DOMAIN q \subseteq Nat /\ \A i \in DOMAIN q : q[i] \in ToSet(q)
  BY LenProperties, ElementOfSeq DEF ToSet

LEMMA TaskTyped ==
    ASSUME TypeOK, NEW k \in DOMAIN microtasks
    PROVE  microtasks[k].session \in Sessions /\ microtasks[k].send \in 1..sends
  <1>1. microtasks \in Seq([session : Sessions, send : 1..sends])
    BY DEF TypeOK
  <1>2. microtasks[k] \in [session : Sessions, send : 1..sends]
    BY <1>1, LenProperties, ElementOfSeq
  <1> QED
    BY <1>2

\* What a poll returns: sends that are queued, in their order.
LEMMA PolledFacts ==
    ASSUME TypeOK, NEW limit \in Nat, NEW polled \in Polled(limit)
    PROVE  /\ polled \in Seq(1..sends)
           /\ Ascending(polled)
           /\ ToSet(polled) \subseteq Pollable
           /\ \A m \in Pollable : Queued(m) /\ m \in 1..sends
  <1>1. \A m \in Pollable : Queued(m) /\ m \in 1..sends
    BY DEF Pollable, Queued, TypeOK
  <1>2. PollSize(limit) \in Nat
    <2>1. IsFiniteSet(1..sends)
      BY FS_Interval DEF TypeOK
    <2>2. IsFiniteSet(Pollable)
      BY <1>1, <2>1, FS_Subset
    <2> QED
      BY <2>2, FS_CardinalityType DEF PollSize
  <1>3. polled \in [1..PollSize(limit) -> Pollable]
    BY DEF Polled
  <1>4. polled \in [1..PollSize(limit) -> 1..sends]
    BY <1>1, <1>3
  <1>5. polled \in Seq(1..sends)
    BY <1>2, <1>4, SeqDef
  <1>6. Ascending(polled)
    BY DEF Polled, Ascending
  <1> QED
    BY <1>1, <1>3, <1>5, <1>6 DEF ToSet

\* It takes what it returns off the queue, and nothing else.
LEMMA MarkedFacts ==
    ASSUME TypeOK, NEW polled, MarkDelivered(polled), UNCHANGED <<entry, sends>>
    PROVE  /\ status' \in [Packets -> {"queued", "delivered"}]
           /\ \A m : Queued(m)' <=> Queued(m) /\ m \notin ToSet(polled)
  BY DEF TypeOK, MarkDelivered, Queued

-----------------------------------------------------------------------------
(* Each action keeps the invariant.                                        *)

LEMMA DeliveryStarts == ASSUME Init PROVE DeliveryInv
  <1> USE HandoffAssumption DEF Init
  <1>0. ToSet(<<>>) = {}
    BY DEF ToSet
  <1>1. TypeOK
    <2>1. \A S : <<>> \in Seq(S)
      BY EmptySeq
    <2>2. ToSet(subscribers) = {s \in Sessions : stage[s] = "live"}
      BY <1>0
    <2>3. sends \in 0..MaxSends /\ packet \in Seq(Packets) /\ Len(packet) = sends
      BY <2>1
    <2>4. ttl \in [Packets -> 0..Retention] /\ entry \in [Packets -> 0..sends]
      OBVIOUS
    <2> QED
      BY <2>1, <2>2, <2>3, <2>4 DEF TypeOK
  <1>2. SessionsOrdered
    BY <1>0 DEF SessionsOrdered, Ascending
  <1>3. NoSendVanishes
    BY DEF NoSendVanishes
  <1>4. PolledOnce
    BY DEF PolledOnce
  <1> QED
    BY <1>1, <1>2, <1>3, <1>4 DEF DeliveryInv

LEMMA EnqueueKeeps == ASSUME DeliveryInv, NEW p \in Packets, Enqueue(p) PROVE DeliveryInv'
  <1> USE HandoffAssumption DEF DeliveryInv, Enqueue
  <1>0. PICK new \in Nat : new = sends + 1
    BY DEF TypeOK
  <1> DEFINE Task == [session : Sessions, send : 1..new]
             added == [k \in DOMAIN subscribers |-> [session |-> subscribers[k], send |-> new]]
  <1>1. /\ sends \in Nat /\ new \in Nat /\ 1..sends \subseteq 1..new /\ new \in 1..new
        /\ 0..sends \subseteq 0..new /\ sends' = new /\ new \in 0..new
        /\ \A m \in 1..new : m \in 1..sends \/ m = new
        /\ \A m \in 1..sends : m < new
    BY <1>0 DEF TypeOK
  <1>2. /\ DOMAIN subscribers = 1..Len(subscribers) /\ Len(subscribers) \in Nat
        /\ \A k \in DOMAIN subscribers : subscribers[k] \in Sessions /\ stage[subscribers[k]] = "live"
    BY LenProperties DEF TypeOK, ToSet
  <1>3. added \in Seq(Task)
    <2>1. added \in [1..Len(subscribers) -> Task]
      BY <1>1, <1>2
    <2> QED
      BY <1>2, <2>1, SeqDef
  <1>4. microtasks \in Seq(Task)
    <2>1. [session : Sessions, send : 1..sends] \subseteq Task
      BY <1>1
    <2>2. microtasks \in Seq([session : Sessions, send : 1..sends])
      BY DEF TypeOK
    <2> QED
      BY <2>1, <2>2, SeqMonotonic, Zenon
  <1>5. /\ Len(microtasks) \in Nat /\ DOMAIN microtasks = 1..Len(microtasks)
        /\ Len(added) = Len(subscribers)
    BY <1>2, <1>3, <1>4, LenProperties
  <1>6. /\ microtasks' \in Seq(Task)
        /\ DOMAIN microtasks' = 1..(Len(microtasks) + Len(subscribers))
        /\ \A i \in DOMAIN microtasks : microtasks'[i] = microtasks[i]
        /\ \A i \in DOMAIN microtasks' : i \notin DOMAIN microtasks =>
             /\ i - Len(microtasks) \in DOMAIN subscribers
             /\ microtasks'[i] = [session |-> subscribers[i - Len(microtasks)], send |-> new]
    <2>1. /\ microtasks' = microtasks \o added
      BY <1>0
    <2> HIDE DEF added
    <2>2. /\ microtasks \o added \in Seq(Task)
          /\ Len(microtasks \o added) = Len(microtasks) + Len(added)
          /\ \A i \in 1 .. Len(microtasks) + Len(added) : (microtasks \o added)[i] =
                 IF i <= Len(microtasks) THEN microtasks[i] ELSE added[i - Len(microtasks)]
      BY <1>3, <1>4, ConcatProperties, Zenon
    <2>3. DOMAIN microtasks' = 1..(Len(microtasks) + Len(subscribers))
      BY <2>1, <2>2, <1>5, LenProperties
    <2>4. \A i \in DOMAIN microtasks : microtasks'[i] = microtasks[i]
      BY <2>1, <2>2, <1>2, <1>5
    <2>5. \A i \in DOMAIN microtasks' : i \notin DOMAIN microtasks =>
             /\ i - Len(microtasks) \in DOMAIN subscribers
             /\ microtasks'[i] = added[i - Len(microtasks)]
      <3> TAKE i \in DOMAIN microtasks'
      <3> HAVE i \notin DOMAIN microtasks
      <3>1. i \in 1..(Len(microtasks) + Len(added)) /\ ~(i <= Len(microtasks))
        BY <2>3, <1>2, <1>5
      <3>2. microtasks'[i] = added[i - Len(microtasks)]
        BY <3>1, <2>1, <2>2
      <3> QED
        BY <3>1, <3>2, <1>2, <1>5
    <2> QED
      BY <2>1, <2>2, <2>3, <2>4, <2>5 DEF added
  <1>7. TypeOK'
    <2>1. sends' \in 0..MaxSends
      BY <1>1, <1>0 DEF TypeOK
    <2>2. packet' \in Seq(Packets) /\ Len(packet') = sends'
      BY <1>1 DEF TypeOK
    <2>3. entry' \in [Packets -> 0..sends'] /\ status' \in [Packets -> {"queued", "delivered"}]
      BY <1>1, <1>0 DEF TypeOK
    <2>4. ttl' \in [Packets -> 0..Retention]
      BY DEF TypeOK
    <2>5. /\ replay' \in [Sessions -> Seq(1..sends')]
          /\ received' \in [Sessions -> Seq(1..sends')]
      BY <1>1, SeqMonotonic DEF TypeOK
    <2>6. collected' \subseteq 1..sends' /\ dropped' \subseteq 1..sends'
      <3>1. entry[p] # 0 => entry[p] \in 1..sends
        BY <1>1 DEF TypeOK
      <3> QED
        BY <1>1, <3>1 DEF TypeOK
    <2> QED
      BY <1>1, <1>6, <2>1, <2>2, <2>3, <2>4, <2>5, <2>6 DEF TypeOK
  <1>8. SessionsOrdered'
    <2> DEFINE t(k) == microtasks'[k]
    <2>1. \A s \in Sessions : \A m \in ToSet(received[s]) : m \in 1..sends
      BY SeqRange DEF TypeOK
    <2>2. \A k \in DOMAIN microtasks : microtasks[k].send \in 1..sends
      BY TaskTyped
    <2>3. ASSUME NEW k \in DOMAIN microtasks'
          PROVE  /\ stage[t(k).session] \in {"live", "closed"}
                 /\ \A m \in ToSet(received[t(k).session]) : m < t(k).send
                 /\ \A j \in DOMAIN microtasks' :
                      j < k /\ t(j).session = t(k).session => t(j).send < t(k).send
      <3>1. CASE k \in DOMAIN microtasks
        <4>1. \A j \in DOMAIN microtasks' : j < k => j \in DOMAIN microtasks
          BY <3>1, <1>5, <1>6
        <4> QED
          BY <3>1, <4>1, <1>6 DEF SessionsOrdered
      <3>2. CASE k \notin DOMAIN microtasks
        <4>1. /\ k - Len(microtasks) \in DOMAIN subscribers
              /\ t(k) = [session |-> subscribers[k - Len(microtasks)], send |-> new]
          BY <3>2, <1>6
        <4>2. ASSUME NEW j \in DOMAIN microtasks', j < k, t(j).session = t(k).session
              PROVE  t(j).send < t(k).send
          <5>1. CASE j \in DOMAIN microtasks
            <6>1. t(j).send \in 1..sends
              BY <5>1, <2>2, <1>6
            <6> HIDE DEF t
            <6> QED
              BY <6>1, <4>1, <1>1
          <5>2. CASE j \notin DOMAIN microtasks
            <6>1. /\ j - Len(microtasks) \in DOMAIN subscribers
                  /\ t(j) = [session |-> subscribers[j - Len(microtasks)], send |-> new]
              BY <5>2, <1>6
            <6>2. j - Len(microtasks) = k - Len(microtasks)
              BY <4>1, <4>2, <6>1 DEF SessionsOrdered
            <6> QED
              BY <6>2, <4>2, <1>2, <1>5, <1>6
          <5> QED
            BY <5>1, <5>2
        <4>3. stage[t(k).session] = "live" /\ t(k).session \in Sessions
          BY <4>1, <1>2
        <4>4. \A m \in ToSet(received[t(k).session]) : m < t(k).send
          <5> HIDE DEF t
          <5>1. t(k).send = new
            BY <4>1
          <5> QED
            BY <5>1, <4>3, <2>1, <1>1
        <4> QED
          BY <4>2, <4>3, <4>4
      <3> QED
        BY <3>1, <3>2
    <2> QED
      BY <2>3 DEF SessionsOrdered
  <1>9. NoSendVanishes'
    <2>1. \A m \in 1..sends : Queued(m) => Queued(m)' \/ m \in dropped'
      BY <1>1, <1>0 DEF Queued, TypeOK
    <2>2. Queued(new)'
      <3>1. entry'[p] = new /\ status'[p] = "queued"
        BY <1>0 DEF TypeOK
      <3> QED
        BY <3>1 DEF Queued
    <2>3. \A m \in 1..sends : Queued(m) \/ Replaying(m) \/ Seen(m) \/ m \in dropped
      BY DEF NoSendVanishes
    <2>4. \A m : Replaying(m)' = Replaying(m) /\ Seen(m)' = Seen(m) /\ (m \in dropped => m \in dropped')
      BY DEF Replaying, Seen
    <2>5. \A m \in 1..new : Queued(m)' \/ Replaying(m)' \/ Seen(m)' \/ m \in dropped'
      BY <2>1, <2>2, <2>3, <2>4, <1>1
    <2> QED
      BY <2>5, <1>1 DEF NoSendVanishes
  <1>10. PolledOnce'
    <2>1. \A m \in 1..sends : Queued(m)' => Queued(m)
      BY <1>1, <1>0 DEF Queued, TypeOK
    <2>2. \A s \in Sessions : \A m : m \in ToSet(replay[s]) => m \in 1..sends
      BY SeqRange DEF TypeOK
    <2>3. \A m \in collected : m \in 1..sends
      BY DEF TypeOK
    <2> QED
      BY <2>1, <2>2, <2>3 DEF PolledOnce
  <1> QED
    BY <1>7, <1>8, <1>9, <1>10

LEMMA PollDirectlyKeeps ==
    ASSUME DeliveryInv, NEW limit \in PollLimits, PollDirectly(limit) PROVE DeliveryInv'
  <1> USE HandoffAssumption DEF DeliveryInv
  <1>0. limit \in Nat
    OBVIOUS
  <1>1. PICK polled \in Polled(limit) :
             MarkDelivered(polled) /\ collected' = collected \cup ToSet(polled)
    BY DEF PollDirectly
  <1>2. UNCHANGED <<sends, packet, entry, ttl, stage, replay, subscribers,
                    microtasks, received, dropped>>
    BY DEF PollDirectly
  <1>3. \A m \in ToSet(polled) : Queued(m) /\ m \in 1..sends
    BY <1>0, PolledFacts
  <1>4. \A m : Queued(m)' <=> Queued(m) /\ m \notin ToSet(polled)
    BY <1>1, <1>2, MarkedFacts
  <1>5. TypeOK'
    BY <1>1, <1>2, <1>3, MarkedFacts DEF TypeOK
  <1>6. SessionsOrdered'
    BY <1>2 DEF SessionsOrdered
  <1>7. NoSendVanishes'
    BY <1>1, <1>2, <1>4 DEF NoSendVanishes, Replaying, Seen
  <1>8. PolledOnce'
    BY <1>1, <1>2, <1>3, <1>4 DEF PolledOnce
  <1> QED
    BY <1>5, <1>6, <1>7, <1>8

LEMMA PruneExpiredKeeps == ASSUME DeliveryInv, PruneExpired PROVE DeliveryInv'
  <1> USE HandoffAssumption DEF DeliveryInv
  <1>1. PICK old \in SUBSET Packets :
          /\ \A p \in old : entry[p] # 0
          /\ entry' = [p \in Packets |-> IF p \in old THEN 0 ELSE entry[p]]
          /\ dropped' = dropped \cup {entry[p] : p \in old}
    BY DEF PruneExpired
  <1>2. UNCHANGED <<sends, packet, status, ttl, stage, replay, subscribers,
                    microtasks, received, collected>>
    BY DEF PruneExpired
  <1>3. TypeOK'
    <2>1. entry' \in [Packets -> 0..sends]
      BY <1>1 DEF TypeOK
    <2>2. \A p \in old : entry[p] \in 1..sends
      BY <1>1 DEF TypeOK
    <2>3. dropped' \subseteq 1..sends
      BY <1>1, <2>2 DEF TypeOK
    <2> QED
      BY <1>2, <2>1, <2>3 DEF TypeOK
  <1>4. SessionsOrdered'
    BY <1>2 DEF SessionsOrdered
  <1>5. \A m \in 1..sends : /\ Queued(m)' => Queued(m)
                            /\ Queued(m) => Queued(m)' \/ m \in dropped'
    BY <1>1, <1>2 DEF Queued, TypeOK
  <1>6. NoSendVanishes'
    BY <1>1, <1>2, <1>5 DEF NoSendVanishes, Replaying, Seen
  <1>7. PolledOnce'
    BY <1>2, <1>5 DEF PolledOnce, TypeOK
  <1> QED
    BY <1>3, <1>4, <1>6, <1>7

LEMMA TickKeeps == ASSUME DeliveryInv, Tick PROVE DeliveryInv'
  <1> USE HandoffAssumption DEF DeliveryInv, Tick
  <1>1. TypeOK'
    <2>1. ttl' \in [Packets -> 0..Retention]
      BY DEF TypeOK
    <2> QED
      BY <2>1 DEF TypeOK
  <1>2. SessionsOrdered'
    BY DEF SessionsOrdered
  <1>3. NoSendVanishes' /\ PolledOnce'
    BY DEF NoSendVanishes, PolledOnce, Queued, Replaying, Seen
  <1> QED
    BY <1>1, <1>2, <1>3

LEMMA OpenKeeps == ASSUME DeliveryInv, NEW s \in Sessions, Open(s) PROVE DeliveryInv'
  <1> USE DEF DeliveryInv, Open, queueVars
  <1>1. TypeOK'
    BY DEF TypeOK
  <1>2. SessionsOrdered'
    <2>1. /\ stage \in [Sessions -> {"new", "opening", "replaying", "live", "closed"}]
          /\ stage[s] = "new" /\ stage' = [stage EXCEPT ![s] = "opening"]
          /\ UNCHANGED <<replay, received, subscribers, microtasks>>
      BY DEF TypeOK
    <2>2. \A k \in DOMAIN microtasks : microtasks[k].session \in Sessions
      BY TaskTyped
    <2> QED
      BY <2>1, <2>2 DEF SessionsOrdered
  <1>3. NoSendVanishes' /\ PolledOnce'
    BY DEF NoSendVanishes, PolledOnce, Queued, Replaying, Seen
  <1> QED
    BY <1>1, <1>2, <1>3

LEMMA PollBacklogKeeps == ASSUME DeliveryInv, NEW s \in Sessions, PollBacklog(s) PROVE DeliveryInv'
  <1> USE HandoffAssumption DEF DeliveryInv
  <1>1. PICK polled \in Polled(ReplayLimit) :
             MarkDelivered(polled) /\ replay' = [replay EXCEPT ![s] = polled]
    BY DEF PollBacklog
  <1>2. /\ stage[s] = "opening" /\ stage' = [stage EXCEPT ![s] = "replaying"]
        /\ UNCHANGED <<sends, packet, entry, ttl, subscribers, microtasks, received,
                       collected, dropped>>
    BY DEF PollBacklog
  <1>3. /\ \A m \in ToSet(polled) : Queued(m) /\ m \in 1..sends
        /\ Ascending(polled)
        /\ polled \in Seq(1..sends)
    BY PolledFacts
  <1>4. \A m : Queued(m)' <=> Queued(m) /\ m \notin ToSet(polled)
    BY <1>1, <1>2, MarkedFacts
  <1>5. /\ replay'[s] = polled /\ \A t \in Sessions \ {s} : replay'[t] = replay[t]
        /\ stage'[s] = "replaying" /\ \A t \in Sessions \ {s} : stage'[t] = stage[t]
        /\ ToSet(replay[s]) = {}
    BY <1>1, <1>2 DEF TypeOK, SessionsOrdered, ToSet
  <1>6. TypeOK'
    <2>1. status' \in [Packets -> {"queued", "delivered"}]
      BY <1>1, <1>2, MarkedFacts
    <2> QED
      BY <1>1, <1>2, <1>3, <2>1 DEF TypeOK
  <1>7. SessionsOrdered'
    <2>1. received[s] = <<>> /\ ToSet(received[s]) = {}
      BY <1>2 DEF SessionsOrdered, ToSet
    <2>2. \A k \in DOMAIN microtasks : stage'[microtasks[k].session] \in {"live", "closed"}
      <3> TAKE k \in DOMAIN microtasks
      <3>1. microtasks[k].session \in Sessions
        BY TaskTyped
      <3>2. stage[microtasks[k].session] \in {"live", "closed"}
        BY DEF SessionsOrdered
      <3> QED
        BY <3>1, <3>2, <1>2, <1>5
    <2>3. ASSUME NEW t \in Sessions
          PROVE /\ Ascending(received[t]) /\ Ascending(replay'[t])
                /\ \A m \in ToSet(received[t]), n \in ToSet(replay'[t]) : m < n
                /\ stage'[t] # "replaying" => replay'[t] = <<>>
                /\ stage'[t] \in {"new", "opening"} => received[t] = <<>>
      BY <1>3, <1>5, <2>1 DEF SessionsOrdered
    <2> QED
      BY <1>2, <2>2, <2>3 DEF SessionsOrdered
  <1>8. NoSendVanishes'
    BY <1>2, <1>4, <1>5 DEF NoSendVanishes, Replaying, Seen
  <1>9. PolledOnce'
    BY <1>2, <1>3, <1>4, <1>5 DEF PolledOnce
  <1> QED
    BY <1>6, <1>7, <1>8, <1>9

LEMMA ReplayWrittenKeeps ==
    ASSUME DeliveryInv, NEW s \in Sessions, ReplayWritten(s) PROVE DeliveryInv'
  <1> USE HandoffAssumption DEF DeliveryInv
  <1>0. PICK m : m = Head(replay[s])
    OBVIOUS
  <1>1. /\ stage[s] = "replaying" /\ replay[s] # <<>>
        /\ received' = [received EXCEPT ![s] = Append(received[s], m)]
        /\ replay' = [replay EXCEPT ![s] = Tail(replay[s])]
        /\ UNCHANGED <<queueVars, stage, subscribers, microtasks, collected, dropped>>
    BY <1>0 DEF ReplayWritten
  <1>2. replay[s] \in Seq(1..sends) /\ received[s] \in Seq(1..sends)
    BY DEF TypeOK
  <1>3. /\ m \in 1..sends /\ Tail(replay[s]) \in Seq(1..sends)
        /\ ToSet(replay[s]) = ToSet(Tail(replay[s])) \cup {m}
    BY <1>0, <1>1, <1>2, TailKeeps
  <1>4. /\ Append(received[s], m) \in Seq(1..sends)
        /\ ToSet(Append(received[s], m)) = ToSet(received[s]) \cup {m}
    <2>1. m \in 1..sends /\ received[s] \in Seq(1..sends)
      BY <1>2, <1>3
    <2> QED
      BY <2>1, AppendOfRange, Zenon
  <1>5. /\ replay'[s] = Tail(replay[s]) /\ received'[s] = Append(received[s], m)
        /\ \A t \in Sessions \ {s} : replay'[t] = replay[t] /\ received'[t] = received[t]
    BY <1>1 DEF TypeOK
  <1>6. TypeOK'
    BY <1>1, <1>3, <1>4 DEF TypeOK, queueVars
  <1>7. SessionsOrdered'
    <2>1. replay[s] \in Seq(Int) /\ received[s] \in Seq(Int) /\ m \in Int
      <3>1. 1..sends \subseteq Int
        BY DEF TypeOK
      <3> QED
        BY <3>1, <1>2, <1>3, SeqMonotonic, Zenon
    <2>2. Ascending(Append(received[s], m))
      BY <2>1, <1>3, AppendAscends DEF SessionsOrdered
    <2>3. Ascending(Tail(replay[s])) /\ \A n \in ToSet(Tail(replay[s])) : m < n
      BY <2>1, <1>1, TailAscends, <1>0 DEF SessionsOrdered
    <2>4. \A n \in ToSet(received[s]) \cup {m}, o \in ToSet(Tail(replay[s])) : n < o
      BY <1>3, <2>3 DEF SessionsOrdered
    <2>5. ASSUME NEW t \in Sessions
          PROVE /\ Ascending(received'[t]) /\ Ascending(replay'[t])
                /\ \A n \in ToSet(received'[t]), o \in ToSet(replay'[t]) : n < o
                /\ stage[t] # "replaying" => replay'[t] = <<>>
                /\ stage[t] \in {"new", "opening"} => received'[t] = <<>>
      <3>1. CASE t = s
        BY <3>1, <1>1, <1>4, <1>5, <2>2, <2>3, <2>4
      <3>2. CASE t # s
        BY <3>2, <1>5 DEF SessionsOrdered
      <3> QED
        BY <3>1, <3>2
    <2>6. ASSUME NEW k \in DOMAIN microtasks
          PROVE  received'[microtasks[k].session] = received[microtasks[k].session]
      <3>1. microtasks[k].session # s
        BY <1>1 DEF SessionsOrdered
      <3>2. microtasks[k].session \in Sessions
        BY TaskTyped
      <3> QED
        BY <3>1, <3>2, <1>5
    <2>7. stage' = stage /\ microtasks' = microtasks /\ subscribers' = subscribers
      BY <1>1
    <2> QED
      BY <2>5, <2>6, <2>7 DEF SessionsOrdered
  <1>8. \A n : Queued(n)' = Queued(n)
    BY <1>1 DEF Queued, queueVars
  <1>9. NoSendVanishes'
    <2>1. \A n : Replaying(n) => Replaying(n)' \/ Seen(n)'
      BY <1>3, <1>4, <1>5 DEF Replaying, Seen
    <2>2. \A n : Seen(n) => Seen(n)'
      BY <1>1, <1>4, <1>5 DEF Seen
    <2> QED
      BY <1>1, <1>8, <2>1, <2>2 DEF NoSendVanishes, queueVars
  <1>10. PolledOnce'
    BY <1>1, <1>3, <1>5, <1>8 DEF PolledOnce, queueVars
  <1> QED
    BY <1>6, <1>7, <1>9, <1>10

LEMMA OpenFailsKeeps == ASSUME DeliveryInv, NEW s \in Sessions, OpenFails(s) PROVE DeliveryInv'
  <1> USE HandoffAssumption DEF DeliveryInv
  <1>1. /\ stage[s] \in {"opening", "replaying"} /\ stage' = [stage EXCEPT ![s] = "closed"]
        /\ dropped' = dropped \cup ToSet(replay[s])
        /\ replay' = [replay EXCEPT ![s] = <<>>]
        /\ UNCHANGED <<queueVars, subscribers, microtasks, received, collected>>
    BY DEF OpenFails
  <1>2. /\ replay'[s] = <<>> /\ stage'[s] = "closed"
        /\ \A t \in Sessions \ {s} : replay'[t] = replay[t] /\ stage'[t] = stage[t]
        /\ ToSet(<<>>) = {}
    BY <1>1 DEF TypeOK, ToSet
  <1>3. TypeOK'
    <2>1. ToSet(replay[s]) \subseteq 1..sends
      BY SeqRange DEF TypeOK
    <2>2. <<>> \in Seq(1..sends)
      BY EmptySeq
    <2>3. {t \in Sessions : stage'[t] = "live"} = {t \in Sessions : stage[t] = "live"}
      BY <1>1, <1>2
    <2>4. replay' \in [Sessions -> Seq(1..sends)]
      BY <1>1, <2>2 DEF TypeOK
    <2>5. stage' \in [Sessions -> {"new", "opening", "replaying", "live", "closed"}]
      BY <1>1 DEF TypeOK
    <2> QED
      BY <1>1, <2>1, <2>3, <2>4, <2>5 DEF TypeOK, queueVars
  <1>4. SessionsOrdered'
    <2>1. \A k \in DOMAIN microtasks : stage'[microtasks[k].session] \in {"live", "closed"}
      BY <1>2, TaskTyped DEF SessionsOrdered
    <2>2. ASSUME NEW t \in Sessions
          PROVE /\ Ascending(received[t]) /\ Ascending(replay'[t])
                /\ \A m \in ToSet(received[t]), n \in ToSet(replay'[t]) : m < n
                /\ stage'[t] # "replaying" => replay'[t] = <<>>
                /\ stage'[t] \in {"new", "opening"} => received[t] = <<>>
      BY <1>2 DEF SessionsOrdered, Ascending
    <2> QED
      BY <1>1, <2>1, <2>2 DEF SessionsOrdered
  <1>5. \A m : Queued(m)' = Queued(m)
    BY <1>1 DEF Queued, queueVars
  <1>6. NoSendVanishes'
    <2>1. \A m : Replaying(m) => Replaying(m)' \/ m \in dropped'
      BY <1>1, <1>2 DEF Replaying
    <2> QED
      BY <1>1, <1>5, <2>1 DEF NoSendVanishes, Seen, queueVars
  <1>7. PolledOnce'
    BY <1>1, <1>2, <1>5 DEF PolledOnce, queueVars
  <1> QED
    BY <1>3, <1>4, <1>6, <1>7

LEMMA GoLiveKeeps == ASSUME DeliveryInv, NEW s \in Sessions, GoLive(s) PROVE DeliveryInv'
  <1> USE HandoffAssumption DEF DeliveryInv
  <1>1. /\ stage[s] = "replaying" /\ replay[s] = <<>>
        /\ stage' = [stage EXCEPT ![s] = "live"]
        /\ subscribers' = Append(subscribers, s)
        /\ UNCHANGED <<queueVars, replay, microtasks, received, collected, dropped>>
    BY DEF GoLive
  <1>2. /\ stage'[s] = "live" /\ \A t \in Sessions \ {s} : stage'[t] = stage[t]
        /\ stage' \in [Sessions -> {"new", "opening", "replaying", "live", "closed"}]
    BY <1>1 DEF TypeOK
  <1>3. /\ subscribers' \in Seq(Sessions)
        /\ ToSet(subscribers') = ToSet(subscribers) \cup {s}
        /\ DOMAIN subscribers = 1..Len(subscribers) /\ Len(subscribers) \in Nat
        /\ DOMAIN subscribers' = 1..(Len(subscribers) + 1)
        /\ \A i \in 1..Len(subscribers) : subscribers'[i] = subscribers[i]
        /\ subscribers'[Len(subscribers) + 1] = s
    <2>1. subscribers \in Seq(Sessions)
      BY DEF TypeOK
    <2> QED
      BY <2>1, <1>1, AppendKeeps
  <1>4. \A i \in DOMAIN subscribers : subscribers[i] # s
    BY <1>1 DEF TypeOK, ToSet
  <1>5. TypeOK'
    <2>1. ToSet(subscribers') = {t \in Sessions : stage'[t] = "live"}
      BY <1>2, <1>3 DEF TypeOK
    <2> QED
      BY <1>1, <1>2, <1>3, <2>1 DEF TypeOK, queueVars
  <1>6. SessionsOrdered'
    <2>1. \A j, k \in DOMAIN subscribers' : subscribers'[j] = subscribers'[k] => j = k
      <3>1. \A i \in DOMAIN subscribers' : i \in DOMAIN subscribers \/ i = Len(subscribers) + 1
        BY <1>3
      <3> QED
        BY <3>1, <1>3, <1>4 DEF SessionsOrdered
    <2>2. \A k \in DOMAIN microtasks : stage'[microtasks[k].session] \in {"live", "closed"}
      BY <1>2, TaskTyped DEF SessionsOrdered
    <2>3. ASSUME NEW t \in Sessions
          PROVE /\ Ascending(received[t]) /\ Ascending(replay[t])
                /\ \A m \in ToSet(received[t]), n \in ToSet(replay[t]) : m < n
                /\ stage'[t] # "replaying" => replay[t] = <<>>
                /\ stage'[t] \in {"new", "opening"} => received[t] = <<>>
      BY <1>1, <1>2 DEF SessionsOrdered
    <2> QED
      BY <1>1, <2>1, <2>2, <2>3 DEF SessionsOrdered
  <1>7. NoSendVanishes' /\ PolledOnce'
    BY <1>1 DEF NoSendVanishes, PolledOnce, Queued, Replaying, Seen, queueVars
  <1> QED
    BY <1>5, <1>6, <1>7

LEMMA CloseKeeps == ASSUME DeliveryInv, NEW s \in Sessions, Close(s) PROVE DeliveryInv'
  <1> USE HandoffAssumption DEF DeliveryInv
  <1>1. PICK k \in DOMAIN subscribers :
             subscribers[k] = s /\ subscribers' = RemoveAt(subscribers, k)
    BY DEF Close
  <1>2. /\ stage[s] = "live" /\ stage' = [stage EXCEPT ![s] = "closed"]
        /\ UNCHANGED <<queueVars, replay, microtasks, received, collected, dropped>>
    BY DEF Close
  <1>3. /\ subscribers' \in Seq(Sessions)
        /\ ToSet(subscribers') = ToSet(subscribers) \ {s}
        /\ \A i, j \in DOMAIN subscribers' : subscribers'[i] = subscribers'[j] => i = j
    <2>1. subscribers \in Seq(Sessions)
      BY DEF TypeOK
    <2>2. \A i, j \in DOMAIN subscribers : subscribers[i] = subscribers[j] => i = j
      BY DEF SessionsOrdered
    <2> QED
      BY <2>1, <2>2, <1>1, RemoveAtKeeps
  <1>4. /\ stage'[s] = "closed" /\ \A t \in Sessions \ {s} : stage'[t] = stage[t]
        /\ stage' \in [Sessions -> {"new", "opening", "replaying", "live", "closed"}]
    BY <1>2 DEF TypeOK
  <1>5. TypeOK'
    <2>1. ToSet(subscribers') = {t \in Sessions : stage'[t] = "live"}
      BY <1>3, <1>4 DEF TypeOK
    <2> QED
      BY <1>2, <1>3, <1>4, <2>1 DEF TypeOK, queueVars
  <1>6. SessionsOrdered'
    <2>1. \A i \in DOMAIN microtasks : stage'[microtasks[i].session] \in {"live", "closed"}
      BY <1>4, TaskTyped DEF SessionsOrdered
    <2>2. ASSUME NEW t \in Sessions
          PROVE /\ Ascending(received[t]) /\ Ascending(replay[t])
                /\ \A m \in ToSet(received[t]), n \in ToSet(replay[t]) : m < n
                /\ stage'[t] # "replaying" => replay[t] = <<>>
                /\ stage'[t] \in {"new", "opening"} => received[t] = <<>>
      BY <1>2, <1>4 DEF SessionsOrdered
    <2> QED
      BY <1>2, <1>3, <2>1, <2>2 DEF SessionsOrdered
  <1>7. NoSendVanishes' /\ PolledOnce'
    BY <1>2 DEF NoSendVanishes, PolledOnce, Queued, Replaying, Seen, queueVars
  <1> QED
    BY <1>5, <1>6, <1>7

LEMMA RunHandlerKeeps == ASSUME DeliveryInv, RunHandler PROVE DeliveryInv'
  <1> USE HandoffAssumption DEF DeliveryInv
  <1>0. PICK task : task = Head(microtasks)
    OBVIOUS
  <1>1. /\ microtasks # <<>> /\ microtasks' = Tail(microtasks)
        /\ \/ received' = received
           \/ /\ stage[task.session] = "live"
              /\ received' = [received EXCEPT ![task.session] = Append(@, task.send)]
        /\ UNCHANGED <<queueVars, stage, replay, subscribers, collected, dropped>>
    BY <1>0 DEF RunHandler
  <1>2. /\ microtasks' \in Seq([session : Sessions, send : 1..sends])
        /\ task \in [session : Sessions, send : 1..sends] /\ task = microtasks[1]
        /\ 1 \in DOMAIN microtasks
        /\ \A i \in DOMAIN microtasks' :
             i \in Nat \ {0} /\ i + 1 \in DOMAIN microtasks /\ microtasks'[i] = microtasks[i + 1]
    <2>1. microtasks \in Seq([session : Sessions, send : 1..sends])
      BY DEF TypeOK
    <2>2. /\ Tail(microtasks) \in Seq([session : Sessions, send : 1..sends])
          /\ Head(microtasks) \in [session : Sessions, send : 1..sends]
          /\ Head(microtasks) = microtasks[1] /\ 1 \in DOMAIN microtasks
          /\ \A i \in DOMAIN Tail(microtasks) :
               i + 1 \in DOMAIN microtasks /\ Tail(microtasks)[i] = microtasks[i + 1]
          /\ DOMAIN Tail(microtasks) \subseteq Nat \ {0}
      BY <2>1, <1>1, TailKeeps, Zenon
    <2> QED
      BY <2>2, <1>0, <1>1
  <1>3. \A m : m \in ToSet(received[task.session]) => m < task.send
    BY <1>2 DEF SessionsOrdered
  <1>4. /\ received[task.session] \in Seq(1..sends) /\ received[task.session] \in Seq(Int)
        /\ task.session \in Sessions /\ task.send \in 1..sends /\ task.send \in Int
    <2>1. 1..sends \subseteq Int
      BY DEF TypeOK
    <2> QED
      BY <2>1, <1>2, SeqMonotonic DEF TypeOK
  <1>5. /\ Append(received[task.session], task.send) \in Seq(1..sends)
        /\ ToSet(Append(received[task.session], task.send))
              = ToSet(received[task.session]) \cup {task.send}
    BY <1>4, AppendOfRange, Zenon
  <1>6. Ascending(Append(received[task.session], task.send))
    BY <1>3, <1>4, AppendAscends DEF SessionsOrdered
  <1>7. \A s \in Sessions : /\ Ascending(received'[s])
                            /\ ToSet(received[s]) \subseteq ToSet(received'[s])
                            /\ \A m \in ToSet(received'[s]) :
                                 m \in ToSet(received[s]) \/ (m = task.send /\ s = task.session)
                            /\ s # task.session \/ stage[s] # "live" => received'[s] = received[s]
    <2> TAKE s \in Sessions
    <2>1. CASE received' = received
      BY <2>1 DEF SessionsOrdered
    <2>2. CASE received' # received
      <3>1. /\ stage[task.session] = "live"
            /\ received' = [received EXCEPT ![task.session] = Append(@, task.send)]
        BY <2>2, <1>1
      <3>2. CASE s = task.session
        <4>1. received'[s] = Append(received[s], task.send)
          BY <3>1, <3>2 DEF TypeOK
        <4> QED
          BY <3>1, <3>2, <4>1, <1>5, <1>6
      <3>3. CASE s # task.session
        BY <3>1, <3>3 DEF TypeOK, SessionsOrdered
      <3> QED
        BY <3>2, <3>3
    <2> QED
      BY <2>1, <2>2
  <1>8. TypeOK'
    <2>1. received' \in [Sessions -> Seq(1..sends)]
      BY <1>1, <1>5 DEF TypeOK
    <2> QED
      BY <1>1, <1>2, <2>1 DEF TypeOK, queueVars
  <1>9. SessionsOrdered'
    <2>1. ASSUME NEW s \in Sessions
          PROVE /\ Ascending(received'[s]) /\ Ascending(replay[s])
                /\ \A m \in ToSet(received'[s]), n \in ToSet(replay[s]) : m < n
                /\ stage[s] # "replaying" => replay[s] = <<>>
                /\ stage[s] \in {"new", "opening"} => received'[s] = <<>>
      <3>1. CASE stage[s] = "live"
        <4>1. ToSet(replay[s]) = {}
          BY <3>1 DEF SessionsOrdered, ToSet
        <4> QED
          BY <3>1, <4>1, <1>7 DEF SessionsOrdered
      <3>2. CASE stage[s] # "live"
        BY <3>2, <1>7 DEF SessionsOrdered
      <3> QED
        BY <3>1, <3>2
    <2>2. ASSUME NEW k \in DOMAIN microtasks'
          PROVE  LET next == microtasks'[k]
                 IN  /\ stage[next.session] \in {"live", "closed"}
                     /\ \A m \in ToSet(received'[next.session]) : m < next.send
                     /\ \A j \in DOMAIN microtasks' : j < k /\ microtasks'[j].session = next.session
                                                     => microtasks'[j].send < next.send
      <3>0. PICK next : next = microtasks[k + 1]
        OBVIOUS
      <3>1. k + 1 \in DOMAIN microtasks /\ microtasks'[k] = next /\ k \in Nat /\ 1 < k + 1
        BY <1>2, <3>0
      <3>2. next.session \in Sessions
        BY <3>0, <3>1, TaskTyped
      <3>3. task.session = next.session => task.send < next.send
        BY <3>0, <3>1, <1>2 DEF SessionsOrdered
      <3>4. \A m \in ToSet(received'[next.session]) : m < next.send
        BY <3>0, <3>1, <3>2, <3>3, <1>7 DEF SessionsOrdered
      <3>5. ASSUME NEW j \in DOMAIN microtasks', j < k, microtasks'[j].session = next.session
            PROVE  microtasks'[j].send < next.send
        <4>1. j + 1 \in DOMAIN microtasks /\ microtasks'[j] = microtasks[j + 1] /\ j + 1 < k + 1
          BY <1>2, <3>1, <3>5
        <4> QED
          BY <4>1, <3>0, <3>1, <3>5 DEF SessionsOrdered
      <3>6. stage[next.session] \in {"live", "closed"}
        BY <3>0, <3>1 DEF SessionsOrdered
      <3> QED
        BY <3>1, <3>4, <3>5, <3>6
    <2>3. stage' = stage /\ replay' = replay /\ subscribers' = subscribers
      BY <1>1
    <2> QED
      BY <2>1, <2>2, <2>3 DEF SessionsOrdered
  <1>10. \A m : Queued(m)' = Queued(m) /\ Replaying(m)' = Replaying(m) /\ (Seen(m) => Seen(m)')
    BY <1>1, <1>7 DEF Queued, Replaying, Seen, queueVars
  <1>11. NoSendVanishes'
    BY <1>1, <1>10 DEF NoSendVanishes, queueVars
  <1>12. PolledOnce'
    BY <1>1, <1>10 DEF PolledOnce, queueVars
  <1> QED
    BY <1>8, <1>9, <1>11, <1>12

-----------------------------------------------------------------------------
(* The theorems.                                                           *)

LEMMA DeliveryKeeps == ASSUME DeliveryInv, [Next]_vars PROVE DeliveryInv'
  <1>1. CASE UNCHANGED vars
    BY <1>1 DEF vars, DeliveryInv, TypeOK, SessionsOrdered, NoSendVanishes, PolledOnce,
                Queued, Replaying, Seen
  <1>2. ASSUME NEW p \in Packets, Enqueue(p) PROVE DeliveryInv'
    BY <1>2, EnqueueKeeps
  <1>3. ASSUME NEW l \in PollLimits, PollDirectly(l) PROVE DeliveryInv'
    BY <1>3, PollDirectlyKeeps
  <1>4. CASE PruneExpired \/ Tick \/ RunHandler
    BY <1>4, PruneExpiredKeeps, TickKeeps, RunHandlerKeeps
  <1>5. ASSUME NEW s \in Sessions,
               \/ Open(s) \/ PollBacklog(s) \/ ReplayWritten(s)
               \/ OpenFails(s) \/ GoLive(s) \/ Close(s)
        PROVE  DeliveryInv'
    BY <1>5, OpenKeeps, PollBacklogKeeps, ReplayWrittenKeeps, OpenFailsKeeps, GoLiveKeeps, CloseKeeps
  <1> QED
    BY <1>1, <1>2, <1>3, <1>4, <1>5 DEF Next

LEMMA DeliveryInvariant == Spec => []DeliveryInv
  BY DeliveryStarts, DeliveryKeeps, PTL DEF Spec

\* The queue and the event sessions keep their types; the live sessions are
\* those subscribed.
THEOREM DeliveryTypeCorrect == Spec => []TypeOK
  <1>1. DeliveryInv => TypeOK
    BY DEF DeliveryInv
  <1> QED
    BY <1>1, DeliveryInvariant, PTL

\* A packet that was enqueued is queued, is being replayed, was seen by the tool
\* or is known to be lost: overwritten, pruned, or on a connection that broke.
THEOREM NoneVanishes == Spec => []NoSendVanishes
  <1>1. DeliveryInv => NoSendVanishes
    BY DEF DeliveryInv
  <1> QED
    BY <1>1, DeliveryInvariant, PTL

\* Two polls, of whatever sessions or of the tool itself, never return one send.
THEOREM NonePolledTwice == Spec => []PolledOnce
  <1>1. DeliveryInv => PolledOnce
    BY DEF DeliveryInv
  <1> QED
    BY <1>1, DeliveryInvariant, PTL

\* The client of one session sees sends in their order, and none twice.
THEOREM DeliveredInOrder == Spec => []InOrderPerSession
  <1>1. DeliveryInv => InOrderPerSession
    BY DEF DeliveryInv, SessionsOrdered, InOrderPerSession, Ascending
  <1> QED
    BY <1>1, DeliveryInvariant, PTL

-----------------------------------------------------------------------------
(* The sender's half.                                                      *)

\* What is stored of a call, wherever it is in send; of one that threw, anything.
StoredBy(s) ==
    LET call == hmSend[s] IN
    /\ call.state \in {"unsent", "recordingSent"} => Stored(s) = {}
    /\ call.state \in {"enqueueing", "waiting", "recordingReceived", "sent"} => Stored(s) = {"sent"}
    /\ call.state = "recordingReceived" => call.end \in {"acknowledged", "rejected"}
    /\ call.state = "recordingEnd" =>
         /\ call.end \in Ends
         /\ Stored(s) = IF call.end = "expired" THEN {"sent"} ELSE {"sent", "received"}
    /\ call.state = "expired" => Stored(s) = {"sent", "expired"}
    /\ call.state \in {"acknowledged", "rejected"} => Stored(s) = {"sent", "received", call.state}

\* An event's packet is its call's; a history entry names the call's last state.
EventsKnowTheirCall ==
    \A e \in AllEvents : ~In(e.by, "unsent") /\ e.packet = hmSend[e.by].packet

EntriesTellTheState ==
    /\ \A h \in hmHistory : In(h.by, h.status)
    /\ \A s \in Sends : hmSend[s].state \in {"sent"} \cup Ends =>
                           [by |-> s, status |-> hmSend[s].state] \in hmHistory

HmInv ==
    /\ HmTypeOK
    /\ \A s \in Sends : StoredBy(s)
    /\ EventsKnowTheirCall
    /\ EntriesTellTheState
    /\ OnlyResendingMixesSentAt
    /\ RetentionKept

Done == {"sent"} \cup Ends

LEMMA HmStarts == ASSUME HmInit PROVE HmInv
  <1> USE HandoffManagerAssumption DEF HmInit
  <1>1. AllEvents = {}
    BY DEF AllEvents
  <1>2. HmTypeOK
    BY DEF HmTypeOK
  <1>3. \A s \in Sends : StoredBy(s)
    BY <1>1 DEF StoredBy, Stored, Unsent
  <1>4. EventsKnowTheirCall /\ EntriesTellTheState /\ OnlyResendingMixesSentAt /\ RetentionKept
    BY <1>1 DEF EventsKnowTheirCall, EntriesTellTheState, OnlyResendingMixesSentAt, RetentionKept, Unsent, Ends
  <1> QED
    BY <1>2, <1>3, <1>4 DEF HmInv

\* One more event changes what is stored of its own call only.
LEMMA OneMoreStored ==
    ASSUME NEW e, AllEvents' = AllEvents \cup {e}
    PROVE  /\ Stored(e.by)' = Stored(e.by) \cup {e.status}
           /\ \A s : s # e.by => Stored(s)' = Stored(s)
  <1>1. Stored(e.by)' = Stored(e.by) \cup {e.status}
    BY DEF Stored
  <1>2. ASSUME NEW s, s # e.by PROVE Stored(s)' = Stored(s)
    BY <1>2 DEF Stored
  <1> QED
    BY <1>1, <1>2

\* A call in progress takes its next step: it stores one event of its own at
\* most, whose time of sending is its own or that of a stored event of its
\* packet, and enters the history when it is done.
LEMMA CallKeeps ==
    ASSUME HmInv, NEW s \in Sends, NEW new \in Call,
           hmSend[s] \in Call, hmSend[s].state \notin Done,
           hmSend' = [hmSend EXCEPT ![s] = new],
           new.packet = hmSend[s].packet, new.sentAt = hmSend[s].sentAt,
           \/ hmStore' = hmStore
           \/ \E e \in HmEvent :
                /\ hmStore' = hmStore \cup {e}
                /\ e.by = s /\ e.packet = hmSend[s].packet
                /\ \/ e.sentAt = hmSend[s].sentAt
                   \/ \E b \in hmStore : b.packet = e.packet /\ b.sentAt = e.sentAt,
           \/ hmHistory' = hmHistory /\ new.state \notin Done
           \/ hmHistory' = hmHistory \cup {[by |-> s, status |-> new.state]} /\ new.state \in Done,
           UNCHANGED <<hmPruned, hmClock>>,
           StoredBy(s)'
    PROVE  HmInv'
  <1> USE DEF HmInv
  <1>1. /\ hmSend'[s] = new /\ \A t \in Sends \ {s} : hmSend'[t] = hmSend[t]
        /\ hmSend \in [Sends -> {Unsent} \cup Call]
        /\ hmSend' \in [Sends -> {Unsent} \cup Call]
    BY DEF HmTypeOK
  <1>2. new.state # "unsent" /\ hmSend[s].state # "unsent"
    BY DEF Call, Ends
  <1>3. HmTypeOK'
    <2>1. hmStore' \subseteq HmEvent
      BY DEF HmTypeOK
    <2>2. hmHistory' \subseteq [by : Sends, status : Done]
      BY DEF HmTypeOK, Done
    <2> QED
      BY <1>1, <2>1, <2>2 DEF HmTypeOK, Done
  <1>4. \A e \in AllEvents : e \in HmEvent /\ e.by \in Sends
    BY DEF AllEvents, HmTypeOK, HmEvent
  <1>5. \/ AllEvents' = AllEvents
        \/ \E e \in HmEvent :
             /\ AllEvents' = AllEvents \cup {e}
             /\ e.by = s /\ e.packet = hmSend[s].packet
             /\ \/ e.sentAt = hmSend[s].sentAt
                \/ \E b \in AllEvents : b.packet = e.packet /\ b.sentAt = e.sentAt
    BY DEF AllEvents
  <1>6. ASSUME NEW t \in Sends PROVE StoredBy(t)'
    <2>1. CASE t # s
      <3>1. Stored(t)' = Stored(t)
        <4>1. CASE AllEvents' = AllEvents
          BY <4>1 DEF Stored
        <4>2. CASE AllEvents' # AllEvents
          BY <4>2, <1>5, <2>1, OneMoreStored
        <4> QED
          BY <4>1, <4>2
      <3>2. hmSend'[t] = hmSend[t] /\ StoredBy(t)
        BY <2>1, <1>1
      <3> QED
        BY <3>1, <3>2 DEF StoredBy
    <2> QED
      BY <2>1
  <1>7. EventsKnowTheirCall'
    <2>1. \A e \in AllEvents' : e \in AllEvents \/ (e.by = s /\ e.packet = hmSend[s].packet)
      BY <1>5
    <2>2. \A e \in AllEvents : hmSend'[e.by].state # "unsent" /\ e.packet = hmSend'[e.by].packet
      BY <1>1, <1>2, <1>4 DEF EventsKnowTheirCall, In
    <2> QED
      BY <2>1, <2>2, <1>1, <1>2 DEF EventsKnowTheirCall, In
  <1>8. EntriesTellTheState'
    <2>1. \A h \in hmHistory : h.by # s /\ h.by \in Sends
      BY DEF EntriesTellTheState, In, HmTypeOK, Done
    <2>2. \A h \in hmHistory' : In(h.by, h.status)'
      BY <2>1, <1>1 DEF EntriesTellTheState, In
    <2>3. \A t \in Sends : hmSend'[t].state \in Done => [by |-> t, status |-> hmSend'[t].state] \in hmHistory'
      BY <1>1 DEF EntriesTellTheState, Done
    <2> QED
      BY <2>2, <2>3 DEF EntriesTellTheState, Done, Ends
  <1>9. OnlyResendingMixesSentAt'
    <2> DEFINE Fine(e) == \/ e.sentAt = hmSend'[e.by].sentAt
                          \/ \E t \in Sends \ {e.by} : /\ hmSend'[t].state # "unsent"
                                                       /\ hmSend'[t].packet = e.packet
    <2>1. \A t \in Sends : hmSend[t].state # "unsent" =>
             /\ hmSend'[t].state # "unsent"
             /\ hmSend'[t].packet = hmSend[t].packet /\ hmSend'[t].sentAt = hmSend[t].sentAt
      BY <1>1, <1>2
    <2>2. ASSUME NEW e \in AllEvents PROVE Fine(e)
      <3>1. hmSend[e.by].state # "unsent" /\ e.by \in Sends
        BY <1>4 DEF EventsKnowTheirCall, In
      <3> QED
        BY <3>1, <2>1 DEF OnlyResendingMixesSentAt, In
    <2>3. ASSUME NEW e \in HmEvent, e.by = s, e.packet = hmSend[s].packet,
                 \/ e.sentAt = hmSend[s].sentAt
                 \/ \E b \in AllEvents : b.packet = e.packet /\ b.sentAt = e.sentAt
          PROVE  Fine(e)
      <3>1. CASE e.sentAt = hmSend[s].sentAt
        BY <3>1, <2>3, <1>1
      <3>2. CASE \E b \in AllEvents : b.packet = e.packet /\ b.sentAt = e.sentAt
        <4>1. PICK b \in AllEvents : b.packet = e.packet /\ b.sentAt = e.sentAt
          BY <3>2
        <4>2. CASE b.by = s
          BY <4>1, <4>2, <2>2, <2>3
        <4>3. CASE b.by # s
          <5>1. b.by \in Sends \ {e.by}
            BY <4>1, <4>3, <2>3, <1>4
          <5>2. hmSend'[b.by].state # "unsent" /\ hmSend'[b.by].packet = e.packet
            BY <4>1, <5>1, <2>1, <2>3 DEF EventsKnowTheirCall, In
          <5> QED
            BY <5>1, <5>2
        <4> QED
          BY <4>2, <4>3
      <3> QED
        BY <3>1, <3>2, <2>3
    <2>4. \A e \in AllEvents' : Fine(e)
      <3> HIDE DEF Fine
      <3> QED
        BY <1>5, <2>2, <2>3
    <2> QED
      BY <2>4 DEF OnlyResendingMixesSentAt, In
  <1>10. RetentionKept'
    BY DEF RetentionKept
  <1> QED
    BY <1>3, <1>6, <1>7, <1>8, <1>9, <1>10

LEMMA StartSendKeeps ==
    ASSUME HmInv, NEW s \in Sends, NEW p \in SentPackets, NEW mode \in {"sync", "async"},
           StartSend(s, p, mode)
    PROVE  HmInv'
  <1> USE DEF HmInv
  <1> DEFINE new == [state |-> "recordingSent", packet |-> p, mode |-> mode,
                     sentAt |-> hmClock, eventAt |-> hmClock, end |-> "none"]
  <1>1. /\ hmSend[s].state = "unsent" /\ hmSend' = [hmSend EXCEPT ![s] = new]
        /\ UNCHANGED <<hmHistory, hmStore, hmPruned, hmClock>>
    BY DEF StartSend, In
  <1>2. new \in Call /\ new.state = "recordingSent"
    BY DEF Call, HmTypeOK
  <1> HIDE DEF new
  <1>3. /\ hmSend'[s] = new /\ \A t \in Sends \ {s} : hmSend'[t] = hmSend[t]
        /\ hmSend' \in [Sends -> {Unsent} \cup Call]
    BY <1>1, <1>2 DEF HmTypeOK
  <1>4. AllEvents' = AllEvents /\ \A t : Stored(t)' = Stored(t)
    BY <1>1 DEF AllEvents, Stored
  <1>5. \A e \in AllEvents : e.by \in Sends \ {s}
    BY <1>1 DEF AllEvents, HmTypeOK, HmEvent, EventsKnowTheirCall, In
  <1>6. \A h \in hmHistory : h.by \in Sends \ {s}
    BY <1>1 DEF EntriesTellTheState, HmTypeOK, In, Ends
  <1>7. HmTypeOK'
    BY <1>1, <1>3 DEF HmTypeOK
  <1>8. \A t \in Sends : StoredBy(t)'
    BY <1>1, <1>2, <1>3, <1>4 DEF StoredBy
  <1>9. EventsKnowTheirCall'
    BY <1>3, <1>4, <1>5 DEF EventsKnowTheirCall, In
  <1>10. EntriesTellTheState'
    BY <1>1, <1>2, <1>3, <1>6 DEF EntriesTellTheState, In, Ends
  <1>11. OnlyResendingMixesSentAt'
    BY <1>1, <1>3, <1>4, <1>5 DEF OnlyResendingMixesSentAt, In
  <1> QED
    BY <1>1, <1>7, <1>8, <1>9, <1>10, <1>11 DEF RetentionKept

\* A call that is somewhere in send has the fields of a call.
LEMMA InCall ==
    ASSUME HmTypeOK, NEW s \in Sends, hmSend[s].state # "unsent"
    PROVE  hmSend[s] \in Call
  BY DEF HmTypeOK, Unsent

LEMMA GotoCall ==
    ASSUME NEW c \in Call, NEW state \in {"enqueueing", "waiting", "recordingReceived",
                                         "recordingEnd", "thrown"} \cup Done
    PROVE  LET new == [c EXCEPT !.state = state]
           IN  /\ new \in Call /\ new.state = state /\ new.packet = c.packet
               /\ new.sentAt = c.sentAt /\ new.end = c.end
  BY DEF Call, Done, Ends

\* An event by the call itself that appends to what is stored of it.
LEMMA StoredGrows ==
    ASSUME NEW e, hmStore' = hmStore \cup {e}, hmPruned' = hmPruned
    PROVE  Stored(e.by)' = Stored(e.by) \cup {e.status}
  BY OneMoreStored DEF AllEvents

LEMMA StoredStays ==
    ASSUME UNCHANGED <<hmStore, hmPruned>>
    PROVE  \A s : Stored(s)' = Stored(s)
  BY DEF Stored, AllEvents

\* What RecordSent and RecordStatus store.
LEMMA RecordedEvent ==
    ASSUME HmTypeOK, NEW s \in Sends, hmSend[s] \in Call, hmPruned' = hmPruned,
           NEW st \in Statuses, NEW at \in 0..HmMaxTime,
           \/ st = "sent" /\ RecordSent(s)
           \/ RecordStatus(s, st, at)
    PROVE  /\ \E e \in HmEvent :
                /\ hmStore' = hmStore \cup {e}
                /\ e.by = s /\ e.packet = hmSend[s].packet
                /\ \/ e.sentAt = hmSend[s].sentAt
                   \/ \E b \in hmStore : b.packet = e.packet /\ b.sentAt = e.sentAt
           /\ Stored(s)' = Stored(s) \cup {st}
  <1>1. \E e \in HmEvent :
          /\ hmStore' = hmStore \cup {e}
          /\ e.by = s /\ e.packet = hmSend[s].packet /\ e.status = st
          /\ \/ e.sentAt = hmSend[s].sentAt
             \/ \E b \in hmStore : b.packet = e.packet /\ b.sentAt = e.sentAt
    <2>1. CASE st = "sent" /\ RecordSent(s)
      <3> DEFINE e == [packet |-> hmSend[s].packet, status |-> "sent", eventAt |-> hmSend[s].sentAt,
                       sentAt |-> hmSend[s].sentAt, by |-> s]
      <3>1. e \in HmEvent /\ hmStore' = hmStore \cup {e}
        BY <2>1 DEF RecordSent, AppendEvent, HmEvent, Call, Statuses
      <3> QED
        BY <2>1, <3>1
    <2>2. CASE RecordStatus(s, st, at)
      <3>1. PICK b \in Baselines(hmSend[s].packet) : AppendEvent(s, st, at, b.sentAt)
        BY <2>2 DEF RecordStatus
      <3>2. b \in hmStore /\ b.packet = hmSend[s].packet /\ b.sentAt \in 0..HmMaxTime
        BY <3>1 DEF Baselines, EventsOf, HmTypeOK, HmEvent
      <3> DEFINE e == [packet |-> hmSend[s].packet, status |-> st, eventAt |-> at,
                       sentAt |-> b.sentAt, by |-> s]
      <3>3. e \in HmEvent /\ hmStore' = hmStore \cup {e}
        BY <3>1, <3>2 DEF AppendEvent, HmEvent, Call
      <3> QED
        BY <3>2, <3>3
    <2> QED
      BY <2>1, <2>2
  <1> QED
    BY <1>1, StoredGrows

LEMMA PruneKeeps == ASSUME HmInv, Prune(hmClock) PROVE HmInv'
  <1> USE HandoffManagerAssumption DEF HmInv
  <1>1. PICK gone \in SUBSET hmStore :
          /\ \A e \in gone : e.eventAt < PruneBefore(hmClock)
          /\ hmStore' = hmStore \ gone
          /\ hmPruned' = hmPruned \cup {[event |-> e, at |-> hmClock] : e \in gone}
    BY DEF Prune
  <1>2. UNCHANGED <<hmSend, hmHistory, hmClock>>
    BY DEF Prune
  <1>3. AllEvents' = AllEvents
    <2> DEFINE prune(e) == [event |-> e, at |-> hmClock]
    <2>1. \A e \in gone : prune(e) \in hmPruned' /\ prune(e).event = e
      BY <1>1
    <2>2. \A p \in hmPruned' : p \in hmPruned \/ \E e \in gone : p = prune(e)
      BY <1>1
    <2>3. hmPruned \subseteq hmPruned'
      BY <1>1
    <2> HIDE DEF prune
    <2>4. {p.event : p \in hmPruned'} = {p.event : p \in hmPruned} \cup gone
      BY <2>1, <2>2, <2>3
    <2> QED
      BY <1>1, <2>4 DEF AllEvents
  <1>4. \A s : Stored(s)' = Stored(s)
    BY <1>3 DEF Stored
  <1>5. HmTypeOK'
    BY <1>1, <1>2 DEF HmTypeOK
  <1>6. \A s \in Sends : StoredBy(s)'
    BY <1>2, <1>4 DEF StoredBy
  <1>7. RetentionKept'
    <2>1. \A e \in gone : hmClock - e.eventAt > HistoryRetention
      BY <1>1 DEF PruneBefore, HmTypeOK, HmEvent
    <2> QED
      BY <1>1, <2>1 DEF RetentionKept
  <1> QED
    BY <1>2, <1>3, <1>5, <1>6, <1>7 DEF EventsKnowTheirCall, EntriesTellTheState,
                                        OnlyResendingMixesSentAt, In

LEMMA HmTickKeeps == ASSUME HmInv, HmTick PROVE HmInv'
  <1> USE HandoffManagerAssumption DEF HmInv, HmTick
  <1>1. HmTypeOK'
    BY DEF HmTypeOK
  <1>2. \A s : Stored(s)' = Stored(s)
    BY StoredStays
  <1> QED
    BY <1>1, <1>2 DEF EventsKnowTheirCall, EntriesTellTheState, AllEvents, RetentionKept,
                      OnlyResendingMixesSentAt, In, StoredBy

LEMMA SentRecordedKeeps == ASSUME HmInv, NEW s \in Sends, SentRecorded(s) PROVE HmInv'
  <1> USE DEF HmInv
  <1>1. /\ hmSend[s].state = "recordingSent" /\ RecordSent(s)
        /\ UNCHANGED <<hmHistory, hmPruned, hmClock>>
    BY DEF SentRecorded, In
  <1>2. PICK state \in {"enqueueing", "waiting", "thrown"} : Goto(s, state)
    BY DEF SentRecorded
  <1>3. PICK new : new = [hmSend[s] EXCEPT !.state = state]
    OBVIOUS
  <1>4. hmSend[s] \in Call
    BY <1>1, InCall
  <1>5. /\ new \in Call /\ new.state = state /\ new.packet = hmSend[s].packet
        /\ new.sentAt = hmSend[s].sentAt /\ state \notin Done
    BY <1>3, <1>4, GotoCall DEF Done, Ends
  <1>6. hmSend' = [hmSend EXCEPT ![s] = new] /\ hmSend'[s] = new
    BY <1>2, <1>3 DEF Goto, HmTypeOK
  <1>7. hmSend[s].sentAt \in 0..HmMaxTime
    BY <1>4 DEF Call
  <1>8. /\ \E e \in HmEvent :
             /\ hmStore' = hmStore \cup {e}
             /\ e.by = s /\ e.packet = hmSend[s].packet
             /\ \/ e.sentAt = hmSend[s].sentAt
                \/ \E b \in hmStore : b.packet = e.packet /\ b.sentAt = e.sentAt
        /\ Stored(s)' = Stored(s) \cup {"sent"}
    BY <1>1, <1>4, <1>7, RecordedEvent DEF Statuses
  <1>9. StoredBy(s)'
    BY <1>1, <1>5, <1>6, <1>8 DEF StoredBy, Ends
  <1>10. hmSend[s].state \notin Done
    BY <1>1 DEF Done, Ends
  <1> QED
    BY <1>1, <1>4, <1>5, <1>6, <1>8, <1>9, <1>10, CallKeeps

\* A step of a call that stores nothing.
LEMMA SilentKeeps ==
    ASSUME HmInv, NEW s \in Sends, NEW new \in Call,
           hmSend[s] \in Call, hmSend[s].state \notin Done,
           hmSend' = [hmSend EXCEPT ![s] = new],
           new.packet = hmSend[s].packet, new.sentAt = hmSend[s].sentAt,
           \/ hmHistory' = hmHistory /\ new.state \notin Done
           \/ hmHistory' = hmHistory \cup {[by |-> s, status |-> new.state]} /\ new.state \in Done,
           UNCHANGED <<hmStore, hmPruned, hmClock>>,
           \/ new.state = "thrown"
           \/ hmSend[s].state = "enqueueing" /\ new.state = "sent"
           \/ /\ hmSend[s].state = "waiting" /\ new.state = "recordingReceived"
              /\ new.end \in {"acknowledged", "rejected"}
           \/ hmSend[s].state = "waiting" /\ new.state = "recordingEnd" /\ new.end = "expired"
    PROVE  HmInv'
  <1>1. hmSend'[s] = new /\ Stored(s)' = Stored(s) /\ StoredBy(s)
    BY StoredStays DEF HmInv, HmTypeOK
  <1>2. StoredBy(s)'
    BY <1>1 DEF StoredBy, Ends
  <1> QED
    BY <1>2, CallKeeps

LEMMA EnqueuedKeeps == ASSUME HmInv, NEW s \in Sends, Enqueued(s) PROVE HmInv'
  <1> DEFINE new == [hmSend[s] EXCEPT !.state = "sent"]
  <1>1. hmSend[s] \in Call /\ hmSend[s].state = "enqueueing"
    BY InCall DEF HmInv, Enqueued, In
  <1>2. /\ new \in Call /\ new.state = "sent" /\ new.packet = hmSend[s].packet
        /\ new.sentAt = hmSend[s].sentAt
    BY <1>1, GotoCall DEF Done
  <1>3. /\ hmSend' = [hmSend EXCEPT ![s] = new]
        /\ hmHistory' = hmHistory \cup {[by |-> s, status |-> "sent"]}
        /\ UNCHANGED <<hmStore, hmPruned, hmClock>>
    BY DEF Enqueued, Enter, Goto
  <1> HIDE DEF new
  <1> QED
    BY <1>1, <1>2, <1>3, SilentKeeps DEF Done, Ends

LEMMA ThrowsKeeps ==
    ASSUME HmInv, NEW s \in Sends, EnqueueFails(s) \/ WaitFails(s) PROVE HmInv'
  <1> DEFINE new == [hmSend[s] EXCEPT !.state = "thrown"]
  <1>1. hmSend[s] \in Call /\ hmSend[s].state \in {"enqueueing", "waiting"}
    BY InCall DEF HmInv, EnqueueFails, WaitFails, In
  <1>2. /\ new \in Call /\ new.state = "thrown" /\ new.packet = hmSend[s].packet
        /\ new.sentAt = hmSend[s].sentAt
    BY <1>1, GotoCall
  <1>3. /\ hmSend' = [hmSend EXCEPT ![s] = new]
        /\ UNCHANGED <<hmHistory, hmStore, hmPruned, hmClock>>
    BY DEF EnqueueFails, WaitFails, Goto
  <1> HIDE DEF new
  <1> QED
    BY <1>1, <1>2, <1>3, SilentKeeps DEF Done, Ends

LEMMA AckedKeeps ==
    ASSUME HmInv, NEW s \in Sends, NEW end \in {"acknowledged", "rejected"}, NEW at \in 0..hmClock,
           Acked(s, end, at)
    PROVE  HmInv'
  <1> DEFINE new == [hmSend[s] EXCEPT !.state = "recordingReceived", !.end = end, !.eventAt = at]
  <1>1. hmSend[s] \in Call /\ hmSend[s].state = "waiting"
    BY InCall DEF HmInv, Acked, In
  <1>2. at \in 0..HmMaxTime
    BY HandoffManagerAssumption DEF HmInv, HmTypeOK
  <1>3. /\ new \in Call /\ new.state = "recordingReceived" /\ new.packet = hmSend[s].packet
        /\ new.sentAt = hmSend[s].sentAt /\ new.end = end
    BY <1>1, <1>2 DEF Call, Ends
  <1>4. /\ hmSend' = [hmSend EXCEPT ![s] = new]
        /\ UNCHANGED <<hmHistory, hmStore, hmPruned, hmClock>>
    BY DEF Acked
  <1> HIDE DEF new
  <1> QED
    BY <1>1, <1>3, <1>4, SilentKeeps DEF Done, Ends

LEMMA TimesOutKeeps == ASSUME HmInv, NEW s \in Sends, TimesOut(s) PROVE HmInv'
  <1> DEFINE new == [hmSend[s] EXCEPT !.state = "recordingEnd", !.end = "expired", !.eventAt = hmClock]
  <1>1. hmSend[s] \in Call /\ hmSend[s].state = "waiting"
    BY InCall DEF HmInv, TimesOut, In
  <1>2. /\ new \in Call /\ new.state = "recordingEnd" /\ new.packet = hmSend[s].packet
        /\ new.sentAt = hmSend[s].sentAt /\ new.end = "expired"
    BY <1>1 DEF Call, Ends, HmInv, HmTypeOK
  <1>3. /\ hmSend' = [hmSend EXCEPT ![s] = new]
        /\ UNCHANGED <<hmHistory, hmStore, hmPruned, hmClock>>
    BY DEF TimesOut
  <1> HIDE DEF new
  <1> QED
    BY <1>1, <1>2, <1>3, SilentKeeps DEF Done, Ends

\* A step of a call that records a status.
LEMMA RecordingKeeps ==
    ASSUME HmInv, NEW s \in Sends, NEW state \in {"recordingEnd", "thrown"} \cup Ends,
           NEW st \in Statuses,
           hmSend[s].state # "unsent", hmSend[s].state \notin Done,
           \/ st = "sent" /\ RecordSent(s)
           \/ RecordStatus(s, st, hmSend[s].eventAt),
           Goto(s, state),
           \/ hmHistory' = hmHistory /\ state \notin Done
           \/ hmHistory' = hmHistory \cup {[by |-> s, status |-> state]} /\ state \in Done,
           UNCHANGED <<hmPruned, hmClock>>,
           \/ state = "thrown"
           \/ hmSend[s].state = "recordingReceived" /\ state = "recordingEnd" /\ st = "received"
           \/ hmSend[s].state = "recordingEnd" /\ state = hmSend[s].end /\ st = state
    PROVE  HmInv'
  <1> USE DEF HmInv
  <1>1. PICK new : new = [hmSend[s] EXCEPT !.state = state]
    OBVIOUS
  <1>2. hmSend[s] \in Call
    BY InCall
  <1>3. /\ new \in Call /\ new.state = state /\ new.packet = hmSend[s].packet
        /\ new.sentAt = hmSend[s].sentAt /\ new.end = hmSend[s].end
    BY <1>1, <1>2, GotoCall DEF Done
  <1>4. hmSend' = [hmSend EXCEPT ![s] = new] /\ hmSend'[s] = new
    BY <1>1 DEF Goto, HmTypeOK
  <1>5. hmSend[s].eventAt \in 0..HmMaxTime
    BY <1>2 DEF Call
  <1>6. /\ \E e \in HmEvent :
             /\ hmStore' = hmStore \cup {e}
             /\ e.by = s /\ e.packet = hmSend[s].packet
             /\ \/ e.sentAt = hmSend[s].sentAt
                \/ \E b \in hmStore : b.packet = e.packet /\ b.sentAt = e.sentAt
        /\ Stored(s)' = Stored(s) \cup {st}
    BY <1>2, <1>5, RecordedEvent
  <1>7. StoredBy(s)'
    <2>1. StoredBy(s)
      OBVIOUS
    <2> QED
      BY <2>1, <1>3, <1>4, <1>6 DEF StoredBy, Ends, Done
  <1> QED
    BY <1>2, <1>3, <1>4, <1>6, <1>7, CallKeeps

LEMMA ReceivedRecordedKeeps == ASSUME HmInv, NEW s \in Sends, ReceivedRecorded(s) PROVE HmInv'
  BY RecordingKeeps DEF ReceivedRecorded, In, Done, Ends, Statuses

LEMMA EndRecordedKeeps == ASSUME HmInv, NEW s \in Sends, EndRecorded(s) PROVE HmInv'
  <1>1. hmSend[s].state = "recordingEnd"
    BY DEF EndRecorded, In
  <1>2. PICK end \in Ends : end = hmSend[s].end
    BY <1>1 DEF HmInv, StoredBy
  <1>3. /\ RecordStatus(s, end, hmSend[s].eventAt) /\ Goto(s, end)
        /\ hmHistory' = hmHistory \cup {[by |-> s, status |-> end]}
        /\ UNCHANGED <<hmPruned, hmClock>>
    BY <1>2 DEF EndRecorded, Enter
  <1>4. end \in Done /\ end \in Statuses
    BY DEF Done, Statuses
  <1> QED
    BY <1>1, <1>2, <1>3, <1>4, RecordingKeeps DEF Done, Ends

LEMMA RecordingFailsKeeps == ASSUME HmInv, NEW s \in Sends, RecordingFails(s) PROVE HmInv'
  <1>1. /\ hmSend[s].state \in {"recordingSent", "recordingReceived", "recordingEnd"}
        /\ Goto(s, "thrown") /\ UNCHANGED <<hmHistory, hmPruned, hmClock>>
    BY DEF RecordingFails, Recording, In
  <1>2. hmSend[s].state # "unsent" /\ hmSend[s].state \notin Done /\ "thrown" \notin Done
    BY <1>1 DEF Done, Ends
  <1>3. CASE hmStore' = hmStore
    <2> DEFINE new == [hmSend[s] EXCEPT !.state = "thrown"]
    <2>1. hmSend[s] \in Call
      BY <1>2, InCall DEF HmInv
    <2>2. /\ new \in Call /\ new.state = "thrown" /\ new.packet = hmSend[s].packet
          /\ new.sentAt = hmSend[s].sentAt
      BY <2>1, GotoCall
    <2>3. hmSend' = [hmSend EXCEPT ![s] = new]
      BY <1>1 DEF Goto
    <2> HIDE DEF new
    <2> QED
      BY <1>1, <1>2, <1>3, <2>1, <2>2, <2>3, SilentKeeps
  <1>4. CASE \/ RecordSent(s)
             \/ RecordStatus(s, "received", hmSend[s].eventAt)
    BY <1>1, <1>2, <1>4, RecordingKeeps DEF Statuses
  <1>5. CASE hmSend[s].state = "recordingEnd" /\ RecordStatus(s, hmSend[s].end, hmSend[s].eventAt)
    <2>1. PICK end \in Statuses : end = hmSend[s].end
      BY <1>5 DEF HmInv, StoredBy, Statuses
    <2>2. RecordStatus(s, end, hmSend[s].eventAt)
      BY <1>5, <2>1
    <2> QED
      BY <1>1, <1>2, <2>2, RecordingKeeps
  <1> QED
    BY <1>3, <1>4, <1>5 DEF RecordingFails, In

LEMMA HmKeeps == ASSUME HmInv, [HmNext]_hmVars PROVE HmInv'
  <1>1. CASE UNCHANGED hmVars
    BY <1>1 DEF hmVars, HmInv, HmTypeOK, EventsKnowTheirCall, EntriesTellTheState, AllEvents,
                RetentionKept, OnlyResendingMixesSentAt, In, StoredBy, Stored
  <1>2. ASSUME NEW s \in Sends, NEW p \in SentPackets, NEW mode \in {"sync", "async"},
               StartSend(s, p, mode)
        PROVE  HmInv'
    BY <1>2, StartSendKeeps
  <1>3. ASSUME NEW s \in Sends,
               \/ SentRecorded(s) \/ Enqueued(s) \/ EnqueueFails(s)
               \/ WaitFails(s) \/ TimesOut(s) \/ ReceivedRecorded(s) \/ EndRecorded(s)
               \/ RecordingFails(s)
        PROVE  HmInv'
    BY <1>3, SentRecordedKeeps, EnqueuedKeeps, ThrowsKeeps, TimesOutKeeps, ReceivedRecordedKeeps,
       EndRecordedKeeps, RecordingFailsKeeps
  <1>4. ASSUME NEW s \in Sends, NEW end \in {"acknowledged", "rejected"}, NEW at \in 0..hmClock,
               Acked(s, end, at)
        PROVE  HmInv'
    BY <1>4, AckedKeeps
  <1>5. CASE Prune(hmClock) \/ HmTick
    BY <1>5, PruneKeeps, HmTickKeeps
  <1> QED
    BY <1>1, <1>2, <1>3, <1>4, <1>5 DEF HmNext

LEMMA HistorySoundFromInv == ASSUME HmInv PROVE HandoffHistorySound
  <1> USE DEF HmInv
  <1>1. ASSUME NEW h \in hmHistory
        PROVE  /\ Stored(h.by) = CASE h.status = "sent" -> {"sent"}
                                   [] h.status = "expired" -> {"sent", "expired"}
                                   [] OTHER -> {"sent", "received", h.status}
               /\ \A g \in hmHistory : g.by = h.by => g = h
    <2>1. /\ h.by \in Sends /\ h.status \in Done
          /\ hmSend[h.by].state = h.status /\ StoredBy(h.by)
      BY DEF HmTypeOK, EntriesTellTheState, In, Done
    <2>2. Stored(h.by) = CASE h.status = "sent" -> {"sent"}
                           [] h.status = "expired" -> {"sent", "expired"}
                           [] OTHER -> {"sent", "received", h.status}
      BY <2>1 DEF StoredBy, Done, Ends
    <2>3. ASSUME NEW g \in hmHistory, g.by = h.by PROVE g = h
      <3>1. g.status = h.status
        BY <2>3 DEF EntriesTellTheState, In
      <3>2. g \in [by : Sends, status : Done] /\ h \in [by : Sends, status : Done]
        BY DEF HmTypeOK, Done
      <3> QED
        BY <2>3, <3>1, <3>2
    <2> QED
      BY <2>2, <2>3
  <1>2. ASSUME NEW s \in Sends, \A h \in hmHistory : h.by # s, Stored(s) \cap Ends # {}
        PROVE  In(s, "thrown")
    <2>1. hmSend[s].state \notin Done
      BY <1>2 DEF EntriesTellTheState, Done
    <2>2. hmSend[s] \in {Unsent} \cup Call
      BY DEF HmTypeOK
    <2>3. hmSend[s].state \in {"unsent", "recordingSent", "enqueueing", "waiting",
                              "recordingReceived", "recordingEnd", "thrown"}
      BY <2>1, <2>2 DEF Unsent, Call, Done
    <2> QED
      BY <1>2, <2>3 DEF StoredBy, In, Ends
  <1>3. StoreTellsHistory
    BY <1>1, <1>2 DEF StoreTellsHistory
  <1> QED
    BY <1>3 DEF HandoffHistorySound

\* Whatever calls of send overlap, fail or time out, and however early pruning is
\* asked for: the storage and the manager's history agree on how each call
\* ended, and only what is old enough is gone.
THEOREM HistorySound == HmSpec => []HandoffHistorySound
  BY HmStarts, HmKeeps, HistorySoundFromInv, PTL DEF HmSpec

-----------------------------------------------------------------------------
(* Packets: induction over candidates, layers and fields.                  *)

\* Naturals that are not none have a least.
LEMMA NatLeast ==
    ASSUME NEW T \in SUBSET Nat, T # {}
    PROVE  \E x \in T : \A y \in T : ~(y < x)
  <1> DEFINE R == OpToRel(<, Nat)
  <1>1. IsWellFoundedOn(R, Nat)
    BY NatLessThanWellFounded
  <1>2. \A x, y \in Nat : <<x, y>> \in R <=> x < y
    BY DEF OpToRel
  <1> HIDE DEF R
  <1>3. \E x \in T : \A y \in T : ~(<<y, x>> \in R)
    BY <1>1, WFMin
  <1> QED BY <1>2, <1>3

\* Induction, for a set instead of a predicate.
LEMMA Induction ==
    ASSUME NEW T \in SUBSET Nat, 0 \in T, \A n \in T : n + 1 \in T
    PROVE  T = Nat
  <1> SUFFICES ASSUME T # Nat PROVE FALSE
    OBVIOUS
  <1>1. PICK x \in Nat \ T : \A y \in Nat \ T : ~(y < x)
    BY NatLeast
  <1>2. x - 1 \in Nat /\ x - 1 \in T
    BY <1>1
  <1> QED BY <1>1, <1>2

\* Some of finitely many positions are the last.
LEMMA LastExists ==
    ASSUME NEW n \in Nat, NEW S \in SUBSET (1..n), S # {}
    PROVE  \E i \in S : \A j \in S : j <= i
  <1> DEFINE T == {n - i : i \in S}
  <1>1. T \in SUBSET Nat /\ T # {}
    <2>1. \A i \in S : n - i \in Nat
      OBVIOUS
    <2>2. T \in SUBSET Nat
      BY <2>1
    <2>3. PICK i \in S : TRUE
      OBVIOUS
    <2>4. n - i \in T
      BY <2>3
    <2> QED
      BY <2>2, <2>4
  <1>2. PICK x \in T : \A y \in T : ~(y < x)
    BY <1>1, NatLeast
  <1>3. PICK i \in S : x = n - i
    BY <1>2
  <1>4. ASSUME NEW j \in S PROVE j <= i
    <2>1. n - j \in T
      OBVIOUS
    <2>2. ~(n - j < n - i)
      BY <1>2, <1>3, <2>1
    <2> QED
      BY <2>2
  <1> QED
    BY <1>4

\* A merged policy weighs with numbers, whatever its layers leave out.
LEMMA MergedWeights ==
    ASSUME NEW n \in Nat, NEW layers \in [1..n -> RoutingLayers]
    PROVE  LET policy == MergeHandoffRoutingPolicy(layers)
           IN  policy.taskWeight \in Nat /\ policy.costWeight \in Nat
  <1>1. ASSUME NEW field \in {"taskWeight", "costWeight"}
        PROVE  LastSaid(layers, field) \in Nat
    <2> DEFINE said == {i \in DOMAIN layers : layers[i][field] # None}
               last == CHOOSE i \in said : \A j \in said : j <= i
    <2>1. \A i \in 1..n : layers[i][field] \in {None} \cup Weights
      BY <1>1 DEF RoutingLayers
    <2>2. Weights \subseteq Nat
      BY PacketAssumption
    <2>3. DefaultRouting[field] \in Nat
      BY <1>1 DEF DefaultRouting
    <2>4. said \in SUBSET (1..n) /\ \A i \in said : layers[i][field] \in Nat
      BY <2>1, <2>2
    <2>5. LastSaid(layers, field) = IF said = {} THEN DefaultRouting[field] ELSE layers[last][field]
      BY DEF LastSaid
    <2> HIDE DEF said
    <2>6. said # {} => last \in said
      BY <2>4, LastExists
    <2> HIDE DEF last
    <2> QED
      BY <2>3, <2>4, <2>5, <2>6
  <1>2. /\ MergeHandoffRoutingPolicy(layers)["taskWeight"] = LastSaid(layers, "taskWeight")
        /\ MergeHandoffRoutingPolicy(layers)["costWeight"] = LastSaid(layers, "costWeight")
    BY DEF MergeHandoffRoutingPolicy
  <1> QED
    BY <1>1, <1>2

\* Candidates have a cost and a score, and a place among the tools.
LEMMA CandidatesScore ==
    ASSUME NEW policy, policy.taskWeight \in Nat, policy.costWeight \in Nat, NEW typed, NEW c \in Candidate
    PROVE  /\ CostOf(c) \in 0..HugeCost
           /\ Score(c, policy, typed) \in Int
           /\ c.tool \in ToSet(PacketTools)
  <1>1. CostOf(c) \in 0..HugeCost /\ c.tool \in ToSet(PacketTools)
    <2>1. c.cost \in Costs \cup {None} /\ c.tool \in ToSet(PacketTools)
      BY DEF Candidate
    <2>2. Costs \subseteq 0..HugeCost /\ HugeCost \in 0..HugeCost
      BY PacketAssumption DEF HugeCost
    <2> QED
      BY <2>1, <2>2 DEF CostOf
  <1>2. CostOf(c) * policy.costWeight \in Int
    <2>1. CostOf(c) \in Int
      BY <1>1 DEF HugeCost
    <2> QED
      BY <2>1
  <1>3. (IF typed /\ c.supports THEN policy.taskWeight ELSE 0) \in Int
    OBVIOUS
  <1> QED
    BY <1>1, <1>2, <1>3 DEF Score

\* Names are ordered as the tools are listed.
LEMMA NamesOrdered ==
    /\ \A s \in ToSet(PacketTools) : ~NameBefore(s, s)
    /\ \A s, t \in ToSet(PacketTools) : s # t => NameBefore(s, t) \/ NameBefore(t, s)
    /\ \A s, t \in ToSet(PacketTools) : ~(NameBefore(s, t) /\ NameBefore(t, s))
    /\ \A s, t, u \in ToSet(PacketTools) : NameBefore(s, t) /\ NameBefore(t, u) => NameBefore(s, u)
  <1>1. /\ DOMAIN PacketTools = 1..Len(PacketTools) /\ Len(PacketTools) \in Nat
        /\ \A i, j \in DOMAIN PacketTools : PacketTools[i] = PacketTools[j] => i = j
    BY PacketAssumption
  <1>2. \A s \in ToSet(PacketTools) : \E i \in DOMAIN PacketTools : PacketTools[i] = s
    BY DEF ToSet
  <1> QED
    BY <1>1, <1>2 DEF NameBefore

\* Better orders candidates, and tells those of different tools apart.
LEMMA BetterOrders ==
    ASSUME NEW policy, policy.taskWeight \in Nat, policy.costWeight \in Nat, NEW typed
    PROVE  /\ \A c \in Candidate : ~Better(c, c, policy, typed)
           /\ \A c, d \in Candidate :
                c.tool # d.tool => Better(c, d, policy, typed) \/ Better(d, c, policy, typed)
           /\ \A c, d, e \in Candidate :
                Better(c, d, policy, typed) /\ Better(d, e, policy, typed) => Better(c, e, policy, typed)
  <1> DEFINE score(c) == Score(c, policy, typed)
  <1>1. \A c \in Candidate : score(c) \in Int /\ c.tool \in ToSet(PacketTools)
    BY CandidatesScore
  <1>2. \A c, d \in Candidate : Better(c, d, policy, typed) <=>
           score(c) > score(d) \/ (score(c) = score(d) /\ NameBefore(c.tool, d.tool))
    BY DEF Better
  <1> HIDE DEF score
  <1>3. \A c \in Candidate : ~Better(c, c, policy, typed)
    BY <1>1, <1>2, NamesOrdered
  <1>4. ASSUME NEW c \in Candidate, NEW d \in Candidate, c.tool # d.tool
        PROVE  Better(c, d, policy, typed) \/ Better(d, c, policy, typed)
    <2>1. NameBefore(c.tool, d.tool) \/ NameBefore(d.tool, c.tool)
      BY <1>1, <1>4, NamesOrdered
    <2>2. score(c) > score(d) \/ score(c) = score(d) \/ score(d) > score(c)
      BY <1>1
    <2> QED
      BY <1>2, <2>1, <2>2
  <1>5. ASSUME NEW c \in Candidate, NEW d \in Candidate, NEW e \in Candidate,
               Better(c, d, policy, typed), Better(d, e, policy, typed)
        PROVE  Better(c, e, policy, typed)
    <2>1. NameBefore(c.tool, d.tool) /\ NameBefore(d.tool, e.tool) => NameBefore(c.tool, e.tool)
      BY <1>1, NamesOrdered
    <2>2. score(c) \in Int /\ score(d) \in Int /\ score(e) \in Int
      BY <1>1
    <2>3. score(c) > score(d) \/ (score(c) = score(d) /\ NameBefore(c.tool, d.tool))
      BY <1>2, <1>5
    <2>4. score(d) > score(e) \/ (score(d) = score(e) /\ NameBefore(d.tool, e.tool))
      BY <1>2, <1>5
    <2>5. score(c) > score(e) \/ (score(c) = score(e) /\ NameBefore(c.tool, e.tool))
      BY <2>1, <2>2, <2>3, <2>4
    <2> QED
      BY <1>2, <2>5
  <1> QED
    BY <1>3, <1>4, <1>5

\* No other candidate of S comes before c.
Best(c, S, policy, typed) == c \in S /\ \A d \in S : ~Better(d, c, policy, typed)

\* One of finitely many available candidates is the best.
LEMMA BestExists ==
    ASSUME NEW policy, policy.taskWeight \in Nat, policy.costWeight \in Nat, NEW typed,
           NEW n \in Nat, NEW listed \in [1..n -> Candidate], Available(Range(listed)) # {}
    PROVE  \E c : Best(c, Available(Range(listed)), policy, typed)
  <1> DEFINE BestOf(i, m) == /\ listed[i].available
                             /\ \A j \in 1..m : listed[j].available => ~Better(listed[j], listed[i], policy, typed)
             T == {m \in Nat : m <= n => \/ \A i \in 1..m : ~listed[i].available
                                         \/ \E i \in 1..m : BestOf(i, m)}
  <1>1. 0 \in T
    OBVIOUS
  <1>2. ASSUME NEW m \in T PROVE m + 1 \in T
    <2> SUFFICES ASSUME m + 1 <= n
                 PROVE  \/ \A i \in 1..(m + 1) : ~listed[i].available
                        \/ \E i \in 1..(m + 1) : BestOf(i, m + 1)
      OBVIOUS
    <2>1. m \in Nat /\ m <= n /\ m + 1 \in 1..n /\ 1..m \subseteq 1..n
      OBVIOUS
    <2>2. \A i \in 1..n : listed[i] \in Candidate
      OBVIOUS
    <2>3. \A i \in 1..(m + 1) : i \in 1..m \/ i = m + 1
      OBVIOUS
    <2>4. CASE ~listed[m + 1].available
      <3>1. CASE \A i \in 1..m : ~listed[i].available
        BY <2>3, <2>4, <3>1
      <3>2. CASE \E i \in 1..m : BestOf(i, m)
        <4>1. PICK i \in 1..m : BestOf(i, m)
          BY <3>2
        <4>2. BestOf(i, m + 1)
          BY <2>3, <2>4, <4>1
        <4> QED
          BY <2>3, <4>2
      <3> QED
        BY <2>1, <3>1, <3>2
    <2>5. CASE listed[m + 1].available /\ \A i \in 1..m : ~listed[i].available
      <3>1. ~Better(listed[m + 1], listed[m + 1], policy, typed)
        BY <2>1, <2>2, BetterOrders
      <3>2. BestOf(m + 1, m + 1)
        BY <2>3, <2>5, <3>1
      <3> QED
        BY <2>1, <3>2
    <2>6. CASE listed[m + 1].available /\ \E i \in 1..m : BestOf(i, m)
      <3>1. PICK i \in 1..m : BestOf(i, m)
        BY <2>6
      <3>2. CASE Better(listed[m + 1], listed[i], policy, typed)
        <4>1. ASSUME NEW j \in 1..(m + 1), listed[j].available
              PROVE  ~Better(listed[j], listed[m + 1], policy, typed)
          <5>1. CASE j = m + 1
            BY <2>1, <2>2, <5>1, BetterOrders
          <5>2. CASE j \in 1..m
            <6>1. ~Better(listed[j], listed[i], policy, typed)
              BY <3>1, <4>1, <5>2
            <6>2. listed[j] \in Candidate /\ listed[i] \in Candidate /\ listed[m + 1] \in Candidate
              BY <2>1, <2>2, <5>2
            <6> QED
              BY <3>2, <6>1, <6>2, BetterOrders
          <5> QED
            BY <2>3, <5>1, <5>2
        <4>2. BestOf(m + 1, m + 1)
          BY <2>6, <4>1
        <4> QED
          BY <2>1, <4>2
      <3>3. CASE ~Better(listed[m + 1], listed[i], policy, typed)
        <4>1. BestOf(i, m + 1)
          BY <2>3, <3>1, <3>3
        <4> QED
          BY <2>1, <3>1, <4>1
      <3> QED
        BY <3>2, <3>3
    <2> QED
      BY <2>1, <2>4, <2>5, <2>6
  <1>3. T = Nat
    <2> HIDE DEF T
    <2>1. T \subseteq Nat
      BY DEF T
    <2> QED
      BY <1>1, <1>2, <2>1, Induction
  <1>4. PICK a \in 1..n : listed[a].available
    BY DEF Available, Range
  <1>5. PICK i \in 1..n : BestOf(i, n)
    <2>1. n \in T
      BY <1>3
    <2>2. (\A i \in 1..n : ~listed[i].available) \/ \E i \in 1..n : BestOf(i, n)
      BY <2>1
    <2> QED
      BY <1>4, <2>2
  <1>6. listed[i] \in Available(Range(listed))
    BY <1>5 DEF Available, Range
  <1>7. ASSUME NEW d \in Available(Range(listed)) PROVE ~Better(d, listed[i], policy, typed)
    <2>1. PICK j \in 1..n : d = listed[j] /\ listed[j].available
      BY DEF Available, Range
    <2> QED
      BY <1>5, <2>1
  <1> QED
    BY <1>6, <1>7 DEF Best

\* Whoever is the best has the tool that gets the packet.
LEMMA BestIsChosen ==
    ASSUME NEW layers, NEW typed, NEW S \in SUBSET Candidate, NEW c,
           MergeHandoffRoutingPolicy(layers).routing # "direct",
           MergeHandoffRoutingPolicy(layers).taskWeight \in Nat,
           MergeHandoffRoutingPolicy(layers).costWeight \in Nat,
           Best(c, Available(S), MergeHandoffRoutingPolicy(layers), typed)
    PROVE  ResolveHandoffRouting(S, None, layers, typed) = c.tool
  <1> DEFINE policy == MergeHandoffRoutingPolicy(layers)
             able == Available(S)
             chosen == CHOOSE x \in able : \A d \in able : ~Better(d, x, policy, typed)
  <1> HIDE DEF policy, able
  <1>1. c \in able /\ \A d \in able : ~Better(d, c, policy, typed)
    BY DEF Best, policy, able
  <1>2. chosen \in able /\ \A d \in able : ~Better(d, chosen, policy, typed)
    BY <1>1
  <1>3. ResolveHandoffRouting(S, None, layers, typed) = chosen.tool
    BY <1>1 DEF ResolveHandoffRouting, policy, able
  <1> HIDE DEF chosen
  <1>4. c \in Candidate /\ chosen \in Candidate
    BY <1>1, <1>2 DEF able, Available
  <1>5. ~Better(c, chosen, policy, typed) /\ ~Better(chosen, c, policy, typed)
    BY <1>1, <1>2
  <1>6. policy.taskWeight \in Nat /\ policy.costWeight \in Nat
    BY DEF policy
  <1>7. c.tool = chosen.tool
    BY <1>4, <1>5, <1>6, BetterOrders
  <1> QED
    BY <1>3, <1>7

\* Getting cheaper lowers no score.
LEMMA CheaperScoresMore ==
    ASSUME NEW policy, policy.taskWeight \in Nat, policy.costWeight \in Nat, NEW typed,
           NEW c \in Candidate, NEW cost \in Costs, cost <= CostOf(c)
    PROVE  LET cheaper == [c EXCEPT !.cost = cost]
           IN  /\ cheaper \in Candidate /\ cheaper.tool = c.tool /\ cheaper.available = c.available
               /\ Score(cheaper, policy, typed) >= Score(c, policy, typed)
  <1> DEFINE cheaper == [c EXCEPT !.cost = cost]
  <1>1. /\ cheaper \in Candidate /\ cheaper.tool = c.tool /\ cheaper.available = c.available
        /\ cheaper.supports = c.supports /\ cheaper.cost = cost
    BY DEF Candidate
  <1>2. CostOf(cheaper) = cost
    BY <1>1, PacketAssumption DEF CostOf
  <1>3. CostOf(c) \in Nat /\ cost \in Nat
    <2>1. CostOf(c) \in 0..HugeCost
      BY CandidatesScore
    <2>2. Costs \subseteq 0..HugeCost
      BY PacketAssumption
    <2>3. 0..HugeCost \subseteq Nat
      BY DEF HugeCost
    <2> QED
      BY <2>1, <2>2, <2>3
  <1> HIDE DEF cheaper
  <1>4. ASSUME NEW a \in Nat, NEW b \in Nat, NEW w \in Nat, a <= b PROVE a * w <= b * w
    <2>1. PICK k \in Nat : b = a + k
      <3>1. b - a \in Nat /\ b = a + (b - a)
        BY <1>4
      <3> QED
        BY <3>1
    <2>2. b * w = a * w + k * w /\ k * w \in Nat /\ a * w \in Nat
      BY <2>1
    <2> QED
      BY <2>2
  <1>5. cost * policy.costWeight <= CostOf(c) * policy.costWeight
    BY <1>3, <1>4
  <1>6. cost * policy.costWeight \in Nat /\ CostOf(c) * policy.costWeight \in Nat
    BY <1>3
  <1>7. (IF typed /\ c.supports THEN policy.taskWeight ELSE 0) \in Int
    OBVIOUS
  <1>8. Score(cheaper, policy, typed) >= Score(c, policy, typed)
    BY <1>1, <1>2, <1>5, <1>6, <1>7 DEF Score
  <1> QED
    BY <1>1, <1>8 DEF cheaper

\* The tool of the best candidate is still the best when one of its candidates gets cheaper.
LEMMA CheaperStaysBest ==
    ASSUME NEW policy, policy.taskWeight \in Nat, policy.costWeight \in Nat, NEW typed,
           NEW S \in SUBSET Candidate, NEW b, Best(b, Available(S), policy, typed),
           NEW c \in S, c.tool = b.tool, c.available, NEW cost \in Costs, cost <= CostOf(c)
    PROVE  LET cheaper == [c EXCEPT !.cost = cost]
           IN  \E e : e.tool = b.tool /\ Best(e, Available((S \ {c}) \cup {cheaper}), policy, typed)
  <1> DEFINE cheaper == [c EXCEPT !.cost = cost]
             able == Available((S \ {c}) \cup {cheaper})
  <1>1. /\ cheaper \in Candidate /\ cheaper.tool = c.tool /\ cheaper.available = c.available
        /\ Score(cheaper, policy, typed) >= Score(c, policy, typed)
    BY CheaperScoresMore
  <1> SUFFICES \E e : e.tool = b.tool /\ Best(e, able, policy, typed)
    OBVIOUS
  <1> HIDE DEF cheaper
  <1>2. /\ b \in S /\ b.available /\ b \in Candidate /\ c \in Candidate
        /\ \A d \in S : d.available => ~Better(d, b, policy, typed)
    BY DEF Best, Available
  <1>3. \A d \in able : d = cheaper \/ (d \in S /\ d # c /\ d.available /\ d \in Candidate)
    BY DEF Available
  <1>4. cheaper \in able
    BY <1>1 DEF Available
  <1> HIDE DEF able
  <1>5. CASE b = c
    <2>1. ASSUME NEW d \in able PROVE ~Better(d, cheaper, policy, typed)
      <3>1. CASE d = cheaper
        BY <1>1, <3>1, BetterOrders
      <3>2. CASE d \in S /\ d # c /\ d.available /\ d \in Candidate
        <4>1. ~Better(d, c, policy, typed)
          BY <1>2, <1>5, <3>2
        <4>2. /\ Score(d, policy, typed) \in Int /\ Score(c, policy, typed) \in Int
              /\ Score(cheaper, policy, typed) \in Int
          BY <1>1, <1>2, <3>2, CandidatesScore
        <4> QED
          BY <1>1, <4>1, <4>2 DEF Better
      <3> QED
        BY <1>3, <3>1, <3>2
    <2> QED
      BY <1>1, <1>4, <2>1 DEF Best
  <1>6. CASE b # c /\ Better(cheaper, b, policy, typed)
    <2>1. ASSUME NEW d \in able PROVE ~Better(d, cheaper, policy, typed)
      <3>1. CASE d = cheaper
        BY <1>1, <3>1, BetterOrders
      <3>2. CASE d \in S /\ d # c /\ d.available /\ d \in Candidate
        BY <1>1, <1>2, <1>6, <3>2, BetterOrders
      <3> QED
        BY <1>3, <3>1, <3>2
    <2> QED
      BY <1>1, <1>4, <2>1 DEF Best
  <1>7. CASE b # c /\ ~Better(cheaper, b, policy, typed)
    <2>1. b \in able
      BY <1>2, <1>7 DEF Available, able
    <2>2. \A d \in able : ~Better(d, b, policy, typed)
      BY <1>2, <1>3, <1>7
    <2> QED
      BY <2>1, <2>2 DEF Best
  <1> QED
    BY <1>5, <1>6, <1>7

\* RoutingSound, for candidates and layers of any number, costs and weights.
LEMMA RoutingHolds == ASSUME asked \in RoutingQuestions PROVE RoutingSound
  <1> DEFINE to(S) == ResolveHandoffRouting(S, asked.direct, asked.layers, asked.typed)
             chosen == to(asked.candidates)
             policy == MergeHandoffRoutingPolicy(asked.layers)
             target == IF asked.direct = None THEN policy.tool ELSE asked.direct
             All(S) ==
               /\ \E c \in S : c.tool = chosen /\ c.available
               /\ \A d \in S : d.tool # chosen => to(S \ {d}) = chosen
               /\ \A c \in S : c.tool = chosen /\ c.available =>
                    \A cost \in Costs : cost <= CostOf(c) =>
                      to((S \ {c}) \cup {[c EXCEPT !.cost = cost]}) = chosen
  <1>1. /\ \E n \in 0..MostCandidates : \E listed \in [1..n -> Candidate] : asked.candidates = Range(listed)
        /\ \E n \in 0..MostLayers : asked.layers \in [1..n -> RoutingLayers]
    BY DEF RoutingQuestions
  <1>2. \E n \in Nat : \E listed \in [1..n -> Candidate] : asked.candidates = Range(listed)
    <2>1. 0..MostCandidates \subseteq Nat
      BY PacketAssumption
    <2> QED
      BY <1>1, <2>1
  <1>3. policy.taskWeight \in Nat /\ policy.costWeight \in Nat
    <2>1. 0..MostLayers \subseteq Nat
      BY PacketAssumption
    <2> QED
      BY <1>1, <2>1, MergedWeights
  <1>4. asked.candidates \in SUBSET Candidate
    BY <1>2 DEF Range
  <1>t. ASSUME NEW c \in Candidate, NEW cost \in Costs
        PROVE  /\ [c EXCEPT !.cost = cost].tool = c.tool
               /\ [c EXCEPT !.cost = cost].available = c.available
    BY DEF Candidate
  <1> SUFFICES ASSUME chosen # "error" PROVE All(asked.candidates)
    BY DEF RoutingSound
  <1> HIDE DEF policy
  <1>5. Available(asked.candidates) # {}
    BY DEF ResolveHandoffRouting
  <1>6. CASE asked.direct # None \/ policy.routing = "direct"
    <2>1. \A S : to(S) = IF Available(S) # {} /\ \E c \in Available(S) : c.tool = target
                         THEN target ELSE "error"
      BY <1>6 DEF ResolveHandoffRouting, policy
    <2> HIDE DEF to, target
    <2>2. chosen = target /\ \E c \in Available(asked.candidates) : c.tool = target
      BY <2>1
    <2>3. \A S : (\E c \in S : c.tool = target /\ c.available) => to(S) = target
      <3>1. \A S : (\E c \in S : c.tool = target /\ c.available) =>
               Available(S) # {} /\ \E c \in Available(S) : c.tool = target
        BY DEF Available
      <3> QED
        BY <2>1, <3>1
    <2>4. PICK a \in asked.candidates : a.tool = target /\ a.available
      BY <2>2 DEF Available
    <2>5. ASSUME NEW d \in asked.candidates, d.tool # chosen PROVE to(asked.candidates \ {d}) = chosen
      BY <2>2, <2>3, <2>4, <2>5
    <2>6. ASSUME NEW c \in asked.candidates, c.tool = chosen, c.available, NEW cost \in Costs
          PROVE  to((asked.candidates \ {c}) \cup {[c EXCEPT !.cost = cost]}) = chosen
      <3>1. c \in Candidate
        BY <1>4
      <3>2. [c EXCEPT !.cost = cost].tool = target /\ [c EXCEPT !.cost = cost].available
        BY <1>t, <2>2, <2>6, <3>1
      <3> QED
        BY <2>2, <2>3, <3>2
    <2> QED
      BY <2>2, <2>4, <2>5, <2>6
  <1>7. CASE asked.direct = None /\ policy.routing # "direct"
    <2>1. PICK b : Best(b, Available(asked.candidates), policy, asked.typed)
      <3>1. PICK n \in Nat : \E listed \in [1..n -> Candidate] : asked.candidates = Range(listed)
        BY <1>2
      <3>2. PICK listed \in [1..n -> Candidate] : asked.candidates = Range(listed)
        BY <3>1
      <3>3. \E c : Best(c, Available(Range(listed)), policy, asked.typed)
        BY <1>3, <1>5, <3>2, BestExists
      <3> QED
        BY <3>2, <3>3
    <2>2. ASSUME NEW S \in SUBSET Candidate, NEW c, Best(c, Available(S), policy, asked.typed)
          PROVE  to(S) = c.tool
      BY <1>3, <1>7, <2>2, BestIsChosen DEF policy
    <2> HIDE DEF to
    <2>3. chosen = b.tool /\ b \in asked.candidates /\ b.available
      BY <1>4, <2>1, <2>2 DEF Best, Available
    <2>4. ASSUME NEW d \in asked.candidates, d.tool # chosen PROVE to(asked.candidates \ {d}) = chosen
      <3>1. Best(b, Available(asked.candidates \ {d}), policy, asked.typed)
        BY <2>1, <2>3, <2>4 DEF Best, Available
      <3> QED
        BY <1>4, <2>2, <2>3, <3>1
    <2>5. ASSUME NEW c \in asked.candidates, c.tool = chosen, c.available, NEW cost \in Costs, cost <= CostOf(c)
          PROVE  to((asked.candidates \ {c}) \cup {[c EXCEPT !.cost = cost]}) = chosen
      <3> DEFINE S == (asked.candidates \ {c}) \cup {[c EXCEPT !.cost = cost]}
      <3>1. PICK e : e.tool = b.tool /\ Best(e, Available(S), policy, asked.typed)
        BY <1>3, <1>4, <2>1, <2>3, <2>5, CheaperStaysBest
      <3>2. S \in SUBSET Candidate
        BY <1>3, <1>4, <2>5, CheaperScoresMore
      <3> QED
        BY <2>2, <2>3, <3>1, <3>2
    <2> QED
      BY <2>3, <2>4, <2>5
  <1> QED
    BY <1>6, <1>7

\* IncomingSound, for any lists.
LEMMA IncomingHolds == ASSUME asked \in IncomingQuestions PROVE IncomingSound
  <1>1. /\ IncomingPacket.constraints = asked.constraints /\ IncomingPacket.allow = asked.allow
        /\ IncomingPacket.deny = asked.deny /\ IncomingPacket.texts = {}
        /\ IncomingPacket.wellFormed /\ IncomingPacket.sender = "a"
    BY DEF IncomingPacket
  <1>2. asked.policy \in IncomingPolicies
    BY DEF IncomingQuestions
  <1>3. \A p \in IncomingPolicies : p.registered = {"a"}
    BY DEF IncomingPolicies
  <1>4. ASSUME IncomingAccepted(IncomingPacket, asked.policy)
        PROVE  LET effective == OrEmpty(asked.allow) \ OrEmpty(asked.deny)
               IN  /\ effective \cap OrEmpty(asked.policy.deniedPermissions) = {}
                   /\ asked.policy.allowedPermissions # None =>
                        effective \subseteq asked.policy.allowedPermissions
    BY <1>1, <1>4 DEF IncomingAccepted
  <1>5. ASSUME NEW p \in StricterPolicies(asked.policy), IncomingAccepted(IncomingPacket, p)
        PROVE  IncomingAccepted(IncomingPacket, asked.policy)
    <2>1. /\ p \in IncomingPolicies
          /\ OrEmpty(asked.policy.required) \subseteq OrEmpty(p.required)
          /\ OrEmpty(asked.policy.denied) \subseteq OrEmpty(p.denied)
          /\ OrEmpty(asked.policy.deniedPermissions) \subseteq OrEmpty(p.deniedPermissions)
          /\ asked.policy.allowedPermissions # None =>
               /\ p.allowedPermissions # None
               /\ p.allowedPermissions \subseteq asked.policy.allowedPermissions
      BY <1>5 DEF StricterPolicies
    <2>2. /\ OrEmpty(p.required) \subseteq OrEmpty(asked.constraints)
          /\ OrEmpty(p.denied) \cap OrEmpty(asked.constraints) = {}
          /\ p.allowedPermissions # None => OrEmpty(asked.allow) \subseteq p.allowedPermissions
          /\ OrEmpty(p.deniedPermissions) \cap OrEmpty(asked.allow) \subseteq OrEmpty(asked.deny)
      BY <1>1, <1>5 DEF IncomingAccepted
    <2>3. /\ OrEmpty(asked.policy.required) \subseteq OrEmpty(asked.constraints)
          /\ OrEmpty(asked.policy.denied) \cap OrEmpty(asked.constraints) = {}
          /\ OrEmpty(asked.policy.deniedPermissions) \cap OrEmpty(asked.allow) \subseteq OrEmpty(asked.deny)
      BY <2>1, <2>2
    <2>4. asked.policy.allowedPermissions # None =>
            OrEmpty(asked.allow) \subseteq asked.policy.allowedPermissions
      BY <2>1, <2>2
    <2> QED
      BY <1>1, <1>2, <1>3, <2>3, <2>4 DEF IncomingAccepted
  <1> QED
    BY <1>4, <1>5 DEF IncomingSound

\* What the deserializer makes of a packet that was built and sent.
LEMMA RestoresWhatWasSent ==
    ASSUME NEW in, NEW key, NEW policy, NEW size
    PROVE  LET built == BuildPacket(in)
           IN  Deserialize(CompressForTransport(built, size, 1), key, policy) =
                 IF IncomingAccepted(built, policy) /\ built.key = key
                 THEN [native |-> built.native,
                       memory |-> IF key = "claudeCode"
                                  THEN PrependSummary(built.summary, built.native.memory)
                                  ELSE <<>>]
                 ELSE [rejected |-> TRUE]
  <1> DEFINE built == BuildPacket(in)
             sent == CompressForTransport(built, size, 1)
  <1>1. "envelope" \notin DOMAIN built
    BY DEF BuildPacket
  <1>2. DecompressForValidation(sent) = built
    <2> HIDE DEF built
    <2>1. CASE size <= 1
      BY <1>1, <2>1 DEF DecompressForValidation, CompressForTransport
    <2>2. CASE ~(size <= 1)
      <3>1. sent = [envelope |-> built]
        BY <2>2 DEF CompressForTransport
      <3>2. "envelope" \in DOMAIN sent /\ sent.envelope = built
        BY <3>1
      <3> QED
        BY <3>2 DEF DecompressForValidation
    <2> QED
      BY <2>1, <2>2
  <1> HIDE DEF built, sent
  <1>3. Deserialize(sent, key, policy) =
          IF IncomingAccepted(built, policy) /\ built.key = key
          THEN [native |-> built.native,
                memory |-> IF key = "claudeCode" THEN PrependSummary(built.summary, built.native.memory)
                           ELSE <<>>]
          ELSE [rejected |-> TRUE]
    BY <1>2 DEF Deserialize
  <1> QED
    BY <1>3 DEF built, sent

\* TransportSound, for any capabilities and policies.
LEMMA TransportHolds == ASSUME asked \in TransportQuestions PROVE TransportSound
  <1> DEFINE in == asked.in
             built == BuildPacket(asked.in)
             sent == CompressForTransport(built, asked.size, 1)
             got == Deserialize(sent, asked.key, asked.policy)
  <1>1. /\ built.wellFormed = (in.sender # "") /\ built.sender = in.sender /\ built.key = in.serializer
        /\ built.native = in.native /\ built.constraints = in.capabilities
        /\ built.allow = None /\ built.deny = None
        /\ built.summary = (IF in.task = None THEN "empty" ELSE in.task)
        /\ built.texts = {in.native.text, in.native.memory} \cup (IF in.task = None THEN {} ELSE {in.task})
    BY DEF BuildPacket
  <1>2. got = IF IncomingAccepted(built, asked.policy) /\ built.key = asked.key
              THEN [native |-> built.native,
                    memory |-> IF asked.key = "claudeCode"
                               THEN PrependSummary(built.summary, built.native.memory) ELSE <<>>]
              ELSE [rejected |-> TRUE]
    BY RestoresWhatWasSent
  <1>3. /\ asked.policy \in IncomingPolicies /\ asked.policy.allowedPermissions = None
        /\ in.capabilities \in SUBSET Capabilities
        /\ in.task \in {None} \cup Texts
        /\ in.native \in [text : {"plain", "injection"}, memory : {"plain"}]
    BY DEF TransportQuestions
  <1>4. asked.policy.registered = {"a"}
    BY <1>3 DEF IncomingPolicies
  <1> HIDE DEF in, built, sent, got
  <1>5. CASE IncomingAccepted(built, asked.policy) /\ built.key = asked.key
    <2>1. /\ got.native = in.native
          /\ "rejected" \notin DOMAIN got
          /\ got.memory = IF asked.key = "claudeCode"
                          THEN PrependSummary(built.summary, in.native.memory) ELSE <<>>
      BY <1>1, <1>2, <1>5
    <2>2. CASE asked.key = "claudeCode" /\ built.summary \notin {"empty", "blank"}
      <3>1. got.memory = <<built.summary, in.native.memory>>
        BY <2>1, <2>2 DEF PrependSummary
      <3>2. in.task # None /\ built.summary = in.task
        BY <1>1, <2>2
      <3>3. Last(got.memory) = in.native.memory
        BY <3>1 DEF Last
      <3>4. Head(got.memory) = in.task
        BY <3>1, <3>2
      <3> QED
        BY <2>1, <3>3, <3>4 DEF TransportSound, in, built, sent, got
    <2>3. CASE asked.key = "claudeCode" /\ built.summary \in {"empty", "blank"}
      <3>1. got.memory = <<in.native.memory>>
        BY <2>1, <2>3 DEF PrependSummary
      <3>2. Last(got.memory) = in.native.memory
        BY <3>1 DEF Last
      <3>3. Len(got.memory) # 2
        BY <3>1
      <3> QED
        BY <2>1, <3>2, <3>3 DEF TransportSound, in, built, sent, got
    <2>4. CASE asked.key # "claudeCode"
      <3>1. in.serializer # "claudeCode"
        BY <1>1, <1>5, <2>4
      <3>2. got.memory = <<>>
        BY <2>1, <2>4
      <3>3. Len(got.memory) # 2
        BY <3>2
      <3> QED
        BY <2>1, <3>1, <3>3 DEF TransportSound, in, built, sent, got
    <2> QED
      BY <2>2, <2>3, <2>4
  <1>6. CASE ~(IncomingAccepted(built, asked.policy) /\ built.key = asked.key)
    <2>1. "rejected" \in DOMAIN got
      BY <1>2, <1>6
    <2>2. \/ asked.key # in.serializer
          \/ in.sender \notin asked.policy.registered
          \/ "injection" \in {in.task, in.native.text, in.native.memory}
          \/ ~(OrEmpty(asked.policy.required) \subseteq in.capabilities)
          \/ OrEmpty(asked.policy.denied) \cap in.capabilities # {}
      <3> SUFFICES ASSUME asked.key = in.serializer, in.sender \in asked.policy.registered,
                          "injection" \notin {in.task, in.native.text, in.native.memory},
                          OrEmpty(asked.policy.required) \subseteq in.capabilities,
                          OrEmpty(asked.policy.denied) \cap in.capabilities = {}
                   PROVE  IncomingAccepted(built, asked.policy)
        BY <1>1, <1>6
      <3>1. /\ built.wellFormed /\ built.sender \in asked.policy.registered
            /\ "injection" \notin built.texts
        BY <1>1, <1>4
      <3>2. OrEmpty(built.allow) = {}
        BY <1>1 DEF OrEmpty
      <3>3. OrEmpty(built.constraints) = in.capabilities
        BY <1>1, <1>3, PacketAssumption DEF OrEmpty
      <3>4. OrEmpty(asked.policy.deniedPermissions) \cap OrEmpty(built.allow) \subseteq OrEmpty(built.deny)
        BY <3>2
      <3> QED
        BY <1>3, <3>1, <3>3, <3>4 DEF IncomingAccepted
    <2> QED
      BY <2>1, <2>2 DEF TransportSound, in, built, sent, got
  <1> QED
    BY <1>5, <1>6

\* What a partial packet is made of.
PartialPacket ==
  [task : {"absent", "own", "same", "mark"}, own : [Leaves -> {None, "value", "mark"}],
   original : [Leaves -> {None, "value", "mark"}], summary : {None, "value", "mark"}, thrown : BOOLEAN]

\* The last of the first n fields that cover the task's entry shows it.
LastShows(fields, n) ==
  \E i \in 1..n : /\ Covers(fields[i], "x") /\ ~fields[i].redact
                  /\ \A j \in 1..n : Covers(fields[j], "x") => j <= i

\* One of the first n fields puts the packet's own task object into the partial packet.
TaskIncluded(fields, n) == \E i \in 1..n : fields[i].path = <<"task">> /\ ~fields[i].redact

\* What the first n fields have made of the partial packet.
MadeBy(partial, fields, n) ==
  /\ partial \in PartialPacket
  /\ partial.original["x"] # None /\ partial.original["z"] = None
  /\ partial.task = "absent" => partial.own["x"] = None
  /\ SeenLeaf(partial, "x") = "value" => LastShows(fields, n)
  /\ partial.task = "same" => TaskIncluded(fields, n)
  /\ partial.summary = "value" => \E i \in 1..n : fields[i].path = <<"summary">> /\ ~fields[i].redact
  /\ partial.original # Whole =>
       \E i, j \in 1..n : /\ i < j /\ Below(fields[j])
                          /\ fields[i].path = <<"task">> /\ ~fields[i].redact

\* The paths of fields.
LEMMA PathsOfFields ==
    ASSUME NEW field \in Field
    PROVE  /\ field.redact \in BOOLEAN /\ field.required \in BOOLEAN
           /\ \/ field.path = <<"task">>
              \/ field.path = <<"summary">>
              \/ field.path = <<"task", "x">>
              \/ field.path = <<"task", "z">>
  <1>1. field.path \in PacketPaths /\ field.redact \in BOOLEAN /\ field.required \in BOOLEAN
    BY DEF Field
  <1>2. CASE field.path \in {<<"task">>, <<"summary">>}
    BY <1>1, <1>2
  <1>3. CASE field.path \in {"task"} \X Leaves
    <2>1. PICK leaf \in Leaves : field.path = <<"task", leaf>>
      BY <1>3
    <2>2. leaf = "x" \/ leaf = "z"
      BY DEF Leaves
    <2> QED
      BY <1>1, <2>1, <2>2
  <1> QED
    BY <1>1, <1>2, <1>3 DEF PacketPaths

\* The fields seen so far still do what they did; the new one may do more.
LEMMA FieldMade ==
    ASSUME NEW fields, NEW n \in Nat, fields[n + 1] \in Field, NEW partial,
           MadeBy(partial, fields, n), ~partial.thrown
    PROVE  LET after == WithField(partial, fields[n + 1])
           IN  after.thrown \/ MadeBy(after, fields, n + 1)
  <1> DEFINE field == fields[n + 1]
             value == GetNestedValue(partial, field.path)
             put == Redacted(field, value)
             after == WithField(partial, field)
  <1>p. /\ partial \in PartialPacket
        /\ partial.original \in [Leaves -> {None, "value", "mark"}]
        /\ partial.own \in [Leaves -> {None, "value", "mark"}]
    BY DEF MadeBy, PartialPacket
  <1>n. None \notin {"value", "mark", "object"}
    BY PacketAssumption
  <1>o. n + 1 \in Nat /\ 1..n \subseteq 1..(n + 1) /\ n + 1 \in 1..(n + 1)
    OBVIOUS
  <1>f. /\ field.redact \in BOOLEAN /\ field.required \in BOOLEAN
        /\ field.path \in {<<"task">>, <<"summary">>, <<"task", "x">>, <<"task", "z">>}
    BY PathsOfFields
  <1>w. after = IF value # None THEN SetNestedValue(partial, field.path, put)
                ELSE [partial EXCEPT !.thrown = field.required]
    BY DEF WithField
  <1>t. TaskIncluded(fields, n) => TaskIncluded(fields, n + 1)
    BY <1>o DEF TaskIncluded
  <1>l. LastShows(fields, n) /\ ~Covers(field, "x") => LastShows(fields, n + 1)
    <2> SUFFICES ASSUME LastShows(fields, n), ~Covers(field, "x") PROVE LastShows(fields, n + 1)
      OBVIOUS
    <2>1. PICK i \in 1..n : /\ Covers(fields[i], "x") /\ ~fields[i].redact
                            /\ \A j \in 1..n : Covers(fields[j], "x") => j <= i
      BY DEF LastShows
    <2>2. \A j \in 1..(n + 1) : Covers(fields[j], "x") => j <= i
      BY <2>1
    <2> QED
      BY <1>o, <2>1, <2>2 DEF LastShows
  <1>m. Covers(field, "x") /\ ~field.redact => LastShows(fields, n + 1)
    BY <1>o DEF LastShows
  <1>s. (\E i \in 1..n : fields[i].path = <<"summary">> /\ ~fields[i].redact) =>
          \E i \in 1..(n + 1) : fields[i].path = <<"summary">> /\ ~fields[i].redact
    BY <1>o
  <1>c. partial.original # Whole =>
          \E i, j \in 1..(n + 1) : /\ i < j /\ Below(fields[j])
                                   /\ fields[i].path = <<"task">> /\ ~fields[i].redact
    BY <1>o DEF MadeBy
  <1>d. TaskIncluded(fields, n) /\ Below(field) =>
          \E i, j \in 1..(n + 1) : /\ i < j /\ Below(fields[j])
                                   /\ fields[i].path = <<"task">> /\ ~fields[i].redact
    BY <1>o DEF TaskIncluded
  <1>r. put = (IF field.redact THEN "mark" ELSE value)
    BY DEF Redacted
  <1>mb. /\ partial.original["x"] # None /\ partial.original["z"] = None
         /\ partial.task = "absent" => partial.own["x"] = None
         /\ SeenLeaf(partial, "x") = "value" => LastShows(fields, n)
         /\ partial.task = "same" => TaskIncluded(fields, n)
         /\ partial.summary = "value" =>
              \E i \in 1..n : fields[i].path = <<"summary">> /\ ~fields[i].redact
    BY DEF MadeBy
  <1>x. "x" \in Leaves /\ "z" \in Leaves
    BY DEF Leaves
  <1> HIDE DEF field, value, put, after
  <1>1. CASE field.path = <<"task">>
    <2>1. value = "object"
      BY <1>1 DEF GetNestedValue, value
    <2>2. Covers(field, "x")
      BY <1>1 DEF Covers
    <2>3. after = [partial EXCEPT !.task = IF put = "object" THEN "same" ELSE "mark"]
      <3>1. field.path # <<"summary">>
        BY <1>1
      <3> QED
        BY <1>n, <1>w, <1>1, <2>1, <3>1 DEF SetNestedValue
    <2>4. /\ after \in PartialPacket
          /\ after.task = IF field.redact THEN "mark" ELSE "same"
          /\ after.own = partial.own /\ after.original = partial.original
          /\ after.summary = partial.summary /\ after.thrown = partial.thrown
      BY <1>f, <1>p, <1>r, <2>1, <2>3 DEF PartialPacket
    <2>5. SeenLeaf(after, "x") = "value" => LastShows(fields, n + 1)
      BY <1>m, <1>n, <2>2, <2>4 DEF SeenLeaf
    <2>6. after.task = "same" => TaskIncluded(fields, n + 1)
      BY <1>1, <1>o, <2>4 DEF TaskIncluded, field
    <2> QED
      BY <1>c, <1>mb, <1>s, <2>4, <2>5, <2>6 DEF MadeBy, after, field
  <1>2. CASE field.path = <<"summary">>
    <2>1. value = "value"
      BY <1>2 DEF GetNestedValue, value
    <2>2. ~Covers(field, "x")
      BY <1>2 DEF Covers
    <2>3. after = [partial EXCEPT !.summary = put]
      BY <1>n, <1>w, <1>2, <2>1 DEF SetNestedValue
    <2>4. /\ after \in PartialPacket
          /\ after.summary = (IF field.redact THEN "mark" ELSE "value")
          /\ after.own = partial.own /\ after.original = partial.original
          /\ after.task = partial.task /\ after.thrown = partial.thrown
      BY <1>f, <1>p, <1>r, <2>1, <2>3 DEF PartialPacket
    <2>5. SeenLeaf(after, "x") = SeenLeaf(partial, "x")
      BY <2>4 DEF SeenLeaf
    <2>6. after.summary = "value" =>
            \E i \in 1..(n + 1) : fields[i].path = <<"summary">> /\ ~fields[i].redact
      BY <1>2, <1>o, <2>4 DEF field
    <2> QED
      BY <1>c, <1>l, <1>mb, <1>t, <2>2, <2>4, <2>5, <2>6 DEF MadeBy, after, field
  <1>3. CASE field.path = <<"task", "z">>
    <2>1. value = None
      <3>1. field.path # <<"summary">> /\ field.path # <<"task">> /\ field.path[2] = "z"
        BY <1>3
      <3> QED
        BY <1>mb, <3>1 DEF GetNestedValue, value
    <2>2. ~Covers(field, "x")
      BY <1>3 DEF Covers
    <2>3. after = [partial EXCEPT !.thrown = field.required]
      BY <1>w, <2>1
    <2>4. /\ after \in PartialPacket /\ after.thrown = field.required
          /\ after.own = partial.own /\ after.original = partial.original
          /\ after.task = partial.task /\ after.summary = partial.summary
      BY <1>f, <1>p, <2>3 DEF PartialPacket
    <2>5. SeenLeaf(after, "x") = SeenLeaf(partial, "x")
      BY <2>4 DEF SeenLeaf
    <2> QED
      BY <1>c, <1>l, <1>mb, <1>s, <1>t, <2>2, <2>4, <2>5 DEF MadeBy, after, field
  <1>4. CASE field.path = <<"task", "x">>
    <2>1. field.path # <<"summary">> /\ field.path # <<"task">> /\ field.path[2] = "x"
      BY <1>4
    <2>2. value = partial.original["x"] /\ value \in {"value", "mark"}
      BY <1>mb, <1>p, <1>x, <2>1 DEF GetNestedValue, value
    <2>3. Covers(field, "x") /\ Below(field)
      <3>1. Len(field.path) = 2
        BY <1>4
      <3> QED
        BY <1>4, <3>1 DEF Covers, Below
    <2>4. put \in {"value", "mark"} /\ (put = "value" => ~field.redact)
      BY <1>f, <1>r, <2>2
    <2>5. after = SetNestedValue(partial, field.path, put)
      BY <1>n, <1>w, <2>2
    <2>6. put = "value" => LastShows(fields, n + 1)
      BY <1>m, <2>3, <2>4
    <2>7. CASE partial.task = "absent" \/ partial.task = "own"
      <3>1. after = [partial EXCEPT !.task = "own", !.own[field.path[2]] = put]
        <4>1. CASE partial.task = "absent"
          BY <2>1, <2>5, <4>1 DEF SetNestedValue
        <4>2. CASE partial.task = "own"
          <5>1. after = [partial EXCEPT !.own[field.path[2]] = put]
            BY <2>1, <2>5, <4>2 DEF SetNestedValue
          <5> QED
            BY <1>p, <4>2, <5>1 DEF PartialPacket
        <4> QED
          BY <2>7, <4>1, <4>2
      <3>2. /\ after.task = "own" /\ after.own = [partial.own EXCEPT !["x"] = put]
            /\ after.original = partial.original /\ after.thrown = partial.thrown
            /\ after.summary = partial.summary /\ after \in PartialPacket
        BY <1>p, <1>x, <2>1, <2>4, <3>1 DEF PartialPacket
      <3>3. after.own["x"] = put
        BY <1>p, <1>x, <3>2
      <3>4. SeenLeaf(after, "x") = put
        BY <3>2, <3>3 DEF SeenLeaf
      <3> QED
        BY <1>c, <1>mb, <1>s, <2>6, <3>2, <3>4 DEF MadeBy, after, field
    <2>8. CASE partial.task = "same"
      <3>1. after = [partial EXCEPT !.original[field.path[2]] = put]
        BY <2>1, <2>5, <2>8 DEF SetNestedValue
      <3>2. /\ after.task = "same" /\ after.original = [partial.original EXCEPT !["x"] = put]
            /\ after.own = partial.own /\ after.thrown = partial.thrown
            /\ after.summary = partial.summary /\ after \in PartialPacket
        BY <1>p, <1>x, <2>1, <2>4, <2>8, <3>1 DEF PartialPacket
      <3>3. after.original["x"] = put /\ after.original["z"] = None
        BY <1>mb, <1>p, <1>x, <3>2
      <3>4. SeenLeaf(after, "x") = put
        BY <3>2, <3>3 DEF SeenLeaf
      <3>5. put # None
        BY <1>n, <2>4
      <3> QED
        BY <1>d, <1>mb, <1>s, <1>t, <2>3, <2>6, <2>8, <3>2, <3>3, <3>4, <3>5 DEF MadeBy, after, field
    <2>9. CASE partial.task = "mark"
      <3>1. after = partial
        BY <2>1, <2>5, <2>9 DEF SetNestedValue
      <3>2. SeenLeaf(after, "x") = None
        BY <2>9, <3>1 DEF SeenLeaf
      <3> QED
        BY <1>c, <1>mb, <1>n, <1>p, <1>s, <2>9, <3>1, <3>2 DEF MadeBy, after, field
    <2> QED
      BY <1>p, <2>7, <2>8, <2>9 DEF PartialPacket
  <1> QED
    BY <1>f, <1>1, <1>2, <1>3, <1>4

\* The function CreatePartialPacket is defined by.
TakesFields(made, fields) ==
  made = [i \in 0..Len(fields) |-> IF i = 0 THEN NoPartial ELSE WithField(made[i - 1], fields[i])]

\* It exists, one field after the other.
LEMMA FieldsTaken ==
    ASSUME NEW fields, Len(fields) \in Nat
    PROVE  \E made : TakesFields(made, fields)
  <1> DEFINE UpTo(made, n) ==
               made = [i \in 0..n |-> IF i = 0 THEN NoPartial ELSE WithField(made[i - 1], fields[i])]
             T == {n \in Nat : \E made : UpTo(made, n)}
  <1>1. 0 \in T
    <2> DEFINE made == [i \in 0..0 |-> NoPartial]
    <2>1. UpTo(made, 0)
      OBVIOUS
    <2> QED
      BY <2>1
  <1>2. ASSUME NEW n \in T PROVE n + 1 \in T
    <2>1. PICK made : UpTo(made, n)
      OBVIOUS
    <2> DEFINE next == [i \in 0..(n + 1) |-> IF i = n + 1 THEN WithField(made[n], fields[n + 1]) ELSE made[i]]
    <2>2. ASSUME NEW i \in 0..(n + 1)
          PROVE  next[i] = IF i = 0 THEN NoPartial ELSE WithField(next[i - 1], fields[i])
      <3>1. CASE i = n + 1
        BY <3>1
      <3>2. CASE i # n + 1 /\ i = 0
        BY <2>1, <3>2
      <3>3. CASE i # n + 1 /\ i # 0
        <4>1. i \in 0..n /\ i - 1 \in 0..n /\ next[i] = made[i] /\ next[i - 1] = made[i - 1]
          BY <3>3
        <4>2. made[i] = WithField(made[i - 1], fields[i])
          BY <2>1, <3>3, <4>1
        <4> QED
          BY <3>3, <4>1, <4>2
      <3> QED
        BY <3>1, <3>2, <3>3
    <2>3. next = [i \in 0..(n + 1) |-> next[i]]
      OBVIOUS
    <2> HIDE DEF next
    <2>4. UpTo(next, n + 1)
      BY <2>2, <2>3
    <2>5. n + 1 \in Nat
      OBVIOUS
    <2> HIDE DEF UpTo
    <2>6. \E m : UpTo(m, n + 1)
      BY <2>4
    <2> QED
      BY <2>5, <2>6
  <1> HIDE DEF UpTo
  <1>3. T = Nat
    BY <1>1, <1>2, Induction
  <1>4. \E made : UpTo(made, Len(fields))
    BY <1>3
  <1> QED
    BY <1>4 DEF UpTo, TakesFields

\* Unless a required field was missing, all fields have made of it what MadeBy says.
LEMMA PartialMade ==
    ASSUME NEW fields, Len(fields) \in Nat, \A i \in 1..Len(fields) : fields[i] \in Field
    PROVE  LET partial == CreatePartialPacket(fields)
           IN  partial.thrown \/ MadeBy(partial, fields, Len(fields))
  <1> DEFINE made == CHOOSE f : TakesFields(f, fields)
  <1>1. CreatePartialPacket(fields) = made[Len(fields)]
    BY DEF CreatePartialPacket, TakesFields
  <1>2. TakesFields(made, fields)
    BY FieldsTaken
  <1> HIDE DEF made
  <1>3. /\ made[0] = NoPartial
        /\ \A n \in Nat : n < Len(fields) => made[n + 1] = WithField(made[n], fields[n + 1])
    <2>1. \A i \in 0..Len(fields) :
            made[i] = IF i = 0 THEN NoPartial ELSE WithField(made[i - 1], fields[i])
      BY <1>2 DEF TakesFields
    <2>2. ASSUME NEW n \in Nat, n < Len(fields) PROVE made[n + 1] = WithField(made[n], fields[n + 1])
      <3>1. n + 1 \in 0..Len(fields) /\ n + 1 # 0 /\ (n + 1) - 1 = n
        BY <2>2
      <3> QED
        BY <2>1, <3>1
    <2> QED
      BY <2>1, <2>2
  <1> DEFINE T == {n \in Nat : n <= Len(fields) => made[n].thrown \/ MadeBy(made[n], fields, n)}
  <1>4. 0 \in T
    <2>1. /\ NoPartial \in PartialPacket /\ NoPartial.original = Whole /\ NoPartial.task = "absent"
          /\ NoPartial.own = NoTask /\ NoPartial.summary = None
      BY DEF NoPartial, PartialPacket, Whole, NoTask
    <2>2. Whole["x"] = "value" /\ Whole["z"] = None /\ NoTask["x"] = None
      BY DEF Whole, NoTask, Leaves
    <2>3. SeenLeaf(NoPartial, "x") = None
      BY <2>1 DEF SeenLeaf
    <2>4. None # "value"
      BY PacketAssumption
    <2>5. MadeBy(NoPartial, fields, 0)
      BY <2>1, <2>2, <2>3, <2>4 DEF MadeBy
    <2> QED
      BY <1>3, <2>5
  <1>5. ASSUME NEW n \in T PROVE n + 1 \in T
    <2> SUFFICES ASSUME n + 1 <= Len(fields)
                 PROVE  made[n + 1].thrown \/ MadeBy(made[n + 1], fields, n + 1)
      OBVIOUS
    <2>1. n \in Nat /\ n < Len(fields) /\ n + 1 \in 1..Len(fields)
      OBVIOUS
    <2>2. made[n + 1] = WithField(made[n], fields[n + 1]) /\ fields[n + 1] \in Field
      BY <1>3, <2>1
    <2>3. made[n].thrown \/ MadeBy(made[n], fields, n)
      BY <2>1
    <2>4. CASE made[n].thrown
      <3>1. made[n + 1] = made[n]
        BY <2>2, <2>4 DEF WithField
      <3> QED
        BY <2>4, <3>1
    <2>5. CASE ~made[n].thrown
      BY <2>1, <2>2, <2>3, <2>5, FieldMade
    <2> QED
      BY <2>4, <2>5
  <1> HIDE DEF T
  <1>6. T = Nat
    <2>1. T \subseteq Nat
      BY DEF T
    <2> QED
      BY <1>4, <1>5, <2>1, Induction
  <1> QED
    BY <1>1, <1>6 DEF T

\* PartialSound, for any number of fields.
LEMMA PartialHolds == ASSUME asked \in PartialQuestions PROVE PartialSound
  <1> DEFINE partial == CreatePartialPacket(asked.fields)
             fields == asked.fields
             covering == {i \in DOMAIN asked.fields : Covers(asked.fields[i], "x")}
             last == CHOOSE i \in covering : \A j \in covering : j <= i
  <1>1. PICK n \in 1..MostFields : fields \in [1..n -> Field]
    BY DEF PartialQuestions
  <1>2. n \in Nat /\ fields \in Seq(Field) /\ Len(fields) = n /\ DOMAIN fields = 1..n
    <2>1. n \in Nat
      BY PacketAssumption
    <2> QED
      BY <1>1, <2>1
  <1>3. \A i \in 1..Len(fields) : fields[i] \in Field
    BY <1>1, <1>2
  <1> SUFFICES ASSUME ~partial.thrown
               PROVE  /\ SeenLeaf(partial, "x") = "value" => covering # {} /\ ~fields[last].redact
                      /\ partial.summary = "value" =>
                           \E f \in Range(fields) : f.path = <<"summary">> /\ ~f.redact
                      /\ partial.original # Whole =>
                           \E i, j \in DOMAIN fields : /\ i < j /\ Below(fields[j])
                                                       /\ fields[i].path = <<"task">>
                                                       /\ ~fields[i].redact
    BY DEF PartialSound
  <1>4. MadeBy(partial, fields, n)
    BY <1>2, <1>3, PartialMade
  <1> HIDE DEF partial, fields
  <1>5. ASSUME SeenLeaf(partial, "x") = "value" PROVE covering # {} /\ ~fields[last].redact
    <2>1. PICK i \in 1..n : /\ Covers(fields[i], "x") /\ ~fields[i].redact
                            /\ \A j \in 1..n : Covers(fields[j], "x") => j <= i
      BY <1>4, <1>5 DEF MadeBy, LastShows
    <2>2. covering = {j \in 1..n : Covers(fields[j], "x")}
      BY <1>2 DEF fields
    <2>3. i \in covering /\ \A j \in covering : j <= i
      BY <2>1, <2>2
    <2> HIDE DEF covering
    <2>4. last \in covering /\ \A j \in covering : j <= last
      BY <2>3
    <2>5. last = i
      BY <2>2, <2>3, <2>4
    <2> QED
      BY <2>1, <2>3, <2>5
  <1>6. ASSUME partial.summary = "value" PROVE \E f \in Range(fields) : f.path = <<"summary">> /\ ~f.redact
    <2>1. PICK i \in 1..n : fields[i].path = <<"summary">> /\ ~fields[i].redact
      BY <1>4, <1>6 DEF MadeBy
    <2>2. fields[i] \in Range(fields)
      BY <1>2 DEF Range
    <2> QED
      BY <2>1, <2>2
  <1>7. ASSUME partial.original # Whole
        PROVE  \E i, j \in DOMAIN fields : /\ i < j /\ Below(fields[j])
                                           /\ fields[i].path = <<"task">>
                                           /\ ~fields[i].redact
    BY <1>2, <1>4, <1>7 DEF MadeBy
  <1> QED
    BY <1>5, <1>6, <1>7

\* Every question about packets that may be asked has its answer.
PacketsAsked == asked \in {NoQuestion} \cup RoutingQuestions \cup IncomingQuestions
                        \cup TransportQuestions \cup PartialQuestions

LEMMA PacketsHold == ASSUME PacketsAsked PROVE PacketsSound
  <1>1. CASE asked = NoQuestion
    BY <1>1 DEF PacketsSound, RoutingSound, IncomingSound, TransportSound, PartialSound, AskedAbout, NoQuestion
  <1>2. CASE asked \in RoutingQuestions
    <2>1. asked.about = "routing"
      BY <1>2 DEF RoutingQuestions
    <2> QED
      BY <1>2, <2>1, RoutingHolds DEF PacketsSound, IncomingSound, TransportSound, PartialSound, AskedAbout
  <1>3. CASE asked \in IncomingQuestions
    <2>1. asked.about = "incoming"
      BY <1>3 DEF IncomingQuestions
    <2> QED
      BY <1>3, <2>1, IncomingHolds DEF PacketsSound, RoutingSound, TransportSound, PartialSound, AskedAbout
  <1>4. CASE asked \in TransportQuestions
    <2>1. asked.about = "transport"
      BY <1>4 DEF TransportQuestions
    <2> QED
      BY <1>4, <2>1, TransportHolds DEF PacketsSound, RoutingSound, IncomingSound, PartialSound, AskedAbout
  <1>5. CASE asked \in PartialQuestions
    <2>1. asked.about = "partial"
      BY <1>5 DEF PartialQuestions
    <2> QED
      BY <1>5, <2>1, PartialHolds DEF PacketsSound, RoutingSound, IncomingSound, TransportSound, AskedAbout
  <1> QED
    BY <1>1, <1>2, <1>3, <1>4, <1>5 DEF PacketsAsked

LEMMA PacketsKeep == ASSUME PacketsAsked, [PacketsNext]_asked PROVE PacketsAsked'
  BY DEF PacketsAsked, PacketsNext, Ask

\* What is made of packets: whichever candidates and layers there are, a packet
\* goes to the best of the available tools and nothing else sways the choice;
\* whatever lists a policy has, it lets in no permission it denies and no packet
\* a laxer one refuses; what is sent comes back, compressed or not; and however
\* many fields a partial packet has, none shows what the last of them hides.
THEOREM PacketsReach == QuestionInit /\ [][PacketsNext]_asked => []PacketsSound
  <1>1. QuestionInit => PacketsAsked
    BY DEF QuestionInit, PacketsAsked
  <1> QED
    BY <1>1, PacketsHold, PacketsKeep, PTL

\* The queue's types, the sender's history and what packets become hold side by
\* side, whichever part runs.
THEOREM PartsConsistent == HandoffsSpec => []HandoffsConsistent
  <1>1. HandoffsInit => DeliveryInv /\ HmInv /\ PacketsAsked
    BY DeliveryStarts, HmStarts DEF HandoffsInit, QuestionInit, PacketsAsked
  <1>2. DeliveryInv /\ HmInv /\ PacketsAsked /\ [HandoffsNext]_handoffVars
          => (DeliveryInv /\ HmInv /\ PacketsAsked)'
    <2> SUFFICES ASSUME DeliveryInv, HmInv, PacketsAsked, [HandoffsNext]_handoffVars
                 PROVE  DeliveryInv' /\ HmInv' /\ PacketsAsked'
      OBVIOUS
    <2>1. [Next]_vars /\ [HmNext]_hmVars /\ [PacketsNext]_asked
      BY DEF HandoffsNext, handoffVars
    <2> QED
      BY <2>1, DeliveryKeeps, HmKeeps, PacketsKeep
  <1>3. DeliveryInv /\ HmInv /\ PacketsAsked => HandoffsConsistent
    BY HistorySoundFromInv, PacketsHold DEF HandoffsConsistent, DeliveryInv
  <1> QED
    BY <1>1, <1>2, <1>3, PTL DEF HandoffsSpec
===============================================================================
