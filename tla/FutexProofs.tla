---------------------------- MODULE FutexProofs -----------------------------
(***************************************************************************)
(* For every set of threads, words and priorities: a thread that went to   *)
(* sleep on a futex can be woken, and one wait is woken once: its thread is*)
(* never on its way to the ready queue twice.  The first invariant adds to *)
(* NoWaiterLost the type of the state and what a call under way holds: a   *)
(* call that uses a word has one, and only a call about to make threads    *)
(* ready has threads in its hand.  The second, WokenInv, counts where a    *)
(* thread can be: in one queue, in one hand, or ready.                     *)
(***************************************************************************)
EXTENDS Futex, FiniteSetTheorems, SequenceTheorems, TLAPS

\* The program counters at which a call uses its word.
OnWord == {"push", "asleep", "resumed", "op_write", "take"}

SoundCalls == {c \in Calls : /\ c.pc \in OnWord => c.word \in Words
                             /\ c.pc = "op_write" => c.other \in Words
                             /\ c.pc # "deliver" => c.hand = <<>>}

\* A wake can reach t from the queues q, the calls c and the ready queue r.
Listed(q, t) == \E w \in Words : \E i \in DOMAIN q[w] : q[w][i].thread = t
Held(c, t) == \E u \in Threads : \E k \in DOMAIN c[u].hand : c[u].hand[k] = t
Reachable(q, c, r, t) == Listed(q, t) \/ Held(c, t) \/ r[t] > 0

\* The inductive invariant.
FutexInv ==
    /\ TypeOK
    /\ call \in [Threads -> SoundCalls]
    /\ \A t \in Threads : At(t, "asleep") => Reachable(table, call, ready, t)

\* Picking a finite part of a queue in some order gives a queue with exactly
\* the entries that were picked.
LEMMA PickProperties ==
  ASSUME NEW s \in Seq(Waiters), NEW I \in SUBSET DOMAIN s,
         NEW f \in [1 .. Cardinality(I) -> I],
         \A i \in I : \E k \in DOMAIN f : f[k] = i
  PROVE  /\ Pick(s, f) \in Seq(Waiters)
         /\ PickThreads(s, f) \in Seq(Threads)
         /\ \A i \in I : \E k \in DOMAIN Pick(s, f) : Pick(s, f)[k] = s[i]
         /\ \A i \in I : \E k \in DOMAIN PickThreads(s, f) : PickThreads(s, f)[k] = s[i].thread
<1>1. Len(s) \in Nat /\ DOMAIN s = 1 .. Len(s) /\ \A i \in DOMAIN s : s[i] \in Waiters
  OBVIOUS
<1>2. IsFiniteSet(I) /\ Cardinality(I) \in Nat
  <2>1. 1 \in Int /\ Len(s) \in Int
    BY <1>1
  <2>2. IsFiniteSet(DOMAIN s)
    BY <1>1, <2>1, FS_Interval, Zenon
  <2> QED
    BY <2>2, FS_Subset, FS_CardinalityType, Zenon
<1>3. \A k \in 1 .. Cardinality(I) : s[f[k]] \in Waiters /\ s[f[k]].thread \in Threads
  BY <1>1, Zenon DEF Waiters
<1>4. Pick(s, f) \in [1 .. Cardinality(I) -> Waiters] /\ PickThreads(s, f) \in [1 .. Cardinality(I) -> Threads]
  BY <1>3, Zenon DEF Pick, PickThreads
<1>5. Pick(s, f) \in Seq(Waiters) /\ PickThreads(s, f) \in Seq(Threads)
  <2> DEFINE n == Cardinality(I)
  <2>1. n \in Nat /\ Pick(s, f) \in [1 .. n -> Waiters] /\ PickThreads(s, f) \in [1 .. n -> Threads]
    BY <1>2, <1>4, Zenon
  <2>2. \A S : \A q \in [1 .. n -> S] : q \in UNION {[1 .. m -> S] : m \in Nat}
    BY <2>1, Zenon
  <2> HIDE DEF n
  <2>3. \A S : \A q \in [1 .. n -> S] : q \in Seq(S)
    BY <2>2, SeqDef, Zenon
  <2> QED
    BY <2>1, <2>3, Zenon
<1>6. \A i \in I : \E k \in DOMAIN Pick(s, f) : Pick(s, f)[k] = s[i]
  BY Zenon DEF Pick
<1>7. \A i \in I : \E k \in DOMAIN PickThreads(s, f) : PickThreads(s, f)[k] = s[i].thread
  BY Zenon DEF PickThreads
<1> QED
  BY <1>5, <1>6, <1>7, Zenon

\* A thread outside the futex calls, and one about to make threads ready, are
\* sound.
LEMMA UserSound ==
  /\ User \in SoundCalls
  /\ User.pc = "user"
  /\ \A h \in Seq(Threads), th \in {"user", "exited"} :
        /\ [User EXCEPT !.pc = th] \in SoundCalls
        /\ [User EXCEPT !.pc = th].pc # "asleep"
        /\ [User EXCEPT !.pc = "deliver", !.hand = h, !.then = th] \in SoundCalls
        /\ [User EXCEPT !.pc = "deliver", !.hand = h, !.then = th].pc # "asleep"
        /\ [User EXCEPT !.pc = "deliver", !.hand = h, !.then = th].hand = h
<1>1. <<>> \in Seq(Threads) /\ {} \in SUBSET Bits /\ 0 \in Nat
  BY EmptySeq, Zenon
<1>2. User \in SoundCalls
  BY <1>1, Zenon DEF User, SoundCalls, Calls, PCs, OnWord
<1>3. ASSUME NEW h \in Seq(Threads), NEW th \in {"user", "exited"}
      PROVE  /\ [User EXCEPT !.pc = th] \in SoundCalls
             /\ [User EXCEPT !.pc = th].pc # "asleep"
             /\ [User EXCEPT !.pc = "deliver", !.hand = h, !.then = th] \in SoundCalls
             /\ [User EXCEPT !.pc = "deliver", !.hand = h, !.then = th].pc # "asleep"
             /\ [User EXCEPT !.pc = "deliver", !.hand = h, !.then = th].hand = h
  BY <1>1, Zenon DEF User, SoundCalls, Calls, PCs, OnWord
<1> QED
  BY <1>2, <1>3, Zenon DEF User

\* A call without threads in its hand may be replaced by any other one.
LEMMA HeldStep ==
  ASSUME NEW c \in [Threads -> SoundCalls], NEW t \in Threads, c[t].pc # "deliver",
         NEW d \in SoundCalls
  PROVE  \A u \in Threads : Held(c, u) => Held([c EXCEPT ![t] = d], u)
<1>1. c[t].hand = <<>>
  BY Zenon DEF SoundCalls
<1>2. DOMAIN c[t].hand = {}
  BY <1>1
<1> QED
  BY <1>2, Zenon DEF Held

\* What a step needs to do to keep the invariant, when the call of t becomes d.
LEMMA StepKeeps ==
  ASSUME FutexInv, NEW t \in Threads, NEW d \in SoundCalls,
         call' = [call EXCEPT ![t] = d],
         word' \in [Words -> Values], table' \in [Words -> Seq(Waiters)],
         ready' \in [Threads -> Nat], missed' \subseteq Threads, strays' \in 0 .. MaxStrays,
         d.pc = "asleep" => Reachable(table', call', ready', t),
         \A u \in Threads \ {t} : Reachable(table, call, ready, u) => Reachable(table', call', ready', u)
  PROVE  FutexInv'
<1>1. call \in [Threads -> SoundCalls]
  BY Zenon DEF FutexInv
<1>2. call' \in [Threads -> SoundCalls] /\ call' \in [Threads -> Calls]
  BY <1>1, Zenon DEF SoundCalls
<1>3. TypeOK'
  BY <1>2, Zenon DEF TypeOK
<1>4. ASSUME NEW u \in Threads, At(u, "asleep")'
      PROVE  Reachable(table', call', ready', u)
  <2>1. CASE u = t
    BY <1>1, <1>4, <2>1, Zenon DEF At
  <2>2. CASE u # t
    <3>1. At(u, "asleep")
      BY <1>1, <1>4, <2>2, Zenon DEF At
    <3> QED
      BY <2>2, <3>1, Zenon DEF FutexInv
  <2> QED
    BY <2>1, <2>2, Zenon
<1> QED
  BY <1>2, <1>3, <1>4, Zenon DEF FutexInv

\* A step that leaves the queues alone and makes nobody less ready.
LEMMA QuietStep ==
  ASSUME FutexInv, NEW t \in Threads, NEW d \in SoundCalls,
         call' = [call EXCEPT ![t] = d], call[t].pc # "deliver",
         d.pc = "asleep" => Reachable(table', call', ready', t),
         word' \in [Words -> Values], table' = table, ready' = ready,
         missed' \subseteq Threads, strays' = strays
  PROVE  FutexInv'
<1>1. TypeOK /\ call \in [Threads -> SoundCalls]
  BY Zenon DEF FutexInv
<1>2. \A u \in Threads : Held(call, u) => Held(call', u)
  BY <1>1, HeldStep, Zenon
<1>3. \A u \in Threads \ {t} : Reachable(table, call, ready, u) => Reachable(table', call', ready', u)
  BY <1>2, Zenon DEF Reachable
<1>4. table' \in [Words -> Seq(Waiters)] /\ ready' \in [Threads -> Nat] /\ strays' \in 0 .. MaxStrays
  BY <1>1, Zenon DEF TypeOK
<1> QED
  BY <1>3, <1>4, StepKeeps, Zenon

\* The threads in sequence h are handed to t: its next call, and what it holds.
LEMMA HandOver ==
  ASSUME FutexInv, NEW t \in Threads, call[t].pc # "deliver", NEW h \in Seq(Threads),
         NEW th \in {"user", "exited"}, Deliverable(t, h, th)
  PROVE  \E d \in SoundCalls :
            /\ call' = [call EXCEPT ![t] = d]
            /\ d.pc # "asleep"
            /\ \A u \in Threads : Held(call, u) => Held(call', u)
            /\ \A k \in DOMAIN h : Held(call', h[k])
<1>1. call \in [Threads -> SoundCalls]
  BY Zenon DEF FutexInv
<1>2. CASE h = <<>>
  <2>1. call' = [call EXCEPT ![t] = [User EXCEPT !.pc = th]]
    BY <1>2, Zenon DEF Deliverable
  <2>2. [User EXCEPT !.pc = th] \in SoundCalls /\ [User EXCEPT !.pc = th].pc # "asleep"
    BY UserSound, Zenon
  <2>3. \A u \in Threads : Held(call, u) => Held(call', u)
    BY <1>1, <2>1, <2>2, HeldStep, Zenon
  <2>4. DOMAIN h = {}
    BY <1>2
  <2> QED
    BY <2>1, <2>2, <2>3, <2>4, Zenon
<1>3. CASE h # <<>>
  <2> DEFINE d == [User EXCEPT !.pc = "deliver", !.hand = h, !.then = th]
  <2>1. call' = [call EXCEPT ![t] = d]
    BY <1>3, Zenon DEF Deliverable
  <2>2. d \in SoundCalls /\ d.pc # "asleep" /\ d.hand = h
    BY UserSound, Zenon
  <2> HIDE DEF d
  <2>3. \A u \in Threads : Held(call, u) => Held(call', u)
    BY <1>1, <2>1, <2>2, HeldStep, Zenon
  <2>4. call'[t].hand = h
    BY <1>1, <2>1, <2>2, Zenon
  <2>5. \A k \in DOMAIN h : Held(call', h[k])
    BY <2>4, Zenon DEF Held
  <2> QED
    BY <2>1, <2>2, <2>3, <2>5, Zenon
<1> QED
  BY <1>2, <1>3, Zenon

\* Taking threads from a queue loses none of them: each is still in the queue
\* or in the hand of the waker.
LEMMA TakeStep ==
  ASSUME FutexInv, NEW t \in Threads, call[t].pc # "deliver", NEW w \in Words, NEW n \in Nat,
         NEW bits, NEW th \in {"user", "exited"}, Take(t, w, n, bits, th),
         word' = word, ready' = ready, strays' = strays, missed' \subseteq Threads
  PROVE  FutexInv'
<1> DEFINE s == table[w]
           I == First(s, Eligible(s, bits), n)
<1>1. TypeOK /\ call \in [Threads -> SoundCalls] /\ s \in Seq(Waiters)
  BY Zenon DEF FutexInv, TypeOK
<1>2. I \in SUBSET DOMAIN s /\ DOMAIN s \ I \in SUBSET DOMAIN s
  BY Zenon DEF First, Eligible
<1>3. PICK f \in Sorted(s, I) : \E g \in Sorted(s, DOMAIN s \ I) :
         /\ table' = [table EXCEPT ![w] = Pick(s, g)]
         /\ Deliverable(t, PickThreads(s, f), th)
  BY Zenon DEF Take
<1>4. PICK g \in Sorted(s, DOMAIN s \ I) :
         /\ table' = [table EXCEPT ![w] = Pick(s, g)]
         /\ Deliverable(t, PickThreads(s, f), th)
  BY <1>3, Zenon
<1> HIDE DEF s, I
<1>5. f \in [1 .. Cardinality(I) -> I] /\ \A i \in I : \E k \in DOMAIN f : f[k] = i
  BY Zenon DEF Sorted
<1>6. /\ g \in [1 .. Cardinality(DOMAIN s \ I) -> DOMAIN s \ I]
      /\ \A i \in DOMAIN s \ I : \E k \in DOMAIN g : g[k] = i
  BY Zenon DEF Sorted
<1>7. /\ PickThreads(s, f) \in Seq(Threads)
      /\ \A i \in I : \E k \in DOMAIN PickThreads(s, f) : PickThreads(s, f)[k] = s[i].thread
  BY <1>1, <1>2, <1>5, PickProperties, Zenon
<1>8. /\ Pick(s, g) \in Seq(Waiters)
      /\ \A i \in DOMAIN s \ I : \E k \in DOMAIN Pick(s, g) : Pick(s, g)[k] = s[i]
  BY <1>1, <1>2, <1>6, PickProperties, Zenon
<1>9. PICK d \in SoundCalls :
            /\ call' = [call EXCEPT ![t] = d]
            /\ d.pc # "asleep"
            /\ \A u \in Threads : Held(call, u) => Held(call', u)
            /\ \A k \in DOMAIN PickThreads(s, f) : Held(call', PickThreads(s, f)[k])
  BY <1>4, <1>7, HandOver, Zenon
<1>10. table \in [Words -> Seq(Waiters)] /\ table' \in [Words -> Seq(Waiters)] /\ table'[w] = Pick(s, g)
  BY <1>1, <1>4, <1>8, Zenon DEF TypeOK
<1>11. ASSUME NEW u \in Threads, Listed(table, u)
       PROVE  Listed(table', u) \/ Held(call', u)
  <2>1. PICK v \in Words : \E i \in DOMAIN table[v] : table[v][i].thread = u
    BY <1>11, Zenon DEF Listed
  <2>2. PICK i \in DOMAIN table[v] : table[v][i].thread = u
    BY <2>1, Zenon
  <2>3. CASE v # w
    <3>1. table'[v] = table[v]
      BY <1>4, <1>10, <2>3, Zenon
    <3> QED
      BY <2>2, <3>1, Zenon DEF Listed
  <2>4. CASE v = w /\ i \in I
    BY <1>7, <1>9, <2>2, <2>4, Zenon DEF s
  <2>5. CASE v = w /\ i \in DOMAIN s \ I
    <3>1. PICK k \in DOMAIN Pick(s, g) : Pick(s, g)[k] = s[i]
      BY <1>8, <2>5, Zenon
    <3>2. k \in DOMAIN table'[w] /\ table'[w][k].thread = u
      BY <1>10, <2>2, <2>5, <3>1, Zenon DEF s
    <3> QED
      BY <3>2, Zenon DEF Listed
  <2> QED
    BY <2>2, <2>3, <2>4, <2>5, Zenon DEF s
<1>12. \A u \in Threads \ {t} : Reachable(table, call, ready, u) => Reachable(table', call', ready', u)
  BY <1>9, <1>11, Zenon DEF Reachable
<1>13. word' \in [Words -> Values] /\ ready' \in [Threads -> Nat] /\ strays' \in 0 .. MaxStrays
  BY <1>1, Zenon DEF TypeOK
<1> QED
  BY <1>9, <1>10, <1>12, <1>13, StepKeeps, Zenon

\* Nor does moving them to another queue.
LEMMA RequeueStep ==
  ASSUME FutexInv, NEW t \in Threads, NEW w \in Words, NEW w2 \in Words,
         NEW n \in Nat, NEW m \in Nat, Requeue(t, w, n, w2, m)
  PROVE  FutexInv'
<1> DEFINE s == table[w]
           I == First(s, DOMAIN s, n)
           J == First(s, DOMAIN s \ I, m)
           K == (DOMAIN s \ I) \ J
<1>1. TypeOK /\ call \in [Threads -> SoundCalls] /\ s \in Seq(Waiters) /\ table[w2] \in Seq(Waiters)
  BY Zenon DEF FutexInv, TypeOK
<1>2. I \in SUBSET DOMAIN s /\ J \in SUBSET DOMAIN s /\ K \in SUBSET DOMAIN s
  BY Zenon DEF First
<1>3. w # w2 /\ call[t].pc # "deliver" /\ word' = word /\ ready' = ready /\ strays' = strays
  BY Zenon DEF Requeue, At
<1>4. \E f \in Sorted(s, I), g \in Sorted(s, J), h \in Sorted(s, K) :
         /\ table' = [table EXCEPT ![w] = Pick(s, h), ![w2] = @ \o Pick(s, g)]
         /\ Deliverable(t, PickThreads(s, f), "user")
  BY Zenon DEF Requeue
<1> HIDE DEF s, I, J, K
<1>5. PICK f \in Sorted(s, I) : \E g \in Sorted(s, J), h \in Sorted(s, K) :
         /\ table' = [table EXCEPT ![w] = Pick(s, h), ![w2] = @ \o Pick(s, g)]
         /\ Deliverable(t, PickThreads(s, f), "user")
  BY <1>4, Zenon
<1>6. PICK g \in Sorted(s, J) : \E h \in Sorted(s, K) :
         /\ table' = [table EXCEPT ![w] = Pick(s, h), ![w2] = @ \o Pick(s, g)]
         /\ Deliverable(t, PickThreads(s, f), "user")
  BY <1>5, Zenon
<1>7. PICK h \in Sorted(s, K) :
         /\ table' = [table EXCEPT ![w] = Pick(s, h), ![w2] = @ \o Pick(s, g)]
         /\ Deliverable(t, PickThreads(s, f), "user")
  BY <1>6, Zenon
<1>8. /\ f \in [1 .. Cardinality(I) -> I] /\ \A i \in I : \E k \in DOMAIN f : f[k] = i
      /\ g \in [1 .. Cardinality(J) -> J] /\ \A i \in J : \E k \in DOMAIN g : g[k] = i
      /\ h \in [1 .. Cardinality(K) -> K] /\ \A i \in K : \E k \in DOMAIN h : h[k] = i
  BY Zenon DEF Sorted
<1>9. /\ PickThreads(s, f) \in Seq(Threads)
      /\ \A i \in I : \E k \in DOMAIN PickThreads(s, f) : PickThreads(s, f)[k] = s[i].thread
  BY <1>1, <1>2, <1>8, PickProperties, Zenon
<1>10. /\ Pick(s, g) \in Seq(Waiters)
       /\ \A i \in J : \E k \in DOMAIN Pick(s, g) : Pick(s, g)[k] = s[i]
  BY <1>1, <1>2, <1>8, PickProperties, Zenon
<1>11. /\ Pick(s, h) \in Seq(Waiters)
       /\ \A i \in K : \E k \in DOMAIN Pick(s, h) : Pick(s, h)[k] = s[i]
  BY <1>1, <1>2, <1>8, PickProperties, Zenon
<1>12. PICK d \in SoundCalls :
            /\ call' = [call EXCEPT ![t] = d]
            /\ d.pc # "asleep"
            /\ \A u \in Threads : Held(call, u) => Held(call', u)
            /\ \A k \in DOMAIN PickThreads(s, f) : Held(call', PickThreads(s, f)[k])
  BY <1>3, <1>7, <1>9, HandOver, Zenon
<1> DEFINE p == Pick(s, g)
           q == table[w2]
<1>13. table \in [Words -> Seq(Waiters)] /\ q \o p \in Seq(Waiters)
  BY <1>1, <1>10 DEF TypeOK
<1>14. /\ table' \in [Words -> Seq(Waiters)]
       /\ table'[w] = Pick(s, h)
       /\ table'[w2] = q \o p
       /\ \A v \in Words \ {w, w2} : table'[v] = table[v]
  BY <1>3, <1>7, <1>11, <1>13, Zenon
<1>15. /\ \A i \in DOMAIN q : i \in DOMAIN (q \o p) /\ (q \o p)[i] = q[i]
       /\ \A i \in DOMAIN p : Len(q) + i \in DOMAIN (q \o p) /\ (q \o p)[Len(q) + i] = p[i]
  <2> HIDE DEF p, q
  <2>1. q \in Seq(Waiters) /\ p \in Seq(Waiters)
    BY <1>1, <1>10, Zenon DEF p, q
  <2> QED
    BY <2>1
<1> HIDE DEF p, q
<1>16. ASSUME NEW u \in Threads, Listed(table, u)
       PROVE  Listed(table', u) \/ Held(call', u)
  <2>1. PICK v \in Words : \E i \in DOMAIN table[v] : table[v][i].thread = u
    BY <1>16, Zenon DEF Listed
  <2>2. PICK i \in DOMAIN table[v] : table[v][i].thread = u
    BY <2>1, Zenon
  <2>3. CASE v \in Words \ {w, w2}
    BY <1>14, <2>2, <2>3, Zenon DEF Listed
  <2>4. CASE v = w2
    BY <1>14, <1>15, <2>2, <2>4, Zenon DEF Listed, q
  <2>5. CASE v = w /\ i \in I
    BY <1>9, <1>12, <2>2, <2>5, Zenon DEF s
  <2>6. CASE v = w /\ i \in J
    <3>1. PICK k \in DOMAIN p : p[k] = s[i]
      BY <1>10, <2>6, Zenon DEF p
    <3>2. (q \o p)[Len(q) + k].thread = u /\ Len(q) + k \in DOMAIN (q \o p)
      BY <1>15, <2>2, <2>6, <3>1, Zenon DEF s
    <3> QED
      BY <1>14, <3>2, Zenon DEF Listed
  <2>7. CASE v = w /\ i \in K
    <3>1. PICK k \in DOMAIN Pick(s, h) : Pick(s, h)[k] = s[i]
      BY <1>11, <2>7, Zenon
    <3>2. k \in DOMAIN table'[w] /\ table'[w][k].thread = u
      BY <1>14, <2>2, <2>7, <3>1, Zenon DEF s
    <3> QED
      BY <3>2, Zenon DEF Listed
  <2>8. v = w => i \in I \/ i \in J \/ i \in K
    BY <2>2, Zenon DEF s, K
  <2> QED
    BY <2>3, <2>4, <2>5, <2>6, <2>7, <2>8, Zenon
<1>17. \A u \in Threads \ {t} : Reachable(table, call, ready, u) => Reachable(table', call', ready', u)
  BY <1>3, <1>12, <1>16, Zenon DEF Reachable
<1>18. /\ word' \in [Words -> Values] /\ ready' \in [Threads -> Nat] /\ strays' \in 0 .. MaxStrays
       /\ missed' \subseteq Threads
  BY <1>1, <1>3, Zenon DEF TypeOK, Requeue, Overlooked
<1> QED
  BY <1>12, <1>14, <1>17, <1>18, StepKeeps, Zenon

\* A thread that gives up takes only its own entries away.
LEMMA GiveUpStep ==
  ASSUME FutexInv, NEW t \in Threads, WaitGiveUp(t)
  PROVE  FutexInv'
<1> DEFINE w == call[t].word
           s == table[w]
           I == {i \in DOMAIN s : s[i].thread # t}
<1>1. TypeOK /\ call \in [Threads -> SoundCalls] /\ call[t].pc = "resumed"
  BY Zenon DEF FutexInv, WaitGiveUp, At
<1>2. w \in Words /\ s \in Seq(Waiters) /\ table \in [Words -> Seq(Waiters)]
  BY <1>1, Zenon DEF SoundCalls, OnWord, TypeOK
<1>3. PICK f \in [1 .. Cardinality(I) -> I] :
         /\ \A i \in I : \E k \in DOMAIN f : f[k] = i
         /\ table' = [table EXCEPT ![w] = Pick(s, f)]
  BY Zenon DEF WaitGiveUp
<1>4. call' = [call EXCEPT ![t] = User] /\ word' = word /\ ready' = ready /\ missed' = missed /\ strays' = strays
  BY Zenon DEF WaitGiveUp, Return
<1>5. I \in SUBSET DOMAIN s
  OBVIOUS
<1>6. /\ Pick(s, f) \in Seq(Waiters)
      /\ \A i \in I : \E k \in DOMAIN Pick(s, f) : Pick(s, f)[k] = s[i]
  <2> HIDE DEF s, I
  <2> QED
    BY <1>2, <1>3, <1>5, PickProperties, Zenon
<1>7. table' \in [Words -> Seq(Waiters)] /\ table'[w] = Pick(s, f) /\ \A v \in Words \ {w} : table'[v] = table[v]
  BY <1>2, <1>3, <1>6, Zenon
<1>8. ASSUME NEW u \in Threads \ {t}, Listed(table, u)
      PROVE  Listed(table', u)
  <2>1. PICK v \in Words : \E i \in DOMAIN table[v] : table[v][i].thread = u
    BY <1>8, Zenon DEF Listed
  <2>2. PICK i \in DOMAIN table[v] : table[v][i].thread = u
    BY <2>1, Zenon
  <2>3. CASE v # w
    BY <1>7, <2>2, <2>3, Zenon DEF Listed
  <2>4. CASE v = w
    <3>1. i \in I
      BY <2>2, <2>4, Zenon
    <3>2. PICK k \in DOMAIN Pick(s, f) : Pick(s, f)[k] = s[i]
      BY <1>6, <3>1, Zenon
    <3>3. k \in DOMAIN table'[w] /\ table'[w][k].thread = u
      BY <1>7, <2>2, <2>4, <3>2, Zenon
    <3> QED
      BY <1>2, <3>3, Zenon DEF Listed
  <2> QED
    BY <2>3, <2>4, Zenon
<1>9. \A u \in Threads : Held(call, u) => Held(call', u)
  BY <1>1, <1>4, UserSound, HeldStep, Zenon
<1>10. \A u \in Threads \ {t} : Reachable(table, call, ready, u) => Reachable(table', call', ready', u)
  BY <1>4, <1>8, <1>9, Zenon DEF Reachable
<1>11. /\ word' \in [Words -> Values] /\ ready' \in [Threads -> Nat] /\ strays' \in 0 .. MaxStrays
       /\ missed' \subseteq Threads
  BY <1>1, <1>4, Zenon DEF TypeOK
<1> HIDE DEF w, s, I
<1> QED
  BY <1>4, <1>7, <1>10, <1>11, UserSound, StepKeeps, Zenon

\* A thread that joins a queue is in it when it sleeps.
LEMMA PushStep ==
  ASSUME FutexInv, NEW t \in Threads, WaitPush(t)
  PROVE  FutexInv'
<1> DEFINE w == call[t].word
           s == table[w]
           e == [thread |-> t, bits |-> call[t].bits]
           d == [call[t] EXCEPT !.pc = "asleep"]
<1>1. TypeOK /\ call \in [Threads -> SoundCalls] /\ call[t].pc = "push" /\ call[t] \in Calls
  BY Zenon DEF FutexInv, WaitPush, At, SoundCalls
<1>2. w \in Words /\ s \in Seq(Waiters) /\ table \in [Words -> Seq(Waiters)]
  BY <1>1, Zenon DEF SoundCalls, OnWord, TypeOK
<1>3. e \in Waiters /\ e.thread = t
  BY <1>1, Zenon DEF Waiters, Calls
<1>4. d \in SoundCalls /\ call' = [call EXCEPT ![t] = d]
  BY <1>1, <1>2, Zenon DEF SoundCalls, Calls, PCs, OnWord, WaitPush
<1>5. table' = [table EXCEPT ![w] = Append(s, e)] /\ word' = word /\ ready' = ready /\ missed' = missed /\ strays' = strays
  BY Zenon DEF WaitPush
<1> HIDE DEF w, s, e, d
<1>6. /\ Append(s, e) \in Seq(Waiters)
      /\ \A i \in DOMAIN s : i \in DOMAIN Append(s, e) /\ Append(s, e)[i] = s[i]
      /\ Len(s) + 1 \in DOMAIN Append(s, e) /\ Append(s, e)[Len(s) + 1] = e
  BY <1>2, <1>3
<1>7. table' \in [Words -> Seq(Waiters)] /\ table'[w] = Append(s, e) /\ \A v \in Words \ {w} : table'[v] = table[v]
  BY <1>2, <1>5, <1>6, Zenon
<1>8. Listed(table', t)
  BY <1>2, <1>3, <1>6, <1>7, Zenon DEF Listed
<1>9. ASSUME NEW u \in Threads, Listed(table, u)
      PROVE  Listed(table', u)
  <2>1. PICK v \in Words : \E i \in DOMAIN table[v] : table[v][i].thread = u
    BY <1>9, Zenon DEF Listed
  <2>2. PICK i \in DOMAIN table[v] : table[v][i].thread = u
    BY <2>1, Zenon
  <2>3. i \in DOMAIN table'[v] /\ table'[v][i] = table[v][i]
    BY <1>6, <1>7, <2>2, Zenon DEF s
  <2> QED
    BY <2>2, <2>3, Zenon DEF Listed
<1>10. \A u \in Threads : Held(call, u) => Held(call', u)
  BY <1>1, <1>4, HeldStep, Zenon
<1>11. \A u \in Threads \ {t} : Reachable(table, call, ready, u) => Reachable(table', call', ready', u)
  BY <1>5, <1>9, <1>10, Zenon DEF Reachable
<1>12. /\ word' \in [Words -> Values] /\ ready' \in [Threads -> Nat] /\ strays' \in 0 .. MaxStrays
       /\ missed' \subseteq Threads
  BY <1>1, <1>5, Zenon DEF TypeOK
<1>13. Reachable(table', call', ready', t)
  BY <1>8, Zenon DEF Reachable
<1> QED
  BY <1>4, <1>7, <1>11, <1>12, <1>13, StepKeeps, Zenon

\* Every thread in the hand of a waker becomes ready.
LEMMA DeliverStep ==
  ASSUME FutexInv, NEW t \in Threads, Deliver(t)
  PROVE  FutexInv'
<1> DEFINE h == call[t].hand
           Of(u) == {k \in DOMAIN h : h[k] = u}
           d == [User EXCEPT !.pc = call[t].then]
<1>1. TypeOK /\ call \in [Threads -> SoundCalls] /\ call[t] \in Calls
  BY Zenon DEF FutexInv, SoundCalls
<1>2. h \in Seq(Threads) /\ call[t].then \in {"user", "exited"} /\ ready \in [Threads -> Nat]
  BY <1>1, Zenon DEF Calls, TypeOK
<1>3. d \in SoundCalls /\ d.pc # "asleep" /\ call' = [call EXCEPT ![t] = d]
  BY <1>2, UserSound, Zenon DEF Deliver
<1>4. /\ ready' = [u \in Threads |-> ready[u] + Cardinality(Of(u))]
      /\ word' = word /\ table' = table /\ missed' = missed /\ strays' = strays
  BY Zenon DEF Deliver
<1>5. ASSUME NEW u \in Threads
      PROVE  Cardinality(Of(u)) \in Nat /\ (Of(u) # {} => Cardinality(Of(u)) > 0)
  <2>1. DOMAIN h = 1 .. Len(h) /\ 1 \in Int /\ Len(h) \in Int
    BY <1>2
  <2>2. IsFiniteSet(DOMAIN h)
    BY <2>1, FS_Interval, Zenon
  <2>3. Of(u) \in SUBSET DOMAIN h
    OBVIOUS
  <2> DEFINE S == Of(u)
  <2> HIDE DEF S
  <2>4. IsFiniteSet(S)
    BY <2>2, <2>3, FS_Subset, Zenon DEF S
  <2>5. Cardinality(S) \in Nat /\ (Cardinality(S) = 0 => S = {})
    BY <2>4, FS_CardinalityType, FS_EmptySet, Zenon
  <2>6. Cardinality(S) \in Nat /\ (S # {} => Cardinality(S) > 0)
    BY <2>5
  <2> QED
    BY <2>6, Zenon DEF S
<1>6. ready' \in [Threads -> Nat] /\ \A u \in Threads : ready'[u] >= ready[u] /\ (Of(u) # {} => ready'[u] > 0)
  <2> HIDE DEF Of
  <2> QED
    BY <1>2, <1>4, <1>5
<1>7. ASSUME NEW u \in Threads, Held(call, u)
      PROVE  Held(call', u) \/ ready'[u] > 0
  <2>1. PICK v \in Threads : \E k \in DOMAIN call[v].hand : call[v].hand[k] = u
    BY <1>7, Zenon DEF Held
  <2>2. CASE v = t
    <3>1. Of(u) # {}
      BY <2>1, <2>2, Zenon
    <3> QED
      BY <1>6, <3>1, Zenon
  <2>3. CASE v # t
    <3>1. call'[v] = call[v]
      BY <1>1, <1>3, <2>3, Zenon
    <3> QED
      BY <2>1, <3>1, Zenon DEF Held
  <2> QED
    BY <2>2, <2>3, Zenon
<1> HIDE DEF h, Of, d
<1>8. \A u \in Threads : ready[u] > 0 => ready'[u] > 0
  BY <1>2, <1>6
<1>9. \A u \in Threads \ {t} : Reachable(table, call, ready, u) => Reachable(table', call', ready', u)
  BY <1>4, <1>7, <1>8, Zenon DEF Reachable
<1>10. /\ word' \in [Words -> Values] /\ table' \in [Words -> Seq(Waiters)] /\ strays' \in 0 .. MaxStrays
       /\ missed' \subseteq Threads
  BY <1>1, <1>4, Zenon DEF TypeOK
<1> QED
  BY <1>3, <1>6, <1>9, <1>10, StepKeeps, Zenon

\* The scheduler resumes a thread: only that one is less ready than before.
LEMMA ResumeStep ==
  ASSUME FutexInv, NEW t \in Threads, Resume(t)
  PROVE  FutexInv'
<1> DEFINE d == [call[t] EXCEPT !.pc = "resumed"]
<1>1. TypeOK /\ call \in [Threads -> SoundCalls] /\ call[t].pc = "asleep" /\ call[t] \in Calls
  BY Zenon DEF FutexInv, Resume, At, SoundCalls
<1>2. d \in SoundCalls /\ d.pc # "asleep" /\ call' = [call EXCEPT ![t] = d]
  BY <1>1, Zenon DEF SoundCalls, Calls, PCs, OnWord, Resume
<1>3. ready \in [Threads -> Nat] /\ ready[t] > 0 /\ ready' = [ready EXCEPT ![t] = @ - 1]
  BY <1>1, Zenon DEF Resume, TypeOK
<1>4. ready' \in [Threads -> Nat] /\ \A u \in Threads \ {t} : ready'[u] = ready[u]
  BY <1>3
<1>5. word' = word /\ table' = table /\ missed' = missed /\ strays' = strays
  BY Zenon DEF Resume
<1> HIDE DEF d
<1>6. \A u \in Threads : Held(call, u) => Held(call', u)
  BY <1>1, <1>2, HeldStep, Zenon
<1>7. \A u \in Threads \ {t} : Reachable(table, call, ready, u) => Reachable(table', call', ready', u)
  BY <1>4, <1>5, <1>6, Zenon DEF Reachable
<1>8. /\ word' \in [Words -> Values] /\ table' \in [Words -> Seq(Waiters)] /\ strays' \in 0 .. MaxStrays
      /\ missed' \subseteq Threads
  BY <1>1, <1>5, Zenon DEF TypeOK
<1> QED
  BY <1>2, <1>4, <1>7, <1>8, StepKeeps, Zenon

\* Every step keeps the invariant.
LEMMA FutexNext ==
  ASSUME FutexInv, [Next]_vars
  PROVE  FutexInv'
<1>1. TypeOK /\ call \in [Threads -> SoundCalls]
  BY Zenon DEF FutexInv
<1>2. Masks \subseteq SUBSET Bits /\ Counts \subseteq Nat /\ Main \in Threads /\ 0 \in Values
  BY FutexAssumption, Zenon
<1>3. ASSUME NEW t \in Threads, NEW w \in Words, NEW v \in Values, Store(t, w, v)
      PROVE  FutexInv'
  <2>1. call[t] \in SoundCalls /\ call[t].pc = "user" /\ call' = [call EXCEPT ![t] = call[t]]
    BY <1>1, <1>3, Zenon DEF Store, At
  <2>2. /\ word' \in [Words -> Values] /\ table' = table /\ ready' = ready
        /\ missed' \subseteq Threads /\ strays' = strays
    BY <1>1, <1>3, Zenon DEF Store, TypeOK
  <2> QED
    BY <2>1, <2>2, QuietStep, Zenon
<1>4. ASSUME NEW t \in Threads, NEW w \in Words, NEW bits \in Masks, WaitCheck(t, w, bits)
      PROVE  FutexInv'
  <2> DEFINE d == [User EXCEPT !.pc = "push", !.word = w, !.seen = word[w], !.bits = bits]
  <2>1. call' = [call EXCEPT ![t] = d] /\ call[t].pc = "user"
    BY <1>4, Zenon DEF WaitCheck, At
  <2>2. word[w] \in Values /\ bits \in SUBSET Bits
    BY <1>1, <1>2, Zenon DEF TypeOK
  <2>3. d \in SoundCalls /\ d.pc # "asleep"
    BY <2>2, EmptySeq, Zenon DEF User, SoundCalls, Calls, PCs, OnWord
  <2>4. /\ word' \in [Words -> Values] /\ table' = table /\ ready' = ready
        /\ missed' \subseteq Threads /\ strays' = strays
    BY <1>1, <1>4, Zenon DEF WaitCheck, TypeOK
  <2> HIDE DEF d
  <2> QED
    BY <2>1, <2>3, <2>4, QuietStep, Zenon
<1>5. ASSUME NEW t \in Threads, WaitOk(t)
      PROVE  FutexInv'
  <2>1. call' = [call EXCEPT ![t] = User] /\ call[t].pc = "resumed"
    BY <1>5, Zenon DEF WaitOk, Return, At
  <2>2. /\ word' \in [Words -> Values] /\ table' = table /\ ready' = ready
        /\ missed' \subseteq Threads /\ strays' = strays
    BY <1>1, <1>5, Zenon DEF WaitOk, TypeOK
  <2> QED
    BY <2>1, <2>2, UserSound, QuietStep, Zenon
<1>6. ASSUME NEW t \in Threads, NEW w \in Words, NEW n \in Counts, NEW bits \in Masks, Wake(t, w, n, bits)
      PROVE  FutexInv'
  <2>1. call[t].pc = "user" /\ Take(t, w, n, bits, "user") /\ n \in Nat
    BY <1>2, <1>6, Zenon DEF Wake, At
  <2>2. word' = word /\ ready' = ready /\ strays' = strays /\ missed' \subseteq Threads
    BY <1>1, <1>6, Zenon DEF Wake, Overlooked, TypeOK
  <2> QED
    BY <2>1, <2>2, TakeStep, Zenon
<1>7. ASSUME NEW t \in Threads, NEW w \in Words, NEW w2 \in Words, NEW n \in Counts, OpRead(t, w, n, w2)
      PROVE  FutexInv'
  <2> DEFINE d == [User EXCEPT !.pc = "op_write", !.word = w, !.n = n, !.bits = Bits, !.other = w2]
  <2>1. call' = [call EXCEPT ![t] = d] /\ call[t].pc = "user"
    BY <1>7, Zenon DEF OpRead, At
  <2>2. n \in Nat
    BY <1>2, Zenon
  <2>3. d \in SoundCalls /\ d.pc # "asleep"
    BY <2>2, EmptySeq, Zenon DEF User, SoundCalls, Calls, PCs, OnWord
  <2>4. /\ word' \in [Words -> Values] /\ table' = table /\ ready' = ready
        /\ missed' \subseteq Threads /\ strays' = strays
    BY <1>1, <1>7, Zenon DEF OpRead, TypeOK
  <2> HIDE DEF d
  <2> QED
    BY <2>1, <2>3, <2>4, QuietStep, Zenon
<1>8. ASSUME NEW t \in Threads, NEW v \in Values, OpWrite(t, v)
      PROVE  FutexInv'
  <2> DEFINE d == [call[t] EXCEPT !.pc = "take"]
  <2>1. call[t].pc = "op_write" /\ call[t] \in SoundCalls
    BY <1>1, <1>8, Zenon DEF OpWrite, At
  <2>2. d \in SoundCalls /\ d.pc # "asleep" /\ call[t].other \in Words
    BY <2>1, Zenon DEF SoundCalls, Calls, PCs, OnWord
  <2>3. call' = [call EXCEPT ![t] = User] \/ call' = [call EXCEPT ![t] = d]
    BY <1>1, <1>8, Zenon DEF OpWrite, Return
  <2>4. /\ word' \in [Words -> Values] /\ table' = table /\ ready' = ready
        /\ missed' \subseteq Threads /\ strays' = strays
    BY <1>1, <1>8, <2>2, Zenon DEF OpWrite, TypeOK
  <2> HIDE DEF d
  <2>5. CASE call' = [call EXCEPT ![t] = User]
    BY <2>1, <2>4, <2>5, UserSound, QuietStep, Zenon
  <2>6. CASE call' = [call EXCEPT ![t] = d]
    BY <2>1, <2>2, <2>4, <2>6, QuietStep, Zenon
  <2> QED
    BY <2>3, <2>5, <2>6, Zenon
<1>9. ASSUME NEW t \in Threads, NEW w \in Words, Exit(t, w)
      PROVE  FutexInv'
  <2> DEFINE d == [User EXCEPT !.pc = "take", !.word = w, !.n = 1, !.bits = Bits, !.then = "exited"]
  <2>1. call' = [call EXCEPT ![t] = d] /\ call[t].pc = "user"
    BY <1>9, Zenon DEF Exit, At
  <2>2. d \in SoundCalls /\ d.pc # "asleep"
    BY EmptySeq, Zenon DEF User, SoundCalls, Calls, PCs, OnWord
  <2>3. /\ word' \in [Words -> Values] /\ table' = table /\ ready' = ready
        /\ missed' \subseteq Threads /\ strays' = strays
    BY <1>1, <1>2, <1>9, Zenon DEF Exit, TypeOK
  <2> HIDE DEF d
  <2> QED
    BY <2>1, <2>2, <2>3, QuietStep, Zenon
<1>10. ASSUME NEW t \in Threads, WakeInside(t)
       PROVE  FutexInv'
  <2>1. call[t].pc = "take" /\ call[t] \in SoundCalls /\ Take(t, call[t].word, call[t].n, call[t].bits, call[t].then)
    BY <1>1, <1>10, Zenon DEF WakeInside, At
  <2>2. call[t].word \in Words /\ call[t].n \in Nat /\ call[t].then \in {"user", "exited"}
    BY <2>1, Zenon DEF SoundCalls, Calls, OnWord
  <2>3. word' = word /\ ready' = ready /\ strays' = strays /\ missed' \subseteq Threads
    BY <1>1, <1>10, Zenon DEF WakeInside, Overlooked, TypeOK
  <2>4. call[t].pc # "deliver"
    BY <2>1, Zenon
  <2> QED
    BY <2>1, <2>2, <2>3, <2>4, TakeStep, Zenon
<1>11. ASSUME NEW t \in Threads, NEW w \in Words, NEW w2 \in Words, NEW n \in Counts, NEW m \in Counts,
              Requeue(t, w, n, w2, m)
       PROVE  FutexInv'
  <2>1. n \in Nat /\ m \in Nat
    BY <1>2, Zenon
  <2> QED
    BY <1>11, <2>1, RequeueStep, Zenon
<1>12. ASSUME StrayWake
       PROVE  FutexInv'
  <2>1. /\ word' = word /\ table' = table /\ call' = call /\ missed' = missed
        /\ strays' = strays + 1 /\ strays < MaxStrays /\ ready' = [ready EXCEPT ![Main] = @ + 1]
    BY <1>12, Zenon DEF StrayWake
  <2>2. ready \in [Threads -> Nat] /\ strays \in 0 .. MaxStrays /\ MaxStrays \in Nat
    BY <1>1, FutexAssumption, Zenon DEF TypeOK
  <2>3. ready' \in [Threads -> Nat] /\ strays' \in 0 .. MaxStrays /\ \A u \in Threads : ready[u] > 0 => ready'[u] > 0
    BY <1>2, <2>1, <2>2
  <2>4. TypeOK'
    BY <1>1, <2>1, <2>3, Zenon DEF TypeOK
  <2>5. \A t \in Threads : Reachable(table, call, ready, t) => Reachable(table', call', ready', t)
    BY <2>1, <2>3, Zenon DEF Reachable
  <2> QED
    BY <2>1, <2>4, <2>5, Zenon DEF FutexInv, At
<1>13. ASSUME UNCHANGED vars
       PROVE  FutexInv'
  BY <1>13, Zenon DEF vars, FutexInv, TypeOK, At
<1> QED
  BY <1>3, <1>4, <1>5, <1>6, <1>7, <1>8, <1>9, <1>10, <1>11, <1>12, <1>13,
     PushStep, ResumeStep, GiveUpStep, DeliverStep, Zenon DEF Next

\* The empty table keeps the invariant.
LEMMA InitFutex == Init => FutexInv
<1> SUFFICES ASSUME Init PROVE FutexInv
  OBVIOUS
<1>1. /\ call = [t \in Threads |-> User] /\ word = [w \in Words |-> 0] /\ table = [w \in Words |-> <<>>]
      /\ ready = [t \in Threads |-> 0] /\ missed = {} /\ strays = 0
  BY Zenon DEF Init
<1>2. call \in [Threads -> SoundCalls] /\ \A t \in Threads : call[t].pc = "user"
  BY <1>1, UserSound, Zenon
<1>3. call \in [Threads -> Calls]
  BY <1>2, Zenon DEF SoundCalls
<1>4. <<>> \in Seq(Waiters)
  BY EmptySeq, Zenon
<1>5. table \in [Words -> Seq(Waiters)]
  BY <1>1, <1>4, Zenon
<1>6. word \in [Words -> Values] /\ ready \in [Threads -> Nat] /\ missed \subseteq Threads /\ strays \in 0 .. MaxStrays
  BY <1>1, FutexAssumption
<1>7. TypeOK
  BY <1>3, <1>5, <1>6, Zenon DEF TypeOK
<1> QED
  BY <1>2, <1>7, Zenon DEF FutexInv, At

\* The inductive invariant holds in every reachable state, whatever the
\* threads of the process store, wait for, wake, requeue and exit from.
THEOREM FutexInvariant == Spec => []FutexInv
<1>1. Init => FutexInv
  BY InitFutex, Zenon
<1>2. FutexInv /\ [Next]_vars => FutexInv'
  BY FutexNext, Zenon
<1> QED
  BY <1>1, <1>2, PTL DEF Spec

\* No thread that went to sleep in sys_futex_wait is dropped by the wakes,
\* requeues, timeouts and signals of the others.
THEOREM SleepersReachable == Spec => []NoWaiterLost
<1>1. FutexInv => NoWaiterLost
  <2> SUFFICES ASSUME FutexInv, NEW t \in Threads, At(t, "asleep")
               PROVE  Queued(t) # {} \/ InHand(t) # {} \/ ready[t] > 0
    BY Zenon DEF NoWaiterLost
  <2>1. Reachable(table, call, ready, t)
    BY Zenon DEF FutexInv
  <2>2. ASSUME Listed(table, t) PROVE Queued(t) # {}
    <3>1. PICK w \in Words : \E i \in DOMAIN table[w] : table[w][i].thread = t
      BY <2>2, Zenon DEF Listed
    <3>2. PICK i \in DOMAIN table[w] : table[w][i].thread = t
      BY <3>1, Zenon
    <3>3. <<w, i>> \in {<<w, k>> : k \in {j \in DOMAIN table[w] : table[w][j].thread = t}}
      BY <3>2, Zenon
    <3>4. <<w, i>> \in Queued(t)
      BY <3>3, Zenon DEF Queued
    <3> QED
      BY <3>4, Zenon
  <2>3. ASSUME Held(call, t) PROVE InHand(t) # {}
    <3>1. PICK u \in Threads : \E k \in DOMAIN call[u].hand : call[u].hand[k] = t
      BY <2>3, Zenon DEF Held
    <3>2. PICK k \in DOMAIN call[u].hand : call[u].hand[k] = t
      BY <3>1, Zenon
    <3>3. <<u, k>> \in {<<u, j>> : j \in {l \in DOMAIN call[u].hand : call[u].hand[l] = t}}
      BY <3>2, Zenon
    <3>4. <<u, k>> \in InHand(t)
      BY <3>3, Zenon DEF InHand
    <3> QED
      BY <3>4, Zenon
  <2> QED
    BY <2>1, <2>2, <2>3, Zenon DEF Reachable
<1> QED
  BY <1>1, FutexInvariant, PTL

-----------------------------------------------------------------------------
(* Counting the entries of a thread.                                       *)

\* Pairs of a member of D and an element of the set that S gives it.
Pairs(D, S) == UNION {{<<x, i>> : i \in S[x]} : x \in D}

Entries(s, u) == {j \in DOMAIN s : s[j].thread = u}
InSeq(h, u) == {k \in DOMAIN h : h[k] = u}

AllFinite(D, S) == \A x \in D : IsFiniteSet(S[x])
SameBut(D, S, T, d) == \A x \in D \ {d} : T[x] = S[x]

\* T has as many pairs as S has, less the elements of S[d] and plus those of T[d].
Swapped(D, S, T, d) ==
    /\ Cardinality(Pairs(D, S)) \in Nat /\ Cardinality(Pairs(D, T)) \in Nat
    /\ Cardinality(S[d]) \in Nat /\ Cardinality(T[d]) \in Nat
    /\ Cardinality(Pairs(D, T)) + Cardinality(S[d]) = Cardinality(Pairs(D, S)) + Cardinality(T[d])

\* The pairs, when the set of one member is replaced.
LEMMA PairsSwap ==
  ASSUME NEW D, IsFiniteSet(D), NEW S, NEW T, NEW d \in D,
         AllFinite(D, S), AllFinite(D, T), SameBut(D, S, T, d)
  PROVE  Swapped(D, S, T, d)
<1>0. /\ \A x \in D : IsFiniteSet(S[x]) /\ IsFiniteSet(T[x])
      /\ \A x \in D \ {d} : T[x] = S[x]
  BY Zenon DEF AllFinite, SameBut
<1>1. ASSUME NEW F, \A x \in D : IsFiniteSet(F[x])
      PROVE  IsFiniteSet(Pairs(D, F))
  <2> DEFINE f == [x \in D |-> {<<x, i>> : i \in F[x]}]
             Fam == {{<<x, i>> : i \in F[x]} : x \in D}
  <2>1. f \in Surjection(D, Fam)
    BY Zenon DEF Surjection
  <2>2. IsFiniteSet(Fam)
    BY <2>1, FS_Surjection, Zenon
  <2>3. ASSUME NEW P \in Fam PROVE IsFiniteSet(P)
    <3>1. PICK x \in D : P = {<<x, i>> : i \in F[x]}
      OBVIOUS
    <3>2. P = {x} \X F[x]
      BY <3>1
    <3>3. IsFiniteSet({x})
      BY FS_Singleton, Zenon
    <3> QED
      BY <1>1, <3>2, <3>3, FS_Product, Zenon
  <2> HIDE DEF Fam
  <2>4. IsFiniteSet(UNION Fam)
    BY <2>2, <2>3, FS_UNION, Zenon
  <2> QED
    BY <2>4, Zenon DEF Pairs, Fam
<1> DEFINE Others == {y \in Pairs(D, S) : y[1] # d}
<1>2. IsFiniteSet(Others) /\ Cardinality(Others) \in Nat
  <2>1. Others \subseteq Pairs(D, S)
    OBVIOUS
  <2> HIDE DEF Others
  <2> QED
    BY <1>0, <1>1, <2>1, FS_Subset, FS_CardinalityType, Zenon
<1>3. ASSUME NEW F, \A x \in D : IsFiniteSet(F[x]), \A x \in D \ {d} : F[x] = S[x]
      PROVE  /\ Cardinality(Pairs(D, F)) \in Nat /\ Cardinality(F[d]) \in Nat
             /\ Cardinality(Pairs(D, F)) = Cardinality(Others) + Cardinality(F[d])
  <2> DEFINE Mine == {d} \X F[d]
  <2>1. \A y \in Pairs(D, F) : y \in Others \cup Mine
    BY <1>3 DEF Pairs
  <2>2. \A y \in Others : y \in Pairs(D, F)
    BY <1>3 DEF Pairs
  <2>3. \A y \in Mine : y \in Pairs(D, F)
    BY DEF Pairs
  <2>4. Pairs(D, F) = Others \cup Mine
    BY <2>1, <2>2, <2>3, Zenon
  <2>5. Others \cap Mine = {}
    OBVIOUS
  <2>6. IsFiniteSet({d}) /\ Cardinality({d}) = 1 /\ IsFiniteSet(F[d])
    BY <1>3, FS_Singleton, Zenon
  <2>7. IsFiniteSet(Mine) /\ Cardinality(Mine) = Cardinality({d}) * Cardinality(F[d])
    BY <2>6, FS_Product, Zenon
  <2>8. Cardinality(F[d]) \in Nat /\ Cardinality(Mine) \in Nat
    BY <2>6, <2>7, FS_CardinalityType, Zenon
  <2> HIDE DEF Others, Mine
  <2>9. Cardinality(Pairs(D, F)) = Cardinality(Others) + Cardinality(Mine) - Cardinality({})
    <3>1. Cardinality(Others \cup Mine) = Cardinality(Others) + Cardinality(Mine) - Cardinality(Others \cap Mine)
      BY <1>2, <2>7, FS_Union, Zenon
    <3> QED
      BY <2>4, <2>5, <3>1, Zenon
  <2>10. Cardinality({}) = 0
    BY FS_EmptySet, Zenon
  <2> DEFINE a == Cardinality(Others)
             b == Cardinality(Mine)
             c == Cardinality(F[d])
             n == Cardinality(Pairs(D, F))
  <2>11. a \in Nat /\ b \in Nat /\ c \in Nat /\ b = 1 * c /\ n = a + b - 0
    BY <1>2, <2>6, <2>7, <2>8, <2>9, <2>10, Zenon
  <2>12. a \in Nat /\ c \in Nat
    BY <2>11, Zenon
  <2> HIDE DEF a, b, c, n
  <2>13. n \in Nat /\ n = a + c
    BY <2>11
  <2> QED
    BY <2>12, <2>13, Zenon DEF a, c, n
<1>4. /\ Cardinality(Pairs(D, S)) \in Nat /\ Cardinality(S[d]) \in Nat
      /\ Cardinality(Pairs(D, S)) = Cardinality(Others) + Cardinality(S[d])
  BY <1>0, <1>3, Zenon
<1>5. /\ Cardinality(Pairs(D, T)) \in Nat /\ Cardinality(T[d]) \in Nat
      /\ Cardinality(Pairs(D, T)) = Cardinality(Others) + Cardinality(T[d])
  BY <1>0, <1>3, Zenon
<1> HIDE DEF Others
<1> QED
  BY <1>2, <1>4, <1>5 DEF Swapped

\* The entries of a sequence are finitely many.
LEMMA EntriesFinite ==
  /\ \A s \in Seq(Waiters) : \A u : \A I \in SUBSET DOMAIN s :
        IsFiniteSet(Entries(s, u) \cap I) /\ Cardinality(Entries(s, u) \cap I) \in Nat
  /\ \A s \in Seq(Waiters) : \A u : IsFiniteSet(Entries(s, u)) /\ Cardinality(Entries(s, u)) \in Nat
  /\ \A h \in Seq(Threads) : \A u : IsFiniteSet(InSeq(h, u)) /\ Cardinality(InSeq(h, u)) \in Nat
<1>1. ASSUME NEW A, NEW s \in Seq(A), NEW P \in SUBSET DOMAIN s
      PROVE  IsFiniteSet(P) /\ Cardinality(P) \in Nat
  <2>1. DOMAIN s = 1 .. Len(s) /\ 1 \in Int /\ Len(s) \in Int
    OBVIOUS
  <2> QED
    BY <2>1, FS_Interval, FS_Subset, FS_CardinalityType, Zenon
<1>2. \A s, u : Entries(s, u) \in SUBSET DOMAIN s /\ InSeq(s, u) \in SUBSET DOMAIN s
  BY Zenon DEF Entries, InSeq
<1>3. \A s, u : \A I \in SUBSET DOMAIN s : Entries(s, u) \cap I \in SUBSET DOMAIN s
  OBVIOUS
<1> QED
  BY <1>1, <1>2, <1>3, Zenon

\* The order of the queue puts no entry before itself, so that a sorted
\* selection names each entry once.
LEMMA SortedOnce ==
  ASSUME NEW s \in Seq(Waiters), NEW I \in SUBSET DOMAIN s, NEW f \in Sorted(s, I)
  PROVE  \A k, l \in DOMAIN f : k # l => f[k] # f[l]
<1>1. f \in [1 .. Cardinality(I) -> I] /\ \A k, l \in DOMAIN f : k < l => Before(s, f[k], f[l])
  BY Zenon DEF Sorted
<1>2. \A i \in DOMAIN s : ~Before(s, i, i)
  <2>1. ASSUME NEW i \in DOMAIN s PROVE Priority[s[i].thread] \in Nat /\ i \in Int
    <3>1. s[i] \in Waiters /\ i \in Int
      OBVIOUS
    <3> QED
      BY <3>1, FutexAssumption, Zenon DEF Waiters
  <2> QED
    BY <2>1 DEF Before
<1>3. \A k, l \in DOMAIN f : k < l => f[k] # f[l]
  BY <1>1, <1>2, Zenon
<1>4. \A k \in DOMAIN f : k \in Int
  BY <1>1
<1> QED
  BY <1>3, <1>4

\* A selection that names each entry once has no more entries of a thread
\* than the selected ones.
LEMMA PickCounts ==
  ASSUME NEW s \in Seq(Waiters), NEW I \in SUBSET DOMAIN s,
         NEW f \in [1 .. Cardinality(I) -> I],
         \A k, l \in DOMAIN f : k # l => f[k] # f[l], NEW u
  PROVE  /\ Cardinality(Entries(Pick(s, f), u)) <= Cardinality(Entries(s, u) \cap I)
         /\ Cardinality(InSeq(PickThreads(s, f), u)) <= Cardinality(Entries(s, u) \cap I)
<1> DEFINE C == {k \in DOMAIN f : s[f[k]].thread = u}
           g == [k \in C |-> f[k]]
           E == Entries(s, u) \cap I
<1>1. Entries(Pick(s, f), u) = C /\ InSeq(PickThreads(s, f), u) = C
  BY Zenon DEF Entries, InSeq, Pick, PickThreads
<1>2. g \in Injection(C, E)
  <2>1. g \in [C -> E]
    BY Zenon DEF Entries
  <2>2. \A k, l \in C : k # l => g[k] # g[l]
    OBVIOUS
  <2> QED
    BY <2>1, <2>2, Zenon DEF Injection, IsInjective
<1>3. IsFiniteSet(E)
  BY EntriesFinite, Zenon
<1> HIDE DEF g, C, E
<1>4. Cardinality(C) <= Cardinality(E)
  BY <1>2, <1>3, FS_Injection, Zenon
<1> QED
  BY <1>1, <1>4, Zenon DEF E

\* How many entries of u a queue, a hand, all queues and all hands have.
InQueue(s, u) == Cardinality(Entries(s, u))
HandCount(h, u) == Cardinality(InSeq(h, u))
Queues(q, u) == Cardinality(Pairs(Words, [w \in Words |-> Entries(q[w], u)]))
Hands(c, u) == Cardinality(Pairs(Threads, [t \in Threads |-> InSeq(c[t].hand, u)]))

Sleeps(d) == IF d.pc = "asleep" THEN 1 ELSE 0
Strays(n, u) == IF u = Main THEN n ELSE 0

\* The inductive invariant: the entries of a thread are accounted for.
WokenInv ==
    /\ FutexInv
    /\ \A u \in Threads :
          Queues(table, u) + Hands(call, u) + ready[u] <= Sleeps(call[u]) + Strays(strays, u)

\* The accounting of entries is what WokenOnce states with sets of positions.
LEMMA WokenMeans == WokenInv => WokenOnce
<1> SUFFICES ASSUME WokenInv, NEW t \in Threads
             PROVE  Cardinality(Queued(t)) + Cardinality(InHand(t)) + ready[t]
                      <= (IF At(t, "asleep") THEN 1 ELSE 0) + (IF t = Main THEN strays ELSE 0)
  BY Zenon DEF WokenOnce
<1>1. Queued(t) = Pairs(Words, [w \in Words |-> Entries(table[w], t)])
  BY DEF Queued, Pairs, Entries
<1>2. InHand(t) = Pairs(Threads, [u \in Threads |-> InSeq(call[u].hand, t)])
  BY DEF InHand, Pairs, InSeq
<1>3. Cardinality(Queued(t)) = Queues(table, t) /\ Cardinality(InHand(t)) = Hands(call, t)
  BY <1>1, <1>2, Zenon DEF Queues, Hands
<1>4. Queues(table, t) + Hands(call, t) + ready[t] <= Sleeps(call[t]) + Strays(strays, t)
  BY Zenon DEF WokenInv
<1> QED
  BY <1>3, <1>4, Zenon DEF Sleeps, Strays, At

QueueSwapped(q, r, w, u) ==
    /\ Queues(q, u) \in Nat /\ Queues(r, u) \in Nat
    /\ InQueue(q[w], u) \in Nat /\ InQueue(r[w], u) \in Nat
    /\ Queues(r, u) + InQueue(q[w], u) = Queues(q, u) + InQueue(r[w], u)

\* Replacing one queue.
LEMMA QueueSwap ==
  ASSUME NEW q \in [Words -> Seq(Waiters)], NEW r \in [Words -> Seq(Waiters)], NEW w \in Words,
         SameBut(Words, q, r, w), NEW u
  PROVE  QueueSwapped(q, r, w, u)
<1> DEFINE S == [v \in Words |-> Entries(q[v], u)]
           T == [v \in Words |-> Entries(r[v], u)]
<1>1. AllFinite(Words, S)
  BY EntriesFinite, Zenon DEF AllFinite
<1>t. AllFinite(Words, T)
  BY EntriesFinite, Zenon DEF AllFinite
<1>2. SameBut(Words, S, T, w)
  BY Zenon DEF SameBut
<1>3. S[w] = Entries(q[w], u) /\ T[w] = Entries(r[w], u)
  OBVIOUS
<1>4. Cardinality(Pairs(Words, S)) = Queues(q, u) /\ Cardinality(Pairs(Words, T)) = Queues(r, u)
  BY Zenon DEF Queues
<1> HIDE DEF S, T
<1>5. IsFiniteSet(Words)
  BY FutexAssumption, Zenon
<1>p. Swapped(Words, S, T, w)
  BY <1>1, <1>t, <1>2, <1>5, PairsSwap, Zenon
<1>6. /\ Cardinality(Pairs(Words, S)) \in Nat /\ Cardinality(Pairs(Words, T)) \in Nat
      /\ Cardinality(S[w]) \in Nat /\ Cardinality(T[w]) \in Nat
      /\ Cardinality(Pairs(Words, T)) + Cardinality(S[w]) = Cardinality(Pairs(Words, S)) + Cardinality(T[w])
  BY <1>p, Zenon DEF Swapped
<1> QED
  BY <1>3, <1>4, <1>6, Zenon DEF InQueue, QueueSwapped

\* Replacing one call.
HandSwapped(c, e, t, d, u) ==
    /\ Hands(c, u) \in Nat /\ Hands(e, u) \in Nat
    /\ HandCount(c[t].hand, u) \in Nat /\ HandCount(d.hand, u) \in Nat
    /\ Hands(e, u) + HandCount(c[t].hand, u) = Hands(c, u) + HandCount(d.hand, u)

\* Replacing the call of one thread replaces its share of the count of
\* threads in hand.
LEMMA HandSwap ==
  ASSUME NEW c \in [Threads -> SoundCalls], NEW t \in Threads, NEW d \in SoundCalls, NEW u
  PROVE  HandSwapped(c, [c EXCEPT ![t] = d], t, d, u)
<1> DEFINE e == [c EXCEPT ![t] = d]
           S == [v \in Threads |-> InSeq(c[v].hand, u)]
           T == [v \in Threads |-> InSeq(e[v].hand, u)]
<1>0. e \in [Threads -> SoundCalls] /\ e[t] = d /\ \A v \in Threads \ {t} : e[v] = c[v]
  OBVIOUS
<1>a. \A v \in Threads : c[v].hand \in Seq(Threads) /\ e[v].hand \in Seq(Threads)
  <2> HIDE DEF e
  <2> QED
    BY <1>0, Zenon DEF SoundCalls, Calls
<1> HIDE DEF e
<1>1. AllFinite(Threads, S)
  BY <1>a, EntriesFinite, Zenon DEF AllFinite
<1>t. AllFinite(Threads, T)
  BY <1>a, EntriesFinite, Zenon DEF AllFinite
<1>2. SameBut(Threads, S, T, t)
  BY <1>0, Zenon DEF SameBut
<1>3. S[t] = InSeq(c[t].hand, u) /\ T[t] = InSeq(d.hand, u)
  BY <1>0, Zenon
<1>4. Cardinality(Pairs(Threads, S)) = Hands(c, u) /\ Cardinality(Pairs(Threads, T)) = Hands(e, u)
  BY Zenon DEF Hands
<1> HIDE DEF S, T
<1>5. IsFiniteSet(Threads)
  BY FutexAssumption, Zenon
<1>p. Swapped(Threads, S, T, t)
  BY <1>1, <1>t, <1>2, <1>5, PairsSwap, Zenon
<1>6. /\ Cardinality(Pairs(Threads, S)) \in Nat /\ Cardinality(Pairs(Threads, T)) \in Nat
      /\ Cardinality(S[t]) \in Nat /\ Cardinality(T[t]) \in Nat
      /\ Cardinality(Pairs(Threads, T)) + Cardinality(S[t]) = Cardinality(Pairs(Threads, S)) + Cardinality(T[t])
  BY <1>p, Zenon DEF Swapped
<1> QED
  BY <1>3, <1>4, <1>6, Zenon DEF HandSwapped, HandCount, e

\* The counts of entries are numbers.
LEMMA CountsNat ==
  ASSUME NEW u
  PROVE  /\ \A q \in [Words -> Seq(Waiters)] : Queues(q, u) \in Nat
         /\ \A d \in SoundCalls : HandCount(d.hand, u) \in Nat
<1>1. ASSUME NEW q \in [Words -> Seq(Waiters)]
      PROVE  Queues(q, u) \in Nat
  <2>1. CASE Words = {}
    <3>1. Pairs(Words, [w \in Words |-> Entries(q[w], u)]) = {}
      BY <2>1, Zenon DEF Pairs
    <3>2. Cardinality({}) \in Nat
      BY FS_EmptySet
    <3> QED
      BY <3>1, <3>2, Zenon DEF Queues
  <2>2. CASE Words # {}
    <3>1. PICK w \in Words : TRUE
      BY <2>2, Zenon
    <3> QED
      BY <3>1, QueueSwap, Zenon DEF QueueSwapped, SameBut
  <2> QED
    BY <2>1, <2>2, Zenon
<1>2. \A d \in SoundCalls : d.hand \in Seq(Threads)
  BY Zenon DEF SoundCalls, Calls
<1> QED
  BY <1>1, <1>2, EntriesFinite, Zenon DEF HandCount

\* What a step of t needs to do to keep the account: what it adds to the
\* queues, to its hand and to the ready queue it has taken from one of them.
LEMMA Balance ==
  ASSUME WokenInv, FutexInv', NEW t \in Threads, NEW d \in SoundCalls,
         call' = [call EXCEPT ![t] = d], strays' = strays,
         \A u \in Threads :
            Queues(table', u) + HandCount(d.hand, u) + ready'[u] + (IF u = t THEN Sleeps(call[t]) ELSE 0)
              <= Queues(table, u) + HandCount(call[t].hand, u) + ready[u] + (IF u = t THEN Sleeps(d) ELSE 0)
  PROVE  WokenInv'
<1>1. /\ call \in [Threads -> SoundCalls] /\ table \in [Words -> Seq(Waiters)] /\ table' \in [Words -> Seq(Waiters)]
      /\ ready \in [Threads -> Nat] /\ ready' \in [Threads -> Nat] /\ strays \in Nat
  BY FutexAssumption DEF WokenInv, FutexInv, TypeOK
<1>2. ASSUME NEW u \in Threads
      PROVE  Queues(table', u) + Hands(call', u) + ready'[u] <= Sleeps(call'[u]) + Strays(strays', u)
  <2> DEFINE q1 == Queues(table, u)
             q2 == Queues(table', u)
             n1 == Hands(call, u)
             n2 == Hands(call', u)
             h1 == HandCount(call[t].hand, u)
             h2 == HandCount(d.hand, u)
             r1 == ready[u]
             r2 == ready'[u]
             s1 == Sleeps(call[u])
             s2 == Sleeps(call'[u])
             m == Strays(strays, u)
             a1 == IF u = t THEN Sleeps(call[t]) ELSE 0
             a2 == IF u = t THEN Sleeps(d) ELSE 0
  <2>1. q1 \in Nat /\ q2 \in Nat
    BY <1>1, CountsNat, Zenon
  <2>2. n1 \in Nat /\ n2 \in Nat /\ h1 \in Nat /\ h2 \in Nat /\ n2 + h1 = n1 + h2
    <3>1. HandSwapped(call, call', t, d, u)
      BY <1>1, HandSwap, Zenon
    <3> QED
      BY <3>1, Zenon DEF HandSwapped
  <2>3. r1 \in Nat /\ r2 \in Nat
    BY <1>1, Zenon
  <2>4. s1 \in Nat /\ s2 \in Nat /\ a1 \in Nat /\ a2 \in Nat /\ s2 + a1 = s1 + a2
    <3>1. CASE u = t
      <4>1. call'[u] = d /\ a1 = s1 /\ a2 = Sleeps(d)
        BY <1>1, <3>1, Zenon
      <4> QED
        BY <4>1 DEF Sleeps
    <3>2. CASE u # t
      <4>1. call'[u] = call[u] /\ a1 = 0 /\ a2 = 0
        BY <1>1, <3>2, Zenon
      <4> QED
        BY <4>1, Zenon DEF Sleeps
    <3> QED
      BY <3>1, <3>2, Zenon
  <2>5. m \in Nat /\ Strays(strays', u) = m
    BY <1>1, Zenon DEF Strays
  <2>6. q1 + n1 + r1 <= s1 + m
    BY Zenon DEF WokenInv
  <2>7. q2 + h2 + r2 + a1 <= q1 + h1 + r1 + a2
    BY Zenon
  <2> HIDE DEF q1, q2, n1, n2, h1, h2, r1, r2, s1, s2, m, a1, a2
  <2>8. q2 + n2 + r2 <= s2 + m
    BY <2>1, <2>2, <2>3, <2>4, <2>5, <2>6, <2>7
  <2> QED
    BY <2>5, <2>8, Zenon DEF q2, n2, r2, s2, m
<1> QED
  BY <1>2, Zenon DEF WokenInv

\* A step that leaves queues and hands alone and ends nobody's sleep.
LEMMA QuietCount ==
  ASSUME WokenInv, FutexInv', NEW t \in Threads, NEW d \in SoundCalls,
         call' = [call EXCEPT ![t] = d], call[t].pc # "deliver", call[t].pc # "asleep", d.pc # "deliver",
         table' = table, ready' = ready, strays' = strays
  PROVE  WokenInv'
<1>1. /\ call \in [Threads -> SoundCalls] /\ table \in [Words -> Seq(Waiters)] /\ ready \in [Threads -> Nat]
  BY Zenon DEF WokenInv, FutexInv, TypeOK
<1>2. call[t].hand = <<>> /\ d.hand = <<>>
  BY <1>1, Zenon DEF SoundCalls
<1>3. Sleeps(call[t]) = 0 /\ Sleeps(d) \in {0, 1}
  BY Zenon DEF Sleeps
<1>4. ASSUME NEW u \in Threads
      PROVE  Queues(table', u) + HandCount(d.hand, u) + ready'[u] + (IF u = t THEN Sleeps(call[t]) ELSE 0)
              <= Queues(table, u) + HandCount(call[t].hand, u) + ready[u] + (IF u = t THEN Sleeps(d) ELSE 0)
  <2> DEFINE q == Queues(table, u)
             h == HandCount(d.hand, u)
             r == ready[u]
             a == IF u = t THEN Sleeps(d) ELSE 0
  <2>1. q \in Nat /\ h \in Nat /\ r \in Nat
    BY <1>1, CountsNat, Zenon
  <2>2. a \in Nat /\ (IF u = t THEN Sleeps(call[t]) ELSE 0) = 0
    BY <1>3
  <2> HIDE DEF q, h, r, a
  <2>3. q + h + r + 0 <= q + h + r + a
    BY <2>1, <2>2
  <2> QED
    BY <1>2, <2>2, <2>3, Zenon DEF q, h, r, a
<1> QED
  BY <1>4, Balance, Zenon

\* Joining a queue adds one entry of the thread that goes to sleep.
LEMMA PushCount ==
  ASSUME WokenInv, FutexInv', NEW t \in Threads, WaitPush(t)
  PROVE  WokenInv'
<1> DEFINE w == call[t].word
           s == table[w]
           e == [thread |-> t, bits |-> call[t].bits]
           d == [call[t] EXCEPT !.pc = "asleep"]
<1>0. FutexInv /\ TypeOK /\ TypeOK'
  BY Zenon DEF WokenInv, FutexInv
<1>1. call \in [Threads -> SoundCalls] /\ call[t].pc = "push" /\ call[t] \in Calls
  BY <1>0, Zenon DEF FutexInv, WaitPush, At, SoundCalls
<1>2. w \in Words /\ s \in Seq(Waiters) /\ table \in [Words -> Seq(Waiters)] /\ table' \in [Words -> Seq(Waiters)]
      /\ ready \in [Threads -> Nat]
  BY <1>0, <1>1, Zenon DEF SoundCalls, OnWord, TypeOK
<1>3. e \in Waiters /\ e.thread = t
  BY <1>1, Zenon DEF Waiters, Calls
<1>4. d \in SoundCalls /\ call' = [call EXCEPT ![t] = d]
  BY <1>1, <1>2, Zenon DEF SoundCalls, Calls, PCs, OnWord, WaitPush
<1>5. d.hand = call[t].hand /\ Sleeps(d) = 1 /\ Sleeps(call[t]) = 0
  BY <1>1, Zenon DEF Sleeps, Calls
<1>6. table' = [table EXCEPT ![w] = Append(s, e)] /\ ready' = ready /\ strays' = strays
  BY Zenon DEF WaitPush
<1> HIDE DEF w, s, e, d
<1>7. table'[w] = Append(s, e) /\ SameBut(Words, table, table', w)
  BY <1>2, <1>6, Zenon DEF SameBut
<1>8. ASSUME NEW u \in Threads
      PROVE  InQueue(table'[w], u) <= InQueue(table[w], u) + (IF u = t THEN 1 ELSE 0)
  <2> DEFINE E == Entries(s, u)
             F == Entries(Append(s, e), u)
  <2>1. IsFiniteSet(E) /\ Cardinality(E) \in Nat
    BY <1>2, EntriesFinite, Zenon
  <2>2. F \subseteq E \cup {Len(s) + 1}
    BY <1>2, <1>3 DEF Entries
  <2>3. u # t => F \subseteq E
    BY <1>2, <1>3 DEF Entries
  <2>4. CASE u # t
    <3> HIDE DEF E, F
    <3>1. Cardinality(F) <= Cardinality(E)
      BY <2>1, <2>3, <2>4, FS_Subset, Zenon
    <3>2. InQueue(table'[w], u) = Cardinality(F) /\ InQueue(table[w], u) = Cardinality(E)
      BY <1>7, Zenon DEF InQueue, E, F, s
    <3>3. F \subseteq E
      BY <2>3, <2>4, Zenon
    <3>4. Cardinality(F) \in Nat
      BY <2>1, <3>3, FS_Subset, FS_CardinalityType, Zenon
    <3> DEFINE m == Cardinality(F)
               n == Cardinality(E)
    <3>5. m \in Nat /\ n \in Nat /\ m <= n
      BY <2>1, <3>1, <3>4, Zenon
    <3> HIDE DEF m, n
    <3>6. m <= n + 0
      BY <3>5
    <3> QED
      BY <2>4, <3>2, <3>6, Zenon DEF m, n
  <2>5. CASE u = t
    <3> DEFINE i == Len(s) + 1
    <3> HIDE DEF E, F, i
    <3>0. F \subseteq E \cup {i}
      BY <2>2, Zenon DEF i
    <3>1. IsFiniteSet(E \cup {i}) /\ (Cardinality(E \cup {i}) = Cardinality(E) \/ Cardinality(E \cup {i}) = Cardinality(E) + 1)
      BY <2>1, FS_AddElement, Zenon
    <3>2. Cardinality(F) \in Nat /\ Cardinality(F) <= Cardinality(E \cup {i})
      BY <3>0, <3>1, FS_Subset, FS_CardinalityType, Zenon
    <3>3. InQueue(table'[w], u) = Cardinality(F) /\ InQueue(table[w], u) = Cardinality(E)
      BY <1>7, Zenon DEF InQueue, E, F, s
    <3> DEFINE m == Cardinality(F)
               n == Cardinality(E)
               k == Cardinality(E \cup {i})
    <3>4. m \in Nat /\ n \in Nat /\ (k = n \/ k = n + 1) /\ m <= k
      BY <2>1, <3>1, <3>2, Zenon
    <3> HIDE DEF m, n, k
    <3>5. m <= n + 1
      BY <3>4
    <3> QED
      BY <2>5, <3>3, <3>5, Zenon DEF m, n
  <2> QED
    BY <2>4, <2>5, Zenon
<1>9. ASSUME NEW u \in Threads
      PROVE  Queues(table', u) + HandCount(d.hand, u) + ready'[u] + (IF u = t THEN Sleeps(call[t]) ELSE 0)
              <= Queues(table, u) + HandCount(call[t].hand, u) + ready[u] + (IF u = t THEN Sleeps(d) ELSE 0)
  <2> DEFINE q1 == Queues(table, u)
             q2 == Queues(table', u)
             n1 == InQueue(table[w], u)
             n2 == InQueue(table'[w], u)
             h == HandCount(d.hand, u)
             r == ready[u]
             a == IF u = t THEN 1 ELSE 0
  <2>1. h \in Nat /\ r \in Nat
    BY <1>2, <1>4, CountsNat, Zenon
  <2>2. q1 \in Nat /\ q2 \in Nat /\ n1 \in Nat /\ n2 \in Nat /\ q2 + n1 = q1 + n2
    <3>1. QueueSwapped(table, table', w, u)
      BY <1>2, <1>7, QueueSwap, Zenon
    <3> QED
      BY <3>1, Zenon DEF QueueSwapped
  <2>3. a \in Nat /\ (IF u = t THEN Sleeps(call[t]) ELSE 0) = 0 /\ (IF u = t THEN Sleeps(d) ELSE 0) = a
    BY <1>5, Zenon
  <2>4. n2 <= n1 + a
    BY <1>8, Zenon
  <2> HIDE DEF q1, q2, n1, n2, h, r, a
  <2>5. q2 + h + r + 0 <= q1 + h + r + a
    BY <2>1, <2>2, <2>3, <2>4
  <2> QED
    BY <1>5, <1>6, <2>3, <2>5, Zenon DEF q1, q2, h, r
<1> QED
  BY <1>4, <1>6, <1>9, Balance, Zenon

\* Resuming takes an entry from the ready queue and ends the sleep.
LEMMA ResumeCount ==
  ASSUME WokenInv, FutexInv', NEW t \in Threads, Resume(t)
  PROVE  WokenInv'
<1> DEFINE d == [call[t] EXCEPT !.pc = "resumed"]
<1>0. FutexInv /\ TypeOK
  BY Zenon DEF WokenInv, FutexInv
<1>1. call \in [Threads -> SoundCalls] /\ call[t].pc = "asleep" /\ call[t] \in Calls /\ table \in [Words -> Seq(Waiters)]
  BY <1>0, Zenon DEF FutexInv, Resume, At, SoundCalls, TypeOK
<1>2. d \in SoundCalls /\ d.pc = "resumed" /\ call' = [call EXCEPT ![t] = d]
  BY <1>1, Zenon DEF SoundCalls, Calls, PCs, OnWord, Resume
<1>3. d.hand = call[t].hand /\ Sleeps(d) = 0 /\ Sleeps(call[t]) = 1
  BY <1>1, Zenon DEF Sleeps, Calls
<1>4. ready \in [Threads -> Nat] /\ ready[t] > 0 /\ ready' = [ready EXCEPT ![t] = @ - 1] /\ table' = table /\ strays' = strays
  BY <1>0, Zenon DEF Resume, TypeOK
<1> HIDE DEF d
<1>5. ASSUME NEW u \in Threads
      PROVE  Queues(table', u) + HandCount(d.hand, u) + ready'[u] + (IF u = t THEN Sleeps(call[t]) ELSE 0)
              <= Queues(table, u) + HandCount(call[t].hand, u) + ready[u] + (IF u = t THEN Sleeps(d) ELSE 0)
  <2> DEFINE q == Queues(table, u)
             h == HandCount(d.hand, u)
             r1 == ready[u]
             r2 == ready'[u]
             a == IF u = t THEN 1 ELSE 0
  <2>1. h \in Nat /\ r1 \in Nat /\ q \in Nat
    BY <1>1, <1>2, <1>4, CountsNat, Zenon
  <2>2. a \in Nat /\ (IF u = t THEN Sleeps(call[t]) ELSE 0) = a /\ (IF u = t THEN Sleeps(d) ELSE 0) = 0
    BY <1>3, Zenon
  <2>3. r2 = r1 - a
    BY <1>4
  <2> HIDE DEF q, h, r1, r2, a
  <2>4. q + h + r2 + a <= q + h + r1 + 0
    BY <2>1, <2>2, <2>3
  <2> QED
    BY <1>3, <1>4, <2>2, <2>4, Zenon DEF q, h, r1, r2
<1> QED
  BY <1>2, <1>4, <1>5, Balance, Zenon

Splits(s, B, A, u) ==
    /\ Cardinality(Entries(s, u) \cap A) \in Nat
    /\ Cardinality(Entries(s, u) \cap B) \in Nat
    /\ Cardinality(Entries(s, u) \cap (B \ A)) \in Nat
    /\ Cardinality(Entries(s, u) \cap B)
         = Cardinality(Entries(s, u) \cap A) + Cardinality(Entries(s, u) \cap (B \ A))

\* The entries of a thread in B are those in A and those in the rest of B.
LEMMA SplitCount ==
  ASSUME NEW s \in Seq(Waiters), NEW B \in SUBSET DOMAIN s, NEW A \in SUBSET B, NEW u
  PROVE  Splits(s, B, A, u)
<1> DEFINE X == Entries(s, u) \cap A
           Y == Entries(s, u) \cap (B \ A)
<1>1. Entries(s, u) \cap B = X \cup Y /\ X \cap Y = {}
  OBVIOUS
<1>2. A \in SUBSET DOMAIN s /\ B \ A \in SUBSET DOMAIN s
  OBVIOUS
<1>3. IsFiniteSet(X) /\ IsFiniteSet(Y) /\ Cardinality(X) \in Nat /\ Cardinality(Y) \in Nat
  BY <1>2, EntriesFinite, Zenon
<1> HIDE DEF X, Y
<1>4. Cardinality(X \cup Y) = Cardinality(X) + Cardinality(Y) - Cardinality(X \cap Y)
  BY <1>3, FS_Union, Zenon
<1>5. Cardinality(X \cap Y) = 0
  BY <1>1, FS_EmptySet, Zenon
<1> DEFINE x == Cardinality(X)
           y == Cardinality(Y)
           z == Cardinality(X \cup Y)
<1>6. x \in Nat /\ y \in Nat /\ z = x + y - 0
  BY <1>3, <1>4, <1>5, Zenon
<1> HIDE DEF x, y, z
<1>7. z \in Nat /\ z = x + y
  BY <1>6
<1> QED
  BY <1>1, <1>3, <1>7, Zenon DEF X, Y, x, y, z, Splits

\* Concatenation adds the entries.
LEMMA ConcatCount ==
  ASSUME NEW a \in Seq(Waiters), NEW b \in Seq(Waiters), NEW u
  PROVE  InQueue(a \o b, u) <= InQueue(a, u) + InQueue(b, u)
<1> DEFINE A == Entries(a, u)
           B == Entries(b, u)
           C == Entries(a \o b, u)
           M == {Len(a) + j : j \in B}
           g == [j \in B |-> Len(a) + j]
<1>1. IsFiniteSet(A) /\ IsFiniteSet(B) /\ Cardinality(A) \in Nat /\ Cardinality(B) \in Nat
  BY EntriesFinite, Zenon
<1>2. C \subseteq A \cup M
  <2> SUFFICES ASSUME NEW k \in DOMAIN (a \o b), (a \o b)[k].thread = u, k \notin A
               PROVE  k \in M
    BY Zenon DEF Entries
  <2>1. k \in 1 .. Len(a) + Len(b) /\ Len(a) \in Nat /\ Len(b) \in Nat
    OBVIOUS
  <2>2. CASE k <= Len(a)
    BY <2>1, <2>2 DEF Entries
  <2>3. CASE k > Len(a)
    <3>1. k - Len(a) \in DOMAIN b /\ b[k - Len(a)] = (a \o b)[k] /\ k = Len(a) + (k - Len(a))
      BY <2>1, <2>3
    <3>2. k - Len(a) \in B
      BY <3>1, Zenon DEF Entries
    <3> QED
      BY <3>1, <3>2, Zenon
  <2> QED
    BY <2>1, <2>2, <2>3
<1>3. g \in Surjection(B, M)
  BY Zenon DEF Surjection
<1> HIDE DEF A, B, C, M, g
<1>4. IsFiniteSet(M) /\ Cardinality(M) <= Cardinality(B)
  BY <1>1, <1>3, FS_Surjection, Zenon
<1>5. IsFiniteSet(A \cup M) /\ Cardinality(A \cup M) = Cardinality(A) + Cardinality(M) - Cardinality(A \cap M)
  BY <1>1, <1>4, FS_Union, Zenon
<1>6. IsFiniteSet(C) /\ Cardinality(C) <= Cardinality(A \cup M)
  BY <1>2, <1>5, FS_Subset, Zenon
<1>7. IsFiniteSet(A \cap M)
  BY <1>1, FS_Intersection, Zenon
<1>8. Cardinality(C) \in Nat /\ Cardinality(M) \in Nat /\ Cardinality(A \cap M) \in Nat
  BY <1>4, <1>6, <1>7, FS_CardinalityType, Zenon
<1> DEFINE x == Cardinality(A)
           y == Cardinality(B)
           z == Cardinality(C)
           m == Cardinality(M)
           i == Cardinality(A \cap M)
           n == Cardinality(A \cup M)
<1>9. x \in Nat /\ y \in Nat /\ z \in Nat /\ m \in Nat /\ i \in Nat /\ n = x + m - i /\ z <= n /\ m <= y
  BY <1>1, <1>4, <1>5, <1>6, <1>8, Zenon
<1> HIDE DEF x, y, z, m, i, n
<1>10. z <= x + y
  BY <1>9
<1> QED
  BY <1>10, Zenon DEF x, y, z, A, B, C, InQueue

\* The call of a thread with h to hand over.
LEMMA HandedCall ==
  ASSUME NEW t \in Threads, NEW h \in Seq(Threads), NEW th \in {"user", "exited"}, Deliverable(t, h, th)
  PROVE  \E d \in SoundCalls : call' = [call EXCEPT ![t] = d] /\ Sleeps(d) = 0 /\ d.hand = h
<1>1. CASE h = <<>>
  <2> DEFINE d == [User EXCEPT !.pc = th]
  <2>1. call' = [call EXCEPT ![t] = d] /\ d.hand = h
    BY <1>1, Zenon DEF Deliverable, User
  <2>2. d \in SoundCalls /\ d.pc # "asleep"
    BY UserSound, Zenon
  <2> HIDE DEF d
  <2> QED
    BY <2>1, <2>2, Zenon DEF Sleeps
<1>2. CASE h # <<>>
  <2> DEFINE d == [User EXCEPT !.pc = "deliver", !.hand = h, !.then = th]
  <2>1. call' = [call EXCEPT ![t] = d]
    BY <1>2, Zenon DEF Deliverable
  <2>2. d \in SoundCalls /\ d.pc # "asleep" /\ d.hand = h
    BY UserSound, Zenon
  <2> HIDE DEF d
  <2> QED
    BY <2>1, <2>2, Zenon DEF Sleeps
<1> QED
  BY <1>1, <1>2, Zenon

\* An entry that is taken leaves the queue for the hand.
LEMMA TakeCount ==
  ASSUME WokenInv, FutexInv', NEW t \in Threads, call[t].pc # "deliver", call[t].pc # "asleep",
         NEW w \in Words, NEW n \in Nat,
         NEW bits, NEW th \in {"user", "exited"}, Take(t, w, n, bits, th),
         ready' = ready, strays' = strays
  PROVE  WokenInv'
<1> DEFINE s == table[w]
           I == First(s, Eligible(s, bits), n)
<1>0. FutexInv /\ TypeOK /\ TypeOK'
  BY Zenon DEF WokenInv, FutexInv
<1>1. /\ call \in [Threads -> SoundCalls] /\ s \in Seq(Waiters) /\ ready \in [Threads -> Nat]
      /\ table \in [Words -> Seq(Waiters)] /\ table' \in [Words -> Seq(Waiters)]
  BY <1>0, Zenon DEF FutexInv, TypeOK
<1>2. I \in SUBSET DOMAIN s /\ DOMAIN s \ I \in SUBSET DOMAIN s
  BY Zenon DEF First, Eligible
<1>3. \E f \in Sorted(s, I) : \E g \in Sorted(s, DOMAIN s \ I) :
         /\ table' = [table EXCEPT ![w] = Pick(s, g)]
         /\ Deliverable(t, PickThreads(s, f), th)
  BY Zenon DEF Take
<1> HIDE DEF I
<1>4. PICK f \in Sorted(s, I), g \in Sorted(s, DOMAIN s \ I) :
         /\ table' = [table EXCEPT ![w] = Pick(s, g)]
         /\ Deliverable(t, PickThreads(s, f), th)
  BY <1>3, Zenon
<1> HIDE DEF s
<1>5. f \in [1 .. Cardinality(I) -> I] /\ \A i \in I : \E k \in DOMAIN f : f[k] = i
  BY Zenon DEF Sorted
<1>6. /\ g \in [1 .. Cardinality(DOMAIN s \ I) -> DOMAIN s \ I]
      /\ \A i \in DOMAIN s \ I : \E k \in DOMAIN g : g[k] = i
  BY Zenon DEF Sorted
<1>7. PickThreads(s, f) \in Seq(Threads)
  BY <1>1, <1>2, <1>5, PickProperties, Zenon
<1>8. (\A k, l \in DOMAIN f : k # l => f[k] # f[l]) /\ (\A k, l \in DOMAIN g : k # l => g[k] # g[l])
  BY <1>1, <1>2, SortedOnce, Zenon
<1>9. PICK d \in SoundCalls :
         call' = [call EXCEPT ![t] = d] /\ Sleeps(d) = 0 /\ d.hand = PickThreads(s, f)
  <2>1. Deliverable(t, PickThreads(s, f), th)
    BY <1>4, Zenon
  <2> QED
    BY <1>7, <2>1, HandedCall
<1>10. table'[w] = Pick(s, g) /\ SameBut(Words, table, table', w)
  BY <1>1, <1>4, Zenon DEF SameBut
<1>11. call[t].hand = <<>> /\ Sleeps(call[t]) = 0
  BY <1>1, Zenon DEF SoundCalls, Sleeps
<1>12. ASSUME NEW u \in Threads
       PROVE  Queues(table', u) + HandCount(d.hand, u) + ready'[u] + (IF u = t THEN Sleeps(call[t]) ELSE 0)
              <= Queues(table, u) + HandCount(call[t].hand, u) + ready[u] + (IF u = t THEN Sleeps(d) ELSE 0)
  <2> DEFINE q1 == Queues(table, u)
             q2 == Queues(table', u)
             n1 == InQueue(table[w], u)
             n2 == InQueue(table'[w], u)
             h1 == HandCount(call[t].hand, u)
             h2 == HandCount(d.hand, u)
             r == ready[u]
             x == Cardinality(Entries(s, u) \cap I)
             y == Cardinality(Entries(s, u) \cap (DOMAIN s \ I))
  <2>1. h1 \in Nat /\ h2 \in Nat /\ r \in Nat
    BY <1>1, <1>9, CountsNat, Zenon
  <2>2. q1 \in Nat /\ q2 \in Nat /\ n1 \in Nat /\ n2 \in Nat /\ q2 + n1 = q1 + n2
    <3>1. QueueSwapped(table, table', w, u)
      BY <1>1, <1>10, QueueSwap, Zenon
    <3> QED
      BY <3>1, Zenon DEF QueueSwapped
  <2>3. h2 <= x
    BY <1>1, <1>2, <1>5, <1>8, <1>9, PickCounts, Zenon DEF HandCount
  <2>4. n2 <= y
    BY <1>1, <1>2, <1>6, <1>8, <1>10, PickCounts, Zenon DEF InQueue
  <2>5. x \in Nat /\ y \in Nat /\ n1 = x + y
    <3>1. Entries(s, u) \cap DOMAIN s = Entries(s, u) /\ DOMAIN s \in SUBSET DOMAIN s
      BY Zenon DEF Entries
    <3>2. Splits(s, DOMAIN s, I, u)
      BY <1>1, <1>2, <3>1, SplitCount, Zenon
    <3> QED
      BY <3>1, <3>2, Zenon DEF InQueue, s, Splits
  <2>6. (IF u = t THEN Sleeps(call[t]) ELSE 0) = 0 /\ (IF u = t THEN Sleeps(d) ELSE 0) = 0
    BY <1>9, <1>11, Zenon
  <2> HIDE DEF q1, q2, n1, n2, h1, h2, r, x, y
  <2>7. q2 + h2 + r + 0 <= q1 + h1 + r + 0
    BY <2>1, <2>2, <2>3, <2>4, <2>5
  <2> QED
    BY <2>6, <2>7, Zenon DEF q1, q2, h1, h2, r
<1> QED
  BY <1>9, <1>12, Balance, Zenon

\* An entry that is moved leaves one queue for the other.
LEMMA RequeueCount ==
  ASSUME WokenInv, FutexInv', NEW t \in Threads, NEW w \in Words, NEW w2 \in Words,
         NEW n \in Nat, NEW m \in Nat, Requeue(t, w, n, w2, m)
  PROVE  WokenInv'
<1> DEFINE s == table[w]
           I == First(s, DOMAIN s, n)
           R == DOMAIN s \ I
           J == First(s, R, m)
           K == R \ J
<1>0. FutexInv /\ TypeOK /\ TypeOK'
  BY Zenon DEF WokenInv, FutexInv
<1>1. /\ call \in [Threads -> SoundCalls] /\ s \in Seq(Waiters) /\ ready \in [Threads -> Nat]
      /\ table \in [Words -> Seq(Waiters)] /\ table' \in [Words -> Seq(Waiters)]
      /\ table[w2] \in Seq(Waiters)
  BY <1>0, Zenon DEF FutexInv, TypeOK
<1>2. I \in SUBSET DOMAIN s /\ J \in SUBSET R /\ J \in SUBSET DOMAIN s /\ K \in SUBSET DOMAIN s /\ R \in SUBSET DOMAIN s
  BY Zenon DEF First
<1>3. w # w2 /\ call[t].pc = "user" /\ ready' = ready /\ strays' = strays
  BY Zenon DEF Requeue, At
<1>4. \E f \in Sorted(s, I), g \in Sorted(s, J), h \in Sorted(s, K) :
         /\ table' = [table EXCEPT ![w] = Pick(s, h), ![w2] = @ \o Pick(s, g)]
         /\ Deliverable(t, PickThreads(s, f), "user")
  BY Zenon DEF Requeue
<1>r. R = DOMAIN s \ I /\ K = R \ J
  OBVIOUS
<1> HIDE DEF s, I, J, K, R
<1>5. PICK f \in Sorted(s, I), g \in Sorted(s, J), h \in Sorted(s, K) :
         /\ table' = [table EXCEPT ![w] = Pick(s, h), ![w2] = @ \o Pick(s, g)]
         /\ Deliverable(t, PickThreads(s, f), "user")
  BY <1>4, Zenon
<1>6. /\ f \in [1 .. Cardinality(I) -> I] /\ \A i \in I : \E k \in DOMAIN f : f[k] = i
      /\ g \in [1 .. Cardinality(J) -> J] /\ \A i \in J : \E k \in DOMAIN g : g[k] = i
      /\ h \in [1 .. Cardinality(K) -> K] /\ \A i \in K : \E k \in DOMAIN h : h[k] = i
  BY Zenon DEF Sorted
<1>7. PickThreads(s, f) \in Seq(Threads) /\ Pick(s, g) \in Seq(Waiters) /\ Pick(s, h) \in Seq(Waiters)
  BY <1>1, <1>2, <1>6, PickProperties, Zenon
<1>8. /\ \A k, l \in DOMAIN f : k # l => f[k] # f[l]
      /\ \A k, l \in DOMAIN g : k # l => g[k] # g[l]
      /\ \A k, l \in DOMAIN h : k # l => h[k] # h[l]
  BY <1>1, <1>2, SortedOnce, Zenon
<1>9. PICK d \in SoundCalls :
         call' = [call EXCEPT ![t] = d] /\ Sleeps(d) = 0 /\ d.hand = PickThreads(s, f)
  BY <1>5, <1>7, HandedCall, Zenon
<1> DEFINE mid == [table EXCEPT ![w] = Pick(s, h)]
<1>10. /\ mid \in [Words -> Seq(Waiters)] /\ mid[w] = Pick(s, h) /\ mid[w2] = table[w2]
       /\ SameBut(Words, table, mid, w)
  BY <1>1, <1>3, <1>7, Zenon DEF SameBut
<1>11. /\ table'[w2] = table[w2] \o Pick(s, g)
       /\ SameBut(Words, mid, table', w2)
  BY <1>1, <1>3, <1>5, <1>7, Zenon DEF SameBut
<1> HIDE DEF mid
<1>12. call[t].hand = <<>> /\ Sleeps(call[t]) = 0
  BY <1>1, <1>3, Zenon DEF SoundCalls, Sleeps
<1>13. ASSUME NEW u \in Threads
       PROVE  Queues(table', u) + HandCount(d.hand, u) + ready'[u] + (IF u = t THEN Sleeps(call[t]) ELSE 0)
              <= Queues(table, u) + HandCount(call[t].hand, u) + ready[u] + (IF u = t THEN Sleeps(d) ELSE 0)
  <2> DEFINE q1 == Queues(table, u)
             q2 == Queues(mid, u)
             q3 == Queues(table', u)
             n1 == InQueue(table[w], u)
             n2 == InQueue(mid[w], u)
             m1 == InQueue(mid[w2], u)
             m2 == InQueue(table'[w2], u)
             p == InQueue(Pick(s, g), u)
             h1 == HandCount(call[t].hand, u)
             h2 == HandCount(d.hand, u)
             r == ready[u]
             x == Cardinality(Entries(s, u) \cap I)
             y == Cardinality(Entries(s, u) \cap J)
             z == Cardinality(Entries(s, u) \cap K)
             o == Cardinality(Entries(s, u) \cap R)
  <2>1. h1 \in Nat /\ h2 \in Nat /\ r \in Nat
    BY <1>1, <1>9, CountsNat, Zenon
  <2>2. q1 \in Nat /\ q2 \in Nat /\ n1 \in Nat /\ n2 \in Nat /\ q2 + n1 = q1 + n2
    <3>1. QueueSwapped(table, mid, w, u)
      BY <1>1, <1>10, QueueSwap, Zenon
    <3> QED
      BY <3>1, Zenon DEF QueueSwapped
  <2>3. q3 \in Nat /\ m1 \in Nat /\ m2 \in Nat /\ q3 + m1 = q2 + m2
    <3>1. QueueSwapped(mid, table', w2, u)
      BY <1>1, <1>10, <1>11, QueueSwap, Zenon
    <3> QED
      BY <3>1, Zenon DEF QueueSwapped
  <2>4. h2 <= x
    BY <1>1, <1>2, <1>6, <1>8, <1>9, PickCounts, Zenon DEF HandCount
  <2>5. p <= y /\ n2 <= z
    BY <1>1, <1>2, <1>6, <1>8, <1>10, PickCounts, Zenon DEF InQueue
  <2>6. m2 <= m1 + p /\ p \in Nat
    BY <1>1, <1>7, <1>10, <1>11, ConcatCount, EntriesFinite, Zenon DEF InQueue
  <2>7. x \in Nat /\ o \in Nat /\ n1 = x + o
    <3>1. Entries(s, u) \cap DOMAIN s = Entries(s, u) /\ DOMAIN s \in SUBSET DOMAIN s
      BY Zenon DEF Entries
    <3>2. Splits(s, DOMAIN s, I, u)
      BY <1>1, <1>2, <3>1, SplitCount, Zenon
    <3> QED
      BY <1>r, <3>1, <3>2, Zenon DEF InQueue, s, Splits
  <2>8. y \in Nat /\ z \in Nat /\ o = y + z
    <3>1. Splits(s, R, J, u)
      BY <1>1, <1>2, SplitCount, Zenon
    <3> QED
      BY <1>r, <3>1, Zenon DEF Splits
  <2>9. (IF u = t THEN Sleeps(call[t]) ELSE 0) = 0 /\ (IF u = t THEN Sleeps(d) ELSE 0) = 0
    BY <1>9, <1>12, Zenon
  <2> HIDE DEF q1, q2, q3, n1, n2, m1, m2, p, h1, h2, r, x, y, z, o
  <2>10. q3 + h2 + r + 0 <= q1 + h1 + r + 0
    BY <2>1, <2>2, <2>3, <2>4, <2>5, <2>6, <2>7, <2>8
  <2> QED
    BY <1>3, <2>9, <2>10, Zenon DEF q1, q3, h1, h2, r
<1> QED
  BY <1>3, <1>9, <1>13, Balance, Zenon

\* Giving up removes the thread's own entries and adds none.
LEMMA GiveUpCount ==
  ASSUME WokenInv, FutexInv', NEW t \in Threads, WaitGiveUp(t)
  PROVE  WokenInv'
<1> DEFINE w == call[t].word
           s == table[w]
           I == {i \in DOMAIN s : s[i].thread # t}
<1>0. FutexInv /\ TypeOK /\ TypeOK'
  BY Zenon DEF WokenInv, FutexInv
<1>1. call \in [Threads -> SoundCalls] /\ call[t].pc = "resumed"
  BY <1>0, Zenon DEF FutexInv, WaitGiveUp, At
<1>2. /\ w \in Words /\ s \in Seq(Waiters) /\ table \in [Words -> Seq(Waiters)] /\ table' \in [Words -> Seq(Waiters)]
      /\ ready \in [Threads -> Nat]
  BY <1>0, <1>1, Zenon DEF SoundCalls, OnWord, TypeOK
<1>3. PICK f \in [1 .. Cardinality(I) -> I] :
         /\ \A k, l \in DOMAIN f : k < l => f[k] < f[l]
         /\ table' = [table EXCEPT ![w] = Pick(s, f)]
  BY Zenon DEF WaitGiveUp
<1>4. call' = [call EXCEPT ![t] = User] /\ ready' = ready /\ strays' = strays
  BY Zenon DEF WaitGiveUp, Return
<1>5. I \in SUBSET DOMAIN s
  OBVIOUS
<1> HIDE DEF w, s, I
<1>6. \A k, l \in DOMAIN f : k # l => f[k] # f[l]
  <2>1. \A i \in DOMAIN s : i \in Int
    BY <1>2
  <2>2. \A k \in DOMAIN f : k \in Int /\ f[k] \in Int
    BY <1>5, <2>1
  <2> QED
    BY <1>3, <2>2
<1>7. table'[w] = Pick(s, f) /\ SameBut(Words, table, table', w)
  BY <1>2, <1>3, Zenon DEF SameBut
<1>8. User \in SoundCalls /\ User.hand = <<>> /\ call[t].hand = <<>> /\ Sleeps(User) = 0 /\ Sleeps(call[t]) = 0
  <2>1. User \in SoundCalls
    BY UserSound, Zenon
  <2> QED
    BY <1>1, <2>1, Zenon DEF User, SoundCalls, Sleeps
<1>9. ASSUME NEW u \in Threads
      PROVE  Queues(table', u) + HandCount(User.hand, u) + ready'[u] + (IF u = t THEN Sleeps(call[t]) ELSE 0)
              <= Queues(table, u) + HandCount(call[t].hand, u) + ready[u] + (IF u = t THEN Sleeps(User) ELSE 0)
  <2> DEFINE q1 == Queues(table, u)
             q2 == Queues(table', u)
             n1 == InQueue(table[w], u)
             n2 == InQueue(table'[w], u)
             h == HandCount(User.hand, u)
             r == ready[u]
             x == Cardinality(Entries(s, u) \cap I)
             y == Cardinality(Entries(s, u) \cap (DOMAIN s \ I))
  <2>1. h \in Nat /\ r \in Nat
    BY <1>2, <1>8, CountsNat, Zenon
  <2>2. q1 \in Nat /\ q2 \in Nat /\ n1 \in Nat /\ n2 \in Nat /\ q2 + n1 = q1 + n2
    <3>1. QueueSwapped(table, table', w, u)
      BY <1>2, <1>7, QueueSwap, Zenon
    <3> QED
      BY <3>1, Zenon DEF QueueSwapped
  <2>3. n2 <= x
    BY <1>2, <1>3, <1>5, <1>6, <1>7, PickCounts, Zenon DEF InQueue
  <2>4. x \in Nat /\ y \in Nat /\ n1 = x + y
    <3>1. Entries(s, u) \cap DOMAIN s = Entries(s, u) /\ DOMAIN s \in SUBSET DOMAIN s
      BY Zenon DEF Entries
    <3>2. Splits(s, DOMAIN s, I, u)
      BY <1>2, <1>5, <3>1, SplitCount, Zenon
    <3> QED
      BY <3>1, <3>2, Zenon DEF InQueue, s, Splits
  <2>5. (IF u = t THEN Sleeps(call[t]) ELSE 0) = 0 /\ (IF u = t THEN Sleeps(User) ELSE 0) = 0
    BY <1>8, Zenon
  <2> HIDE DEF q1, q2, n1, n2, h, r, x, y
  <2>6. q2 + h + r + 0 <= q1 + h + r + 0
    BY <2>1, <2>2, <2>3, <2>4
  <2> QED
    BY <1>4, <1>8, <2>5, <2>6, Zenon DEF q1, q2, h, r
<1> QED
  BY <1>4, <1>8, <1>9, Balance, Zenon

\* Delivery moves the hand to the ready queue.
LEMMA DeliverCount ==
  ASSUME WokenInv, FutexInv', NEW t \in Threads, Deliver(t)
  PROVE  WokenInv'
<1> DEFINE d == [User EXCEPT !.pc = call[t].then]
<1>0. FutexInv /\ TypeOK
  BY Zenon DEF WokenInv, FutexInv
<1>1. /\ call \in [Threads -> SoundCalls] /\ call[t] \in Calls /\ call[t].pc = "deliver"
      /\ table \in [Words -> Seq(Waiters)] /\ ready \in [Threads -> Nat]
  BY <1>0, Zenon DEF FutexInv, SoundCalls, TypeOK, Deliver, At
<1>2. call[t].then \in {"user", "exited"} /\ call[t].hand \in Seq(Threads)
  BY <1>1, Zenon DEF Calls
<1>3. d \in SoundCalls /\ d.pc # "asleep" /\ call' = [call EXCEPT ![t] = d]
  BY <1>2, UserSound, Zenon DEF Deliver
<1>h. d.hand = <<>>
  <2>1. \A x : [User EXCEPT !.pc = x].hand = <<>>
    BY Zenon DEF User
  <2> QED
    BY <2>1, Zenon
<1> HIDE DEF d
<1>4. d.hand = <<>> /\ Sleeps(d) = 0 /\ Sleeps(call[t]) = 0
  BY <1>1, <1>3, <1>h, Zenon DEF Sleeps
<1>5. /\ \A u \in Threads : ready'[u] = ready[u] + HandCount(call[t].hand, u)
      /\ table' = table /\ strays' = strays
  BY Zenon DEF Deliver, HandCount, InSeq
<1>6. ASSUME NEW u \in Threads
      PROVE  Queues(table', u) + HandCount(d.hand, u) + ready'[u] + (IF u = t THEN Sleeps(call[t]) ELSE 0)
              <= Queues(table, u) + HandCount(call[t].hand, u) + ready[u] + (IF u = t THEN Sleeps(d) ELSE 0)
  <2> DEFINE q == Queues(table, u)
             h1 == HandCount(call[t].hand, u)
             h2 == HandCount(d.hand, u)
             r == ready[u]
  <2>1. h1 \in Nat /\ r \in Nat /\ q \in Nat
    BY <1>1, CountsNat, Zenon
  <2>2. h2 = 0
    <3>1. InSeq(<<>>, u) = {}
      BY DEF InSeq
    <3> QED
      BY <1>4, <3>1, FS_EmptySet, Zenon DEF HandCount
  <2>3. (IF u = t THEN Sleeps(call[t]) ELSE 0) = 0 /\ (IF u = t THEN Sleeps(d) ELSE 0) = 0
    BY <1>4, Zenon
  <2>4. ready'[u] = r + h1
    BY <1>5, Zenon
  <2> HIDE DEF q, h1, h2, r
  <2>5. q + h2 + (r + h1) + 0 <= q + h1 + r + 0
    BY <2>1, <2>2
  <2> QED
    BY <1>5, <2>3, <2>4, <2>5, Zenon DEF q, h1, h2, r
<1> QED
  BY <1>3, <1>5, <1>6, Balance, Zenon

\* A wake from elsewhere is counted.
LEMMA StrayCount ==
  ASSUME WokenInv, FutexInv', StrayWake
  PROVE  WokenInv'
<1>1. /\ table' = table /\ call' = call /\ strays' = strays + 1 /\ ready' = [ready EXCEPT ![Main] = @ + 1]
  BY Zenon DEF StrayWake
<1>2. ready \in [Threads -> Nat] /\ strays \in Nat /\ Main \in Threads /\ call \in [Threads -> SoundCalls]
      /\ table \in [Words -> Seq(Waiters)]
  BY FutexAssumption DEF WokenInv, FutexInv, TypeOK
<1>3. ASSUME NEW u \in Threads
      PROVE  Queues(table', u) + Hands(call', u) + ready'[u] <= Sleeps(call'[u]) + Strays(strays', u)
  <2> DEFINE q == Queues(table, u)
             n == Hands(call, u)
             r == ready[u]
             s == Sleeps(call[u])
             m == Strays(strays, u)
             a == IF u = Main THEN 1 ELSE 0
  <2>1. q \in Nat /\ n \in Nat /\ r \in Nat
    <3>1. HandSwapped(call, [call EXCEPT ![u] = call[u]], u, call[u], u)
      BY <1>2, HandSwap, Zenon
    <3> QED
      BY <1>2, <3>1, CountsNat, Zenon DEF HandSwapped
  <2>2. s \in Nat /\ m \in Nat /\ a \in Nat
    BY <1>2, Zenon DEF Sleeps, Strays
  <2>3. ready'[u] = r + a /\ Strays(strays', u) = m + a
    BY <1>1, <1>2 DEF Strays
  <2>4. q + n + r <= s + m
    BY Zenon DEF WokenInv
  <2> HIDE DEF q, n, r, s, m, a
  <2>5. q + n + (r + a) <= s + (m + a)
    BY <2>1, <2>2, <2>4
  <2> QED
    BY <1>1, <2>3, <2>5, Zenon DEF q, n, s
<1> QED
  BY <1>3, Zenon DEF WokenInv

\* Every step keeps the account.
LEMMA WokenNext ==
  ASSUME WokenInv, [Next]_vars
  PROVE  WokenInv'
<1>0. FutexInv /\ FutexInv'
  BY FutexNext, Zenon DEF WokenInv
<1>1. TypeOK /\ call \in [Threads -> SoundCalls]
  BY <1>0, Zenon DEF FutexInv
<1>2. Masks \subseteq SUBSET Bits /\ Counts \subseteq Nat
  BY FutexAssumption, Zenon
<1>3. ASSUME NEW t \in Threads, NEW w \in Words, NEW v \in Values, Store(t, w, v)
      PROVE  WokenInv'
  <2>1. call[t] \in SoundCalls /\ call[t].pc = "user" /\ call' = [call EXCEPT ![t] = call[t]]
        /\ table' = table /\ ready' = ready /\ strays' = strays
    BY <1>1, <1>3, Zenon DEF Store, At
  <2>2. call[t].pc # "deliver" /\ call[t].pc # "asleep"
    BY <2>1, Zenon
  <2> QED
    BY <1>0, <2>1, <2>2, QuietCount, Zenon
<1>4. ASSUME NEW t \in Threads, NEW w \in Words, NEW bits \in Masks, WaitCheck(t, w, bits)
      PROVE  WokenInv'
  <2> DEFINE d == [User EXCEPT !.pc = "push", !.word = w, !.seen = word[w], !.bits = bits]
  <2>1. call' = [call EXCEPT ![t] = d] /\ call[t].pc = "user" /\ table' = table /\ ready' = ready /\ strays' = strays
    BY <1>4, Zenon DEF WaitCheck, At
  <2>2. word[w] \in Values /\ bits \in SUBSET Bits
    BY <1>1, <1>2, Zenon DEF TypeOK
  <2>3. d \in SoundCalls /\ d.pc # "deliver"
    BY <2>2, EmptySeq, Zenon DEF User, SoundCalls, Calls, PCs, OnWord
  <2>4. call[t].pc # "deliver" /\ call[t].pc # "asleep"
    BY <2>1, Zenon
  <2> HIDE DEF d
  <2> QED
    BY <1>0, <2>1, <2>3, <2>4, QuietCount, Zenon
<1>5. ASSUME NEW t \in Threads, WaitOk(t)
      PROVE  WokenInv'
  <2>1. call' = [call EXCEPT ![t] = User] /\ call[t].pc = "resumed" /\ table' = table /\ ready' = ready /\ strays' = strays
    BY <1>5, Zenon DEF WaitOk, Return, At
  <2>2. call[t].pc # "deliver" /\ call[t].pc # "asleep" /\ User.pc # "deliver"
    BY <2>1, Zenon DEF User
  <2> QED
    BY <1>0, <2>1, <2>2, UserSound, QuietCount, Zenon
<1>6. ASSUME NEW t \in Threads, NEW w \in Words, NEW n \in Counts, NEW bits \in Masks, Wake(t, w, n, bits)
      PROVE  WokenInv'
  <2>1. call[t].pc = "user" /\ Take(t, w, n, bits, "user") /\ n \in Nat /\ ready' = ready /\ strays' = strays
    BY <1>2, <1>6, Zenon DEF Wake, At
  <2> QED
    BY <1>0, <2>1, TakeCount, Zenon
<1>7. ASSUME NEW t \in Threads, NEW w \in Words, NEW w2 \in Words, NEW n \in Counts, OpRead(t, w, n, w2)
      PROVE  WokenInv'
  <2> DEFINE d == [User EXCEPT !.pc = "op_write", !.word = w, !.n = n, !.bits = Bits, !.other = w2]
  <2>1. call' = [call EXCEPT ![t] = d] /\ call[t].pc = "user" /\ table' = table /\ ready' = ready /\ strays' = strays
    BY <1>7, Zenon DEF OpRead, At
  <2>2. n \in Nat
    BY <1>2, Zenon
  <2>3. d \in SoundCalls /\ d.pc # "deliver"
    BY <2>2, EmptySeq, Zenon DEF User, SoundCalls, Calls, PCs, OnWord
  <2>4. call[t].pc # "deliver" /\ call[t].pc # "asleep"
    BY <2>1, Zenon
  <2> HIDE DEF d
  <2> QED
    BY <1>0, <2>1, <2>3, <2>4, QuietCount, Zenon
<1>8. ASSUME NEW t \in Threads, NEW v \in Values, OpWrite(t, v)
      PROVE  WokenInv'
  <2> DEFINE d == [call[t] EXCEPT !.pc = "take"]
  <2>1. call[t].pc = "op_write" /\ call[t] \in SoundCalls /\ table' = table /\ ready' = ready /\ strays' = strays
    BY <1>1, <1>8, Zenon DEF OpWrite, At
  <2>2. d \in SoundCalls /\ d.pc # "deliver" /\ User.pc # "deliver"
    BY <2>1, Zenon DEF SoundCalls, Calls, PCs, OnWord, User
  <2>3. call' = [call EXCEPT ![t] = User] \/ call' = [call EXCEPT ![t] = d]
    BY <1>1, <1>8, Zenon DEF OpWrite, Return
  <2>4. call[t].pc # "deliver" /\ call[t].pc # "asleep"
    BY <2>1, Zenon
  <2> HIDE DEF d
  <2>5. CASE call' = [call EXCEPT ![t] = User]
    BY <1>0, <2>1, <2>2, <2>4, <2>5, UserSound, QuietCount, Zenon
  <2>6. CASE call' = [call EXCEPT ![t] = d]
    BY <1>0, <2>1, <2>2, <2>4, <2>6, QuietCount, Zenon
  <2> QED
    BY <2>3, <2>5, <2>6, Zenon
<1>9. ASSUME NEW t \in Threads, NEW w \in Words, Exit(t, w)
      PROVE  WokenInv'
  <2> DEFINE d == [User EXCEPT !.pc = "take", !.word = w, !.n = 1, !.bits = Bits, !.then = "exited"]
  <2>1. call' = [call EXCEPT ![t] = d] /\ call[t].pc = "user" /\ table' = table /\ ready' = ready /\ strays' = strays
    BY <1>9, Zenon DEF Exit, At
  <2>2. d \in SoundCalls /\ d.pc # "deliver"
    BY EmptySeq, Zenon DEF User, SoundCalls, Calls, PCs, OnWord
  <2>3. call[t].pc # "deliver" /\ call[t].pc # "asleep"
    BY <2>1, Zenon
  <2> HIDE DEF d
  <2> QED
    BY <1>0, <2>1, <2>2, <2>3, QuietCount, Zenon
<1>10. ASSUME NEW t \in Threads, WakeInside(t)
       PROVE  WokenInv'
  <2>1. call[t].pc = "take" /\ call[t] \in SoundCalls /\ Take(t, call[t].word, call[t].n, call[t].bits, call[t].then)
        /\ ready' = ready /\ strays' = strays
    BY <1>1, <1>10, Zenon DEF WakeInside, At
  <2>2. call[t].word \in Words /\ call[t].n \in Nat /\ call[t].then \in {"user", "exited"}
    BY <2>1, Zenon DEF SoundCalls, Calls, OnWord
  <2>3. call[t].pc # "deliver" /\ call[t].pc # "asleep"
    BY <2>1, Zenon
  <2> QED
    BY <1>0, <2>1, <2>2, <2>3, TakeCount, Zenon
<1>11. ASSUME NEW t \in Threads, NEW w \in Words, NEW w2 \in Words, NEW n \in Counts, NEW m \in Counts,
              Requeue(t, w, n, w2, m)
       PROVE  WokenInv'
  <2>1. n \in Nat /\ m \in Nat
    BY <1>2, Zenon
  <2> QED
    BY <1>0, <1>11, <2>1, RequeueCount, Zenon
<1>12. ASSUME UNCHANGED vars
       PROVE  WokenInv'
  <2>1. /\ table' = table /\ call' = call /\ ready' = ready /\ strays' = strays
    BY <1>12, Zenon DEF vars
  <2>2. \A u \in Threads : Queues(table', u) + Hands(call', u) + ready'[u] <= Sleeps(call'[u]) + Strays(strays', u)
    BY <2>1, Zenon DEF WokenInv
  <2> QED
    BY <1>0, <2>2, Zenon DEF WokenInv
<1> QED
  BY <1>0, <1>3, <1>4, <1>5, <1>6, <1>7, <1>8, <1>9, <1>10, <1>11, <1>12,
     PushCount, ResumeCount, GiveUpCount, DeliverCount, StrayCount, Zenon DEF Next

\* A futex wait is woken at most once: what the table, the wakers and the
\* ready queue hold for a thread never exceeds its one wait under way, and
\* for the main thread the wakes that reach it from elsewhere.
THEOREM WaitWokenOnce == Spec => []WokenOnce
<1>1. Init => WokenInv
  <2> SUFFICES ASSUME Init PROVE WokenInv
    OBVIOUS
  <2>1. /\ call = [t \in Threads |-> User] /\ table = [w \in Words |-> <<>>]
        /\ ready = [t \in Threads |-> 0] /\ strays = 0
    BY Zenon DEF Init
  <2>2. ASSUME NEW u \in Threads
        PROVE  Queues(table, u) + Hands(call, u) + ready[u] <= Sleeps(call[u]) + Strays(strays, u)
    <3>1. Pairs(Words, [w \in Words |-> Entries(table[w], u)]) = {}
      BY <2>1 DEF Pairs, Entries
    <3>2. \A t \in Threads : call[t].hand = <<>>
      BY <2>1, Zenon DEF User
    <3>3. Pairs(Threads, [t \in Threads |-> InSeq(call[t].hand, u)]) = {}
      BY <3>2 DEF Pairs, InSeq
    <3>4. Queues(table, u) = 0 /\ Hands(call, u) = 0
      BY <3>1, <3>3, FS_EmptySet, Zenon DEF Queues, Hands
    <3>5. ready[u] = 0 /\ Sleeps(call[u]) = 0 /\ Strays(strays, u) = 0
      BY <2>1, Zenon DEF Sleeps, Strays, User
    <3> QED
      BY <3>4, <3>5
  <2>3. FutexInv
    BY InitFutex, Zenon
  <2> QED
    BY <2>2, <2>3, Zenon DEF WokenInv
<1>2. WokenInv /\ [Next]_vars => WokenInv'
  BY WokenNext, Zenon
<1> QED
  BY <1>1, <1>2, WokenMeans, PTL DEF Spec

=============================================================================
