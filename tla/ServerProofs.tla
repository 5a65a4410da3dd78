---------------------------- MODULE ServerProofs ----------------------------
(***************************************************************************)
(* The connection slots, for any number of connections, of slots and any   *)
(* reset interval: proofs of the invariants of Admission under the         *)
(* specification of Server.                                                *)
(*                                                                         *)
(* Counting slots needs what the count rests on: the queue holds no        *)
(* connection twice and none that was granted a permit, both hold waiting  *)
(* connections only, and these are not active.                             *)
(***************************************************************************)
EXTENDS Server, FiniteSetTheorems, SequenceTheorems, TLAPS

-----------------------------------------------------------------------------
(* Lemmas about queues and about counting *)

\* A queue nobody is in twice.
Distinct(q) == \A i, j \in 1 .. Len(q) : q[i] = q[j] => i = j

\* Those who wait in a queue.
Members(q) == {q[i] : i \in 1 .. Len(q)}

\* Waking the first n of a queue without repetition adds n members, and leaves a queue
\* without them.
LEMMA WakeFirst ==
  ASSUME NEW q \in Seq(Conns), Distinct(q), NEW n \in 0 .. Len(q)
  PROVE  LET w == {q[i] : i \in 1 .. n}
             r == SubSeq(q, n + 1, Len(q))
         IN  /\ w \subseteq Members(q) /\ IsFiniteSet(w) /\ Cardinality(w) = n
             /\ r \in Seq(Conns) /\ Distinct(r)
             /\ Members(r) \subseteq Members(q) /\ Members(r) \cap w = {}
<1> DEFINE w == {q[i] : i \in 1 .. n}
           r == SubSeq(q, n + 1, Len(q))
           f == [i \in 1 .. n |-> q[i]]
<1>1. w \subseteq Members(q)
  BY DEF Members
<1>2. IsFiniteSet(w) /\ Cardinality(w) = n
  <2>1. f \in Bijection(1 .. n, w)
    BY DEF Bijection, Injection, Surjection, IsInjective, Distinct
  <2>2. IsFiniteSet(1 .. n) /\ Cardinality(1 .. n) = n
    BY FS_Interval
  <2>. QED  BY <2>1, <2>2, FS_Bijection DEF ExistsBijection
<1>3. /\ r \in Seq(Conns)
      /\ Len(r) = Len(q) - n
      /\ \A i \in 1 .. Len(q) - n : r[i] = q[n + i]
  <2>1. \A i \in n + 1 .. Len(q) : q[i] \in Conns
    OBVIOUS
  <2>. QED  BY <2>1, SubSeqProperties
<1>4. Distinct(r)
  BY <1>3 DEF Distinct
<1>5. Members(r) \subseteq Members(q) /\ Members(r) \cap w = {}
  <2>1. ASSUME NEW i \in 1 .. Len(r)
        PROVE  n + i \in 1 .. Len(q) /\ r[i] = q[n + i] /\ n + i \notin 1 .. n
    BY <1>3
  <2>. QED  BY <2>1 DEF Members, Distinct
<1>. QED  BY <1>1, <1>2, <1>3, <1>4, <1>5

\* Removing one member of a queue without repetition.
LEMMA RemoveOne ==
  ASSUME NEW q \in Seq(Conns), Distinct(q), NEW k \in 1 .. Len(q)
  PROVE  LET r == RemoveAt(q, k)
         IN  /\ r \in Seq(Conns) /\ Distinct(r)
             /\ Members(r) \subseteq Members(q) \ {q[k]}
<1> DEFINE s == SubSeq(q, 1, k - 1)
           t == SubSeq(q, k + 1, Len(q))
           r == RemoveAt(q, k)
<1>1. /\ s \in Seq(Conns) /\ Len(s) = k - 1
      /\ \A i \in 1 .. k - 1 : s[i] = q[i]
  <2>1. \A i \in 1 .. k - 1 : q[i] \in Conns
    OBVIOUS
  <2>. QED  BY <2>1, SubSeqProperties
<1>2. /\ t \in Seq(Conns) /\ Len(t) = Len(q) - k
      /\ \A i \in 1 .. Len(q) - k : t[i] = q[k + i]
  <2>1. \A i \in k + 1 .. Len(q) : q[i] \in Conns
    OBVIOUS
  <2>. QED  BY <2>1, SubSeqProperties
<1>3. /\ r \in Seq(Conns) /\ Len(r) = Len(q) - 1
      /\ \A i \in 1 .. Len(q) - 1 : r[i] = IF i < k THEN q[i] ELSE q[i + 1]
  <2>1. r = s \o t
    BY DEF RemoveAt
  <2>. HIDE DEF s, t, r
  <2>2. /\ r \in Seq(Conns)
        /\ Len(r) = Len(s) + Len(t)
        /\ \A i \in 1 .. Len(s) + Len(t) : r[i] = IF i <= Len(s) THEN s[i] ELSE t[i - Len(s)]
    BY <2>1, <1>1, <1>2, ConcatProperties
  <2>3. ASSUME NEW i \in 1 .. Len(q) - 1
        PROVE  r[i] = IF i < k THEN q[i] ELSE q[i + 1]
    <3>. Len(q) \in Nat
      OBVIOUS
    <3>0. i \in 1 .. Len(s) + Len(t) /\ Len(s) = k - 1
      BY <1>1, <1>2
    <3>3. r[i] = IF i <= k - 1 THEN s[i] ELSE t[i - (k - 1)]
      BY <3>0, <2>2
    <3>1. CASE i < k
      <4>1. i \in 1 .. k - 1 /\ i <= k - 1
        BY <3>1
      <4>. QED  BY <3>1, <4>1, <3>3, <1>1
    <3>2. CASE ~(i < k)
      <4>1. i - (k - 1) \in 1 .. Len(q) - k /\ k + (i - (k - 1)) = i + 1
        BY <3>2
      <4>2. r[i] = t[i - (k - 1)]
        BY <3>2, <3>3
      <4>. QED  BY <3>2, <4>1, <4>2, <1>2
    <3>. QED  BY <3>1, <3>2
  <2>. QED  BY <2>2, <2>3, <1>1, <1>2
<1>4. Distinct(r)
  <2>1. ASSUME NEW i \in 1 .. Len(r), NEW j \in 1 .. Len(r), i # j
        PROVE  r[i] # r[j]
    <3>1. /\ Len(q) \in Nat /\ k \in 1 .. Len(q) /\ i \in 1 .. Len(q) - 1 /\ j \in 1 .. Len(q) - 1
      BY <1>3
    <3>0. r[i] = (IF i < k THEN q[i] ELSE q[i + 1]) /\ r[j] = (IF j < k THEN q[j] ELSE q[j + 1])
      BY <1>3, <3>1, Zenon
    <3>. HIDE DEF r
    <3>2. PICK m \in 1 .. Len(q) : m = (IF i < k THEN i ELSE i + 1) /\ r[i] = q[m]
      BY <3>0, <3>1
    <3>3. PICK n \in 1 .. Len(q) : n = (IF j < k THEN j ELSE j + 1) /\ r[j] = q[n]
      BY <3>0, <3>1
    <3>4. m # n
      BY <2>1, <3>1, <3>2, <3>3
    <3>. QED  BY <3>2, <3>3, <3>4 DEF Distinct
  <2>. QED  BY <1>3, <2>1 DEF Distinct
<1>5. Members(r) \subseteq Members(q) \ {q[k]}
  <2>1. ASSUME NEW i \in 1 .. Len(r)
        PROVE  \E j \in 1 .. Len(q) : j # k /\ r[i] = q[j]
    <3>0. Len(q) \in Nat /\ k \in Int /\ i \in 1 .. Len(q) - 1
      BY <1>3
    <3>3. r[i] = IF i < k THEN q[i] ELSE q[i + 1]
      BY <1>3, <3>0
    <3>. HIDE DEF r
    <3>1. CASE i < k
      <4>1. i \in 1 .. Len(q) /\ i # k /\ r[i] = q[i]
        BY <3>0, <3>1, <3>3
      <4>. QED  BY <4>1
    <3>2. CASE ~(i < k)
      <4>1. i + 1 \in 1 .. Len(q) /\ i + 1 # k /\ r[i] = q[i + 1]
        <5>1. i + 1 \in 1 .. Len(q) /\ i + 1 # k
          BY <3>0, <3>2
        <5>. QED  BY <3>2, <3>3, <5>1, Zenon
      <4>. QED  BY <4>1, Zenon
    <3>. QED  BY <3>1, <3>2
  <2>. QED  BY <2>1 DEF Members, Distinct
<1>. QED  BY <1>3, <1>4, <1>5

\* What WakeUp does to the permits p, the queue q and the granted g.
LEMMA Waking ==
  ASSUME NEW p \in Nat, NEW q \in Seq(Conns), NEW g \in SUBSET Conns,
         Distinct(q), Members(q) \cap g = {}
  PROVE  LET n == IF p < Len(q) THEN p ELSE Len(q)
             r == SubSeq(q, n + 1, Len(q))
             h == g \cup {q[i] : i \in 1 .. n}
         IN  /\ p - n \in 0 .. p
             /\ r \in Seq(Conns) /\ Distinct(r)
             /\ h \subseteq Conns /\ Members(r) \cap h = {}
             /\ Members(r) \cup h \subseteq Members(q) \cup g
             /\ p - n + Cardinality(h) = p + Cardinality(g)
             /\ p - n > 0 => r = <<>>
<1> DEFINE n == IF p < Len(q) THEN p ELSE Len(q)
           w == {q[i] : i \in 1 .. n}
           r == SubSeq(q, n + 1, Len(q))
           h == g \cup w
<1>1. n \in 0 .. Len(q) /\ n <= p /\ (p - n > 0 => n = Len(q))
  OBVIOUS
<1> HIDE DEF n
<1>2. /\ w \subseteq Members(q) /\ IsFiniteSet(w) /\ Cardinality(w) = n
      /\ r \in Seq(Conns) /\ Distinct(r)
      /\ Members(r) \subseteq Members(q) /\ Members(r) \cap w = {}
  BY <1>1, WakeFirst
<1>3. Members(q) \subseteq Conns
  BY DEF Members
<1>4. Cardinality(h) = Cardinality(g) + n /\ Cardinality(g) \in Nat
  <2>1. IsFiniteSet(g) /\ Cardinality(g) \in Nat
    BY AdmissionConstants, FS_Subset, FS_CardinalityType
  <2>2. g \cap w = {} /\ h = g \cup w
    BY <1>2
  <2>3. Cardinality(h) = Cardinality(g) + Cardinality(w) - Cardinality({})
    BY <2>1, <2>2, <1>2, FS_Union
  <2>. QED  BY <2>1, <2>3, <1>1, <1>2, FS_EmptySet
<1>5. p - n > 0 => r = <<>>
  <2>1. p - n > 0 => n = Len(q)
    BY <1>1
  <2>2. ASSUME n = Len(q) PROVE r = <<>>
    <3>1. n + 1 \in Int /\ Len(q) \in Int /\ Len(q) < n + 1
      BY <2>2, <1>1
    <3>. QED  BY <3>1, SubSeqEmpty
  <2>. QED  BY <2>1, <2>2
<1>6. p - n \in 0 .. p
  BY <1>1
<1>7. p - n + Cardinality(h) = p + Cardinality(g)
  BY <1>1, <1>4
<1>. QED  BY <1>2, <1>3, <1>5, <1>6, <1>7 DEF n

-----------------------------------------------------------------------------
(* The inductive invariant *)

\* The queue and the granted are the waiting, each once.
QueueIsSound ==
  /\ Distinct(queue)
  /\ Members(queue) \cap granted = {}
  /\ Members(queue) \cup granted \subseteq {c \in Conns : at[c] = "waiting"}

\* The finalizers' types, and that they begin when their connections leave.
FinalizersHaveLeft ==
  /\ fin \in [Conns -> {"none", "reset", "clear", "done"}]
  /\ emptied \in [Conns -> BOOLEAN]
  /\ \A c \in Conns : fin[c] # "none" => at[c] = "left"

\* Those who asked for a reset, but the daemon, are finalizers that await one, each once.
Awaited(q, f) ==
  \A i \in 1 .. Len(q) :
    q[i] # Daemon =>
      /\ f[q[i]] \in {"reset", "clear"}
      /\ \A j \in 1 .. Len(q) : q[i] = q[j] => i = j

ResetsAreAwaited == Awaited(resets, fin)

SlotsInv == AdmissionTypeOK /\ QueueIsSound /\ SlotsConserved /\ NoIdleSlot /\ ActiveIsServed

IInv ==
  /\ SlotsInv /\ FinalizersHaveLeft
  /\ CacheTypeOK /\ ResetsAreAwaited /\ DaemonTracksLastReset

\* The constants of Admission, as the provers need them.
LEMMA Finite ==
  /\ MaxConnections \in Nat
  /\ \A s \in SUBSET Conns : IsFiniteSet(s) /\ Cardinality(s) \in Nat
BY AdmissionConstants, FS_Subset, FS_CardinalityType

\* The server starts with all permits free, nobody waiting and no reset.
LEMMA InitInvariant == Init => IInv
<1> SUFFICES ASSUME Init PROVE IInv
  OBVIOUS
<1> USE DEF Init, AdmissionInit, CacheInit
<1>1. AdmissionTypeOK
  BY AdmissionConstants DEF AdmissionTypeOK, Places
<1>5. FinalizersHaveLeft
  BY DEF FinalizersHaveLeft
<1>6. CacheTypeOK
  <2>1. resets \in Seq(Callers \cup {Daemon})
    BY EmptySeq
  <2>2. 0 \in 0 .. Interval
    BY CacheConstants
  <2>. QED  BY <2>1, <2>2 DEF CacheTypeOK
<1>2. QueueIsSound
  BY DEF QueueIsSound, Distinct, Members
<1>3. SlotsConserved
  BY Finite, FS_EmptySet DEF SlotsConserved
<1>4. NoIdleSlot /\ ActiveIsServed /\ ResetsAreAwaited /\ DaemonTracksLastReset
  BY DEF NoIdleSlot, ActiveIsServed, ResetsAreAwaited, Awaited, DaemonTracksLastReset
<1>. QED  BY <1>1, <1>2, <1>3, <1>4, <1>5, <1>6 DEF IInv, SlotsInv

\* A step that moves one connection to or from neither queue nor slot.
LEMMA MovesOnly ==
  ASSUME SlotsInv, NEW c \in Conns, NEW place \in Places \ {"waiting"}, Goes(c, place),
         UNCHANGED <<permits, queue, granted, active>>,
         at[c] # "waiting",
         place \in {"accepting", "serving", "closing"} <=> c \in active
  PROVE  SlotsInv'
<1> USE DEF SlotsInv, Goes
<1>1. AdmissionTypeOK'
  BY DEF AdmissionTypeOK
<1>2. QueueIsSound'
  BY DEF QueueIsSound, AdmissionTypeOK, Distinct, Members
<1>3. SlotsConserved' /\ NoIdleSlot'
  BY DEF SlotsConserved, NoIdleSlot
<1>4. ActiveIsServed'
  BY DEF ActiveIsServed, AdmissionTypeOK
<1>. QED  BY <1>1, <1>2, <1>3, <1>4

\* connect with a permit free and nobody ahead.
LEMMA AdmittedAtOnce ==
  ASSUME SlotsInv, NEW c \in Conns, ConnectAtOnce(c)
  PROVE  SlotsInv'
<1> USE DEF SlotsInv, ConnectAtOnce, Goes
<1>1. c \notin active
  BY DEF ActiveIsServed
<1>2. Cardinality(active \cup {c}) = Cardinality(active) + 1
  BY <1>1, Finite, FS_AddElement DEF AdmissionTypeOK
<1>3. AdmissionTypeOK'
  BY AdmissionConstants DEF AdmissionTypeOK, Places
<1>4. QueueIsSound'
  BY DEF QueueIsSound, Distinct, Members
<1>5. SlotsConserved'
  BY <1>2, Finite DEF SlotsConserved, AdmissionTypeOK
<1>6. NoIdleSlot' /\ ActiveIsServed'
  BY DEF NoIdleSlot, ActiveIsServed, AdmissionTypeOK
<1>. QED  BY <1>3, <1>4, <1>5, <1>6

\* connect that has to wait.
LEMMA JoinsQueue ==
  ASSUME SlotsInv, NEW c \in Conns, ConnectWaits(c)
  PROVE  SlotsInv'
<1> USE DEF SlotsInv, ConnectWaits, Goes
<1>1. /\ queue' \in Seq(Conns) /\ Len(queue') = Len(queue) + 1
      /\ \A i \in 1 .. Len(queue) : queue'[i] = queue[i]
      /\ queue'[Len(queue) + 1] = c
  BY AppendProperties DEF AdmissionTypeOK
<1>2. c \notin Members(queue) /\ c \notin granted
  BY DEF QueueIsSound
<1>3. AdmissionTypeOK'
  BY <1>1 DEF AdmissionTypeOK, Places
<1>4. Members(queue') = Members(queue) \cup {c}
  BY <1>1 DEF Members, AdmissionTypeOK
<1>5. Distinct(queue)'
  BY <1>1, <1>2 DEF Distinct, Members, QueueIsSound, AdmissionTypeOK
<1>6. QueueIsSound'
  BY <1>2, <1>4, <1>5 DEF QueueIsSound, AdmissionTypeOK, Members
<1>7. SlotsConserved' /\ ActiveIsServed'
  BY DEF SlotsConserved, ActiveIsServed, AdmissionTypeOK
<1>8. NoIdleSlot'
  BY DEF NoIdleSlot
<1>. QED  BY <1>3, <1>6, <1>7, <1>8

\* A waiter goes on, admitted or refused: the queue loses whom it loses, the rest are woken.
LEMMA WaiterGoes ==
  ASSUME SlotsInv, NEW c \in Conns, at[c] = "waiting",
         NEW place \in Places \ {"waiting"}, Goes(c, place),
         NEW p \in Nat, NEW q \in Seq(Conns), NEW g \in SUBSET Conns,
         Distinct(q), Members(q) \cap g = {},
         Members(q) \cup g \subseteq (Members(queue) \cup granted) \ {c},
         WakeUp(p, q, g),
         active' = IF place = "accepting" THEN active \cup {c} ELSE active,
         place \in {"accepting", "refused"},
         p + Cardinality(g) + Cardinality(active') = MaxConnections
  PROVE  SlotsInv'
<1> USE DEF SlotsInv, Goes
<1>1. /\ permits' \in 0 .. p
      /\ queue' \in Seq(Conns) /\ Distinct(queue')
      /\ granted' \subseteq Conns /\ Members(queue') \cap granted' = {}
      /\ Members(queue') \cup granted' \subseteq Members(q) \cup g
      /\ permits' + Cardinality(granted') = p + Cardinality(g)
      /\ permits' > 0 => queue' = <<>>
  <2> DEFINE n == IF p < Len(q) THEN p ELSE Len(q)
           r == SubSeq(q, n + 1, Len(q))
           h == g \cup {q[i] : i \in 1 .. n}
  <2>1. permits' = p - n /\ queue' = r /\ granted' = h
    BY DEF WakeUp
  <2>3. /\ p - n \in 0 .. p
        /\ r \in Seq(Conns) /\ Distinct(r)
        /\ h \subseteq Conns /\ Members(r) \cap h = {}
        /\ Members(r) \cup h \subseteq Members(q) \cup g
        /\ p - n + Cardinality(h) = p + Cardinality(g)
        /\ p - n > 0 => r = <<>>
    BY Waking
  <2> HIDE DEF n, r, h
  <2>. QED  BY <2>1, <2>3
<1>2. active' \subseteq Conns /\ at' \in [Conns -> Places]
  BY DEF AdmissionTypeOK
<1>3. p <= MaxConnections
  BY <1>2, Finite
<1>4. AdmissionTypeOK'
  BY <1>1, <1>2, <1>3, Finite DEF AdmissionTypeOK
<1>5. QueueIsSound'
  <2>1. Distinct(queue)' /\ (Members(queue) \cap granted)' = {}
    BY <1>1 DEF Distinct, Members
  <2>2. Members(queue') \cup granted' \subseteq {d \in Conns : at'[d] = "waiting"}
    BY <1>1 DEF QueueIsSound, AdmissionTypeOK
  <2>. QED  BY <2>1, <2>2 DEF QueueIsSound, Members
<1>6. SlotsConserved'
  BY <1>1, <1>2, Finite DEF SlotsConserved
<1>7. NoIdleSlot'
  BY <1>1 DEF NoIdleSlot
<1>8. ActiveIsServed'
  BY DEF ActiveIsServed, AdmissionTypeOK
<1>. QED  BY <1>4, <1>5, <1>6, <1>7, <1>8

\* A waiter uses the permit it was granted, and wakes others for what is left.
LEMMA GrantedGoesOn ==
  ASSUME SlotsInv, NEW c \in Conns, Admitted(c)
  PROVE  SlotsInv'
<1> USE DEF SlotsInv
<1>1. c \in granted /\ at[c] = "waiting" /\ c \notin active /\ c \notin Members(queue)
  BY DEF Admitted, QueueIsSound, ActiveIsServed
<1>2. /\ Cardinality(granted \ {c}) = Cardinality(granted) - 1
      /\ Cardinality(active \cup {c}) = Cardinality(active) + 1
  BY <1>1, Finite, FS_AddElement, FS_RemoveElement DEF AdmissionTypeOK
<1>3. permits + Cardinality(granted \ {c}) + Cardinality(active \cup {c}) = MaxConnections
  <2>1. /\ permits \in Nat /\ Cardinality(granted) \in Nat /\ Cardinality(active) \in Nat
        /\ permits + Cardinality(granted) + Cardinality(active) = MaxConnections
    BY Finite DEF SlotsConserved, AdmissionTypeOK
  <2>. QED  BY <1>2, <2>1
<1>4. /\ permits \in Nat /\ queue \in Seq(Conns) /\ granted \ {c} \in SUBSET Conns
      /\ Distinct(queue) /\ Members(queue) \cap (granted \ {c}) = {}
      /\ Members(queue) \cup (granted \ {c}) \subseteq (Members(queue) \cup granted) \ {c}
  BY <1>1 DEF AdmissionTypeOK, QueueIsSound
<1>5. /\ WakeUp(permits, queue, granted \ {c})
      /\ active' = active \cup {c} /\ Goes(c, "accepting")
  BY DEF Admitted
<1>. QED
  BY <1>1, <1>3, <1>4, <1>5, WaiterGoes DEF Places

\* A waiter times out before it is granted a permit.
LEMMA WaiterGivesUp ==
  ASSUME SlotsInv, NEW c \in Conns, WaitTimesOut(c)
  PROVE  SlotsInv'
<1> USE DEF SlotsInv
<1>1. PICK i \in 1 .. Len(queue) :
        queue[i] = c /\ WakeUp(permits, RemoveAt(queue, i), granted)
  BY DEF WaitTimesOut
<1>2. /\ queue \in Seq(Conns) /\ Distinct(queue) /\ granted \in SUBSET Conns
      /\ Members(queue) \cap granted = {} /\ permits \in Nat
      /\ Members(queue) \cup granted \subseteq {d \in Conns : at[d] = "waiting"}
  BY DEF AdmissionTypeOK, QueueIsSound
<1>3. c \in Members(queue) /\ c \notin granted /\ at[c] = "waiting"
  BY <1>1, <1>2 DEF Members
<1>4. /\ RemoveAt(queue, i) \in Seq(Conns) /\ Distinct(RemoveAt(queue, i))
      /\ Members(RemoveAt(queue, i)) \subseteq Members(queue) \ {c}
  BY <1>1, <1>2, RemoveOne
<1>5. active' = active /\ Goes(c, "refused")
  BY DEF WaitTimesOut
<1>6. permits + Cardinality(granted) + Cardinality(active) = MaxConnections
  BY DEF SlotsConserved
<1>. QED
  BY <1>1, <1>2, <1>3, <1>4, <1>5, <1>6, WaiterGoes DEF Places

\* A waiter times out with a permit granted: the permit goes to the next.
LEMMA GrantedGivesUp ==
  ASSUME SlotsInv, NEW c \in Conns, GrantTimesOut(c)
  PROVE  SlotsInv'
<1> USE DEF SlotsInv
<1>1. c \in granted /\ at[c] = "waiting" /\ c \notin Members(queue)
  BY DEF GrantTimesOut, QueueIsSound
<1>2. Cardinality(granted \ {c}) = Cardinality(granted) - 1
  BY <1>1, Finite, FS_RemoveElement DEF AdmissionTypeOK
<1>3. permits + 1 + Cardinality(granted \ {c}) + Cardinality(active) = MaxConnections
  <2>1. /\ permits \in Nat /\ Cardinality(granted) \in Nat /\ Cardinality(active) \in Nat
        /\ permits + Cardinality(granted) + Cardinality(active) = MaxConnections
    BY Finite DEF SlotsConserved, AdmissionTypeOK
  <2>. QED  BY <1>2, <2>1
<1>4. /\ permits + 1 \in Nat /\ queue \in Seq(Conns) /\ granted \ {c} \in SUBSET Conns
      /\ Distinct(queue) /\ Members(queue) \cap (granted \ {c}) = {}
      /\ Members(queue) \cup (granted \ {c}) \subseteq (Members(queue) \cup granted) \ {c}
  BY <1>1 DEF AdmissionTypeOK, QueueIsSound
<1>5. /\ WakeUp(permits + 1, queue, granted \ {c})
      /\ active' = active /\ Goes(c, "refused")
  BY DEF GrantTimesOut
<1>. QED
  BY <1>1, <1>3, <1>4, <1>5, WaiterGoes DEF Places

\* A connection that has a slot gives it back.
LEMMA SlotReturned ==
  ASSUME SlotsInv, NEW c \in Conns, at[c] \in {"accepting", "closing"}, Disconnect(c),
         NEW place \in {"refused", "left"}, Goes(c, place)
  PROVE  SlotsInv'
<1> USE DEF SlotsInv, Goes
<1>1. c \in active /\ active' = active \ {c} /\ Release
  BY DEF ActiveIsServed, Disconnect
<1>2. /\ permits \in Nat /\ Cardinality(granted) \in Nat /\ Cardinality(active) \in Nat
      /\ permits + Cardinality(granted) + Cardinality(active) = MaxConnections
      /\ MaxConnections \in Nat
      /\ Cardinality(active') = Cardinality(active) - 1
  BY <1>1, Finite, FS_RemoveElement DEF SlotsConserved, AdmissionTypeOK
<1>3. at' \in [Conns -> Places] /\ active' \subseteq Conns /\ ActiveIsServed'
  BY <1>1 DEF AdmissionTypeOK, Places, ActiveIsServed
<1>4. \A d \in Conns : at[d] = "waiting" <=> at'[d] = "waiting"
  BY DEF AdmissionTypeOK
<1>5. CASE queue = <<>>
  <2>1. permits' = permits + 1 /\ queue' = queue /\ granted' = granted
    BY <1>1, <1>5 DEF Release
  <2>2. SlotsConserved'
    BY <1>2, <2>1 DEF SlotsConserved
  <2>3. Cardinality(active') \in Nat
    BY <1>3, Finite
  <2>4. AdmissionTypeOK'
    BY <1>2, <1>3, <2>1, <2>3 DEF AdmissionTypeOK
  <2>5. QueueIsSound' /\ NoIdleSlot'
    BY <1>4, <1>5, <2>1 DEF QueueIsSound, NoIdleSlot, Distinct, Members
  <2>. QED  BY <1>3, <2>2, <2>4, <2>5
<1>6. CASE queue # <<>>
  <2>1. /\ permits' = permits
        /\ queue' = Tail(queue)
        /\ granted' = granted \cup {queue[1]}
    BY <1>1, <1>6 DEF Release, AdmissionTypeOK
  <2>2. /\ 1 \in 1 .. Len(queue)
        /\ queue' \in Seq(Conns) /\ Len(queue') = Len(queue) - 1
        /\ \A j \in 1 .. Len(queue') : queue'[j] = queue[j + 1] /\ j + 1 \in 1 .. Len(queue)
    <3>1. Len(queue) \in Nat /\ Len(queue) > 0
      BY <1>6, EmptySeq DEF AdmissionTypeOK
    <3>. QED  BY <2>1, <1>6, <3>1, HeadTailProperties DEF AdmissionTypeOK
  <2>3. queue[1] \in Members(queue) /\ queue[1] \notin granted /\ queue[1] \in Conns
    BY <2>2 DEF Members, QueueIsSound, AdmissionTypeOK
  <2>4. Members(queue') \subseteq Members(queue) \ {queue[1]}
    <3>1. \A j \in 1 .. Len(queue') : queue'[j] \in Members(queue) /\ queue'[j] # queue[1]
      BY <2>2 DEF Members, QueueIsSound, Distinct
    <3>. QED  BY <3>1 DEF Members
  <2>5. Distinct(queue)'
    BY <2>2 DEF Distinct, QueueIsSound
  <2>6. QueueIsSound'
    BY <1>4, <2>1, <2>3, <2>4, <2>5 DEF QueueIsSound, Members
  <2>7. Cardinality(granted') = Cardinality(granted) + 1
    BY <2>1, <2>3, Finite, FS_AddElement DEF AdmissionTypeOK
  <2>8. SlotsConserved'
    BY <1>2, <2>1, <2>7 DEF SlotsConserved
  <2>9. AdmissionTypeOK' /\ NoIdleSlot'
    BY <1>3, <2>1, <2>2, <2>3 DEF AdmissionTypeOK, NoIdleSlot
  <2>. QED  BY <1>3, <2>6, <2>8, <2>9
<1>. QED  BY <1>5, <1>6

\* A step that leaves the slots alone.
LEMMA SlotsUntouched ==
  ASSUME SlotsInv, UNCHANGED admissionVars
  PROVE  SlotsInv'
BY DEF SlotsInv, admissionVars, AdmissionTypeOK, QueueIsSound, Distinct, Members,
       SlotsConserved, NoIdleSlot, ActiveIsServed

\* A handler's step while its finalizer has not begun.
LEMMA HandleKeeps ==
  ASSUME IInv, NEW c \in Conns, HandlerStep(c)
  PROVE  IInv'
<1> USE DEF IInv
<1>1. UNCHANGED <<fin, emptied, resets, age, event, daemon, timer>>
  BY DEF HandlerStep, serverVars, cacheVars
<1>2. at[c] # "left" /\ \E place \in Places : at' = [at EXCEPT ![c] = place]
  <2>1. c \in granted \/ c \in Members(queue) => at[c] = "waiting"
    BY DEF SlotsInv, QueueIsSound
  <2>2. at[c] # "left"
    BY <2>1 DEF HandlerStep, Handle, AuthFails, ConnectAtOnce, ConnectWaits, Admitted,
       WaitTimesOut, GrantTimesOut, Accepted, AcceptFails, LoopEnds, Members
  <2>3. \E place \in Places : at' = [at EXCEPT ![c] = place]
    BY DEF HandlerStep, Handle, AuthFails, ConnectAtOnce, ConnectWaits, Admitted,
       WaitTimesOut, GrantTimesOut, Accepted, AcceptFails, LoopEnds, Goes, Places
  <2>. QED  BY <2>2, <2>3
<1>3. FinalizersHaveLeft'
  BY <1>1, <1>2 DEF FinalizersHaveLeft, SlotsInv, AdmissionTypeOK
<1>5. CacheTypeOK' /\ ResetsAreAwaited' /\ DaemonTracksLastReset'
  BY <1>1 DEF CacheTypeOK, ResetsAreAwaited, Awaited, DaemonTracksLastReset
<1>4. SlotsInv'
  <2>1. CASE AuthFails(c)
    BY <2>1, MovesOnly DEF AuthFails, Places, SlotsInv, ActiveIsServed
  <2>2. CASE ConnectAtOnce(c)
    BY <2>2, AdmittedAtOnce
  <2>3. CASE ConnectWaits(c)
    BY <2>3, JoinsQueue
  <2>4. CASE Admitted(c)
    BY <2>4, GrantedGoesOn
  <2>5. CASE WaitTimesOut(c)
    BY <2>5, WaiterGivesUp
  <2>6. CASE GrantTimesOut(c)
    BY <2>6, GrantedGivesUp
  <2>7. CASE Accepted(c)
    BY <2>7, MovesOnly DEF Accepted, Places, SlotsInv, ActiveIsServed
  <2>8. CASE AcceptFails(c)
    BY <2>8, SlotReturned DEF AcceptFails
  <2>9. CASE LoopEnds(c)
    BY <2>9, MovesOnly DEF LoopEnds, Places, SlotsInv, ActiveIsServed
  <2>. QED
    BY <2>1, <2>2, <2>3, <2>4, <2>5, <2>6, <2>7, <2>8, <2>9 DEF HandlerStep, Handle
<1>. QED  BY <1>3, <1>4, <1>5

\* Asking for a reset, by the daemon or by a finalizer that has not asked.
LEMMA RequestAwaited ==
  ASSUME NEW q \in Seq(Callers \cup {Daemon}), NEW p \in Callers \cup {Daemon}, NEW f, NEW g,
         Awaited(q, f),
         \A i \in 1 .. Len(q) : q[i] # Daemon => g[q[i]] = f[q[i]],
         p # Daemon => g[p] \in {"reset", "clear"} /\ \A i \in 1 .. Len(q) : q[i] # p
  PROVE  Append(q, p) \in Seq(Callers \cup {Daemon}) /\ Awaited(Append(q, p), g)
<1> DEFINE r == Append(q, p)
<1>1. /\ r \in Seq(Callers \cup {Daemon}) /\ Len(r) = Len(q) + 1
      /\ \A i \in 1 .. Len(q) : r[i] = q[i]
      /\ r[Len(q) + 1] = p
  BY AppendProperties
<1> HIDE DEF r
<1>2. Awaited(r, g)
  BY <1>1 DEF Awaited
<1>. QED  BY <1>1, <1>2 DEF r

\* The first of a queue of resets is done.
LEMMA TailAwaited ==
  ASSUME NEW q \in Seq(Callers \cup {Daemon}), q # <<>>, NEW f, NEW g, Awaited(q, f),
         \A i \in 2 .. Len(q) : q[i] # Daemon => g[q[i]] = f[q[i]]
  PROVE  Tail(q) \in Seq(Callers \cup {Daemon}) /\ Awaited(Tail(q), g)
<1> DEFINE r == Tail(q)
<1>1. /\ r \in Seq(Callers \cup {Daemon}) /\ Len(r) = Len(q) - 1
      /\ \A i \in 1 .. Len(r) : r[i] = q[i + 1] /\ i + 1 \in 2 .. Len(q)
  BY HeadTailProperties
<1> HIDE DEF r
<1>2. Awaited(r, g)
  BY <1>1 DEF Awaited
<1>. QED  BY <1>1, <1>2 DEF r

\* A connection that awaits no reset is not in the queue of resets.
LEMMA NotAwaiting ==
  ASSUME ResetsAreAwaited, NEW c \in Conns, fin[c] \notin {"reset", "clear"}
  PROVE  \A i \in 1 .. Len(resets) : resets[i] # c
BY CacheConstants, CallersAreConnections DEF ResetsAreAwaited, Awaited

\* Where a finalizer goes after disconnect.
LEMMA FinalizeKeeps ==
  ASSUME IInv, NEW c \in Conns, Finalize(c)
  PROVE  IInv'
<1> USE DEF IInv
<1>1. SlotsInv'
  BY SlotReturned DEF Finalize, Leave
<1>2. at' = [at EXCEPT ![c] = "left"] /\ at[c] = "closing"
  BY DEF Finalize, Leave, Goes
<1>3. fin[c] = "none"
  BY <1>2 DEF FinalizersHaveLeft
<1>4. \A i \in 1 .. Len(resets) : resets[i] # c
  BY <1>3, NotAwaiting
<1>5. \E f \in {"reset", "clear", "done"} :
        /\ fin' = [fin EXCEPT ![c] = f]
        /\ IF f = "done" THEN UNCHANGED cacheVars
           ELSE Request(c) /\ UNCHANGED <<age, event, daemon, timer>>
  BY DEF Finalize
<1>6. emptied' \in [Conns -> BOOLEAN]
  BY DEF Finalize, FinalizersHaveLeft
<1>7. FinalizersHaveLeft'
  BY <1>2, <1>5, <1>6 DEF FinalizersHaveLeft, SlotsInv, AdmissionTypeOK
<1>8. resets' \in Seq(Callers \cup {Daemon}) /\ ResetsAreAwaited'
  <2>1. resets \in Seq(Callers \cup {Daemon}) /\ c \in Callers /\ c # Daemon
    BY CacheConstants, CallersAreConnections DEF CacheTypeOK
  <2>2. \A i \in 1 .. Len(resets) : fin'[resets[i]] = fin[resets[i]]
    BY <1>4, <1>5 DEF FinalizersHaveLeft
  <2>3. CASE UNCHANGED cacheVars
    BY <2>1, <2>2, <2>3 DEF cacheVars, ResetsAreAwaited, Awaited
  <2>4. CASE ~ UNCHANGED cacheVars
    <3>1. resets' = Append(resets, c) /\ fin'[c] \in {"reset", "clear"}
      BY <1>5, <2>4 DEF Request, FinalizersHaveLeft
    <3>. QED  BY <1>4, <2>1, <2>2, <3>1, RequestAwaited DEF ResetsAreAwaited
  <2>. QED  BY <2>3, <2>4
<1>9. CacheTypeOK' /\ DaemonTracksLastReset'
  BY <1>5, <1>8 DEF CacheTypeOK, DaemonTracksLastReset, cacheVars
<1>. QED  BY <1>1, <1>7, <1>8, <1>9

\* A name is used again only when nothing of the former connection is left.
LEMMA ArriveKeeps ==
  ASSUME IInv, NEW c \in Conns, Arrive(c)
  PROVE  IInv'
<1> USE DEF IInv
<1>1. at[c] \in {"refused", "left"} /\ fin[c] \in {"none", "done"}
  BY DEF Arrive, FinalizersHaveLeft
<1>2. SlotsInv'
  BY <1>1, MovesOnly DEF Arrive, Places, SlotsInv, ActiveIsServed
<1>3. FinalizersHaveLeft'
  BY DEF Arrive, Goes, FinalizersHaveLeft, SlotsInv, AdmissionTypeOK
<1>4. \A i \in 1 .. Len(resets) : resets[i] # c
  BY <1>1, NotAwaiting
<1>5. CacheTypeOK' /\ ResetsAreAwaited' /\ DaemonTracksLastReset'
  BY <1>4 DEF Arrive, cacheVars, CacheTypeOK, ResetsAreAwaited, Awaited,
     DaemonTracksLastReset, FinalizersHaveLeft
<1>. QED  BY <1>2, <1>3, <1>5

\* The end of a forced reset, with or without a second one to follow.
LEMMA ResetDoneKeeps ==
  ASSUME IInv, NEW c \in Conns, ResetDone(c)
  PROVE  IInv'
<1> USE DEF IInv
<1>1. resets \in Seq(Callers \cup {Daemon}) /\ resets # <<>> /\ c \in Callers /\ c # Daemon
  BY CacheConstants, CallersAreConnections DEF CacheTypeOK, ResetDone
<1>2. 1 \in 1 .. Len(resets) /\ resets[1] = c
  BY <1>1, EmptySeq DEF ResetDone
<1>3. fin[c] \in {"reset", "clear"} /\ \A i \in 2 .. Len(resets) : resets[i] # c
  BY <1>1, <1>2 DEF ResetsAreAwaited, Awaited
<1>4. \E f \in {"clear", "done"} :
        /\ fin' = [fin EXCEPT ![c] = f]
        /\ ForcedResetDone(IF f = "clear" THEN <<c>> ELSE <<>>)
  BY DEF ResetDone
<1>5. SlotsInv'
  BY SlotsUntouched DEF ResetDone
<1>6. FinalizersHaveLeft'
  BY <1>3, <1>4 DEF ResetDone, FinalizersHaveLeft, admissionVars
<1>7. \A i \in 2 .. Len(resets) : fin'[resets[i]] = fin[resets[i]]
  BY <1>3, <1>4 DEF FinalizersHaveLeft
<1>8. Tail(resets) \in Seq(Callers \cup {Daemon}) /\ Awaited(Tail(resets), fin')
  BY <1>1, <1>7, TailAwaited DEF ResetsAreAwaited
<1>9. resets' \in Seq(Callers \cup {Daemon}) /\ ResetsAreAwaited'
  <2>1. CASE resets' = Tail(resets) \o <<>>
    BY <1>8, <2>1, ConcatEmptySeq DEF ResetsAreAwaited
  <2>2. CASE resets' = Tail(resets) \o <<c>> /\ fin'[c] = "clear"
    <3>1. resets' = Append(Tail(resets), c)
      BY <1>8, <2>2, <1>1, AppendIsConcat
    <3>2. \A i \in 1 .. Len(Tail(resets)) : Tail(resets)[i] # c
      BY <1>1, <1>3, HeadTailProperties
    <3>. QED  BY <1>1, <1>8, <2>2, <3>1, <3>2, RequestAwaited DEF ResetsAreAwaited
  <2>. QED  BY <1>4, <2>1, <2>2 DEF ForcedResetDone, FinalizersHaveLeft
<1>10. CacheTypeOK' /\ DaemonTracksLastReset'
  BY <1>4, <1>9, CacheConstants DEF ForcedResetDone, CacheTypeOK, DaemonTracksLastReset
<1>. QED  BY <1>5, <1>6, <1>9, <1>10

\* The daemon's loop from its top.
LEMMA DaemonLoopsKeeps ==
  ASSUME IInv, DaemonLoops
  PROVE  /\ CacheTypeOK' /\ DaemonTracksLastReset'
         /\ fin' = fin => ResetsAreAwaited'
<1> USE DEF IInv
<1>1. /\ resets \in Seq(Callers \cup {Daemon})
      /\ event' = FALSE /\ age' = age /\ age \in 0 .. Interval /\ Interval \in Nat
  BY CacheConstants DEF DaemonLoops, CacheTypeOK
<1>2. CASE age = Interval
  <2>1. daemon' = "resetting" /\ resets' = Append(resets, Daemon) /\ timer' = timer
    BY <1>2 DEF DaemonLoops, Request
  <2>2. resets' \in Seq(Callers \cup {Daemon}) /\ (fin' = fin => ResetsAreAwaited')
    BY <1>1, <2>1, RequestAwaited DEF ResetsAreAwaited
  <2>. QED  BY <1>1, <2>1, <2>2 DEF CacheTypeOK, DaemonTracksLastReset
<1>3. CASE age # Interval
  <2>1. daemon' = "waiting" /\ timer' = Interval - age /\ resets' = resets
    BY <1>3 DEF DaemonLoops
  <2>2. timer' \in 0 .. Interval
    BY <1>1, <2>1
  <2>3. CacheTypeOK' /\ DaemonTracksLastReset'
    BY <1>1, <2>1, <2>2 DEF CacheTypeOK, DaemonTracksLastReset
  <2>4. fin' = fin => ResetsAreAwaited'
    BY <2>1 DEF ResetsAreAwaited, Awaited
  <2>. QED  BY <2>3, <2>4
<1>. QED  BY <1>2, <1>3

\* The steps of the cache reset daemon.
LEMMA DaemonKeeps ==
  ASSUME IInv, DaemonStep, UNCHANGED <<admissionVars, serverVars>>
  PROVE  IInv'
<1> USE DEF IInv
<1>1. SlotsInv' /\ FinalizersHaveLeft' /\ fin' = fin
  BY SlotsUntouched DEF serverVars, admissionVars, FinalizersHaveLeft
<1>2. CASE DaemonStarts \/ DaemonWoken
  BY <1>1, <1>2, DaemonLoopsKeeps DEF DaemonStarts, DaemonWoken
<1>3. CASE TimerFires
  <2>1. resets' \in Seq(Callers \cup {Daemon}) /\ ResetsAreAwaited'
    BY <1>1, <1>3, RequestAwaited DEF TimerFires, Request, CacheTypeOK, ResetsAreAwaited
  <2>. QED  BY <1>1, <1>3, <2>1 DEF TimerFires, CacheTypeOK, DaemonTracksLastReset
<1>4. CASE TimerResetDone
  <2>1. resets' \in Seq(Callers \cup {Daemon}) /\ ResetsAreAwaited'
    BY <1>1, <1>4, TailAwaited DEF TimerResetDone, CacheTypeOK, ResetsAreAwaited
  <2>2. 0 \in 0 .. Interval /\ Interval \in 0 .. Interval /\ Interval - 0 = Interval
    BY CacheConstants
  <2>3. CacheTypeOK' /\ DaemonTracksLastReset'
    BY <1>4, <2>1, <2>2 DEF TimerResetDone, CacheTypeOK, DaemonTracksLastReset
  <2>. QED  BY <1>1, <2>1, <2>3
<1>. QED  BY <1>2, <1>3, <1>4 DEF DaemonStep

\* Time passes: age grows exactly as the timer of the waiting daemon shrinks.
LEMMA TickKeeps ==
  ASSUME IInv, Tick, UNCHANGED <<admissionVars, serverVars>>
  PROVE  IInv'
<1> USE DEF IInv
<1>1. SlotsInv' /\ FinalizersHaveLeft'
  BY SlotsUntouched DEF serverVars, admissionVars, FinalizersHaveLeft
<1>2. ResetsAreAwaited'
  BY DEF Tick, serverVars, ResetsAreAwaited, Awaited
<1>3. CacheTypeOK' /\ DaemonTracksLastReset'
  BY CacheConstants DEF Tick, CacheTypeOK, DaemonTracksLastReset
<1>. QED  BY <1>1, <1>2, <1>3

-----------------------------------------------------------------------------
(* The theorems *)

\* Every step keeps the invariant.
LEMMA NextInvariant == IInv /\ [Next]_vars => IInv'
<1> SUFFICES ASSUME IInv, [Next]_vars PROVE IInv'
  OBVIOUS
<1>1. CASE \E c \in Conns : Arrive(c) \/ HandlerStep(c) \/ Finalize(c) \/ ResetDone(c)
  BY <1>1, ArriveKeeps, HandleKeeps, FinalizeKeeps, ResetDoneKeeps
<1>2. CASE DaemonStep /\ UNCHANGED <<admissionVars, serverVars>>
  BY <1>2, DaemonKeeps
<1>3. CASE Tick /\ UNCHANGED <<admissionVars, serverVars>>
  BY <1>3, TickKeeps
<1>4. CASE UNCHANGED vars
  BY <1>4, SlotsUntouched DEF vars, serverVars, cacheVars, admissionVars, IInv, CacheTypeOK,
     FinalizersHaveLeft, ResetsAreAwaited, Awaited, DaemonTracksLastReset
<1>. QED  BY <1>1, <1>2, <1>3, <1>4 DEF Next

\* The invariant holds in every state of every behaviour.
LEMMA Invariance == Spec => []IInv
BY InitInvariant, NextInvariant, PTL DEF Spec

\* Type correctness of the server: handlers, slots, queue, daemon and finalizers.
THEOREM TypeCorrect == Spec => []TypeOK
<1>1. IInv => TypeOK
  BY DEF IInv, SlotsInv, FinalizersHaveLeft, TypeOK
<1>. QED  BY <1>1, Invariance, PTL

\* Whatever times out, fails or leaves, in whatever order: free permits, permits under way
\* to a waiter and active connections add up to MAX_CONCURRENT_CONNECTIONS.
THEOREM SlotsAreConserved == Spec => []SlotsConserved
<1>1. IInv => SlotsConserved
  BY DEF IInv, SlotsInv
<1>. QED  BY <1>1, Invariance, PTL

\* No connection waits for a slot while one is free that nobody is bringing to it.
THEOREM NoWakeUpIsLost == Spec => []NoIdleSlot
<1>1. IInv => NoIdleSlot
  BY DEF IInv, SlotsInv
<1>. QED  BY <1>1, Invariance, PTL

\* The connections that hold a slot are those between admission and teardown.
THEOREM SlotsAreHeldByTheServed == Spec => []ActiveIsServed
<1>1. IInv => ActiveIsServed
  BY DEF IInv, SlotsInv
<1>. QED  BY <1>1, Invariance, PTL

\* No reset forced by a finalizer leaves the daemon asleep with a wrong deadline.
THEOREM DaemonDeadlineIsRight == Spec => []DaemonTracksLastReset
<1>1. IInv => DaemonTracksLastReset
  BY DEF IInv
<1>. QED  BY <1>1, Invariance, PTL

=============================================================================
