------------------------- MODULE HostThreads_proofs -------------------------
(***************************************************************************)
(* What is proved about the requests that host threads serve: of a unit's  *)
(* dummy message, the holders of its packets, the limit on its commands,   *)
(* and that no request is forgotten, for any number of units, packets,     *)
(* commands and resets and any limit; and of uaehf.device: the lock of its *)
(* threads, and what a request comes back with, for any number of threads  *)
(* and requests and any table.                                             *)
(***************************************************************************)
EXTENDS ExterInt, HardfileIO, FiniteSetTheorems, SequenceTheorems, WellFoundedInduction, TLAPS

-----------------------------------------------------------------------------
(* How often a message is in a sequence.                                   *)

Places(s, m) == {i \in 1..Len(s) : s[i] = m}

LEMMA TimesIs ==
  ASSUME NEW S, NEW s \in Seq(S), NEW m
  PROVE  /\ Times(s, m) = Cardinality(Places(s, m)) /\ IsFiniteSet(Places(s, m))
         /\ Times(s, m) \in Nat
  <1>1. Len(s) \in Nat
    BY LenProperties
  <1>2. IsFiniteSet(1..Len(s))
    BY <1>1, FS_Interval
  <1>3. Places(s, m) \in SUBSET (1..Len(s))
    BY DEF Places
  <1>4. IsFiniteSet(Places(s, m))
    BY <1>2, <1>3, FS_Subset
  <1>5. Cardinality(Places(s, m)) \in Nat
    BY <1>4, FS_CardinalityType
  <1>6. Times(s, m) = Cardinality(Places(s, m))
    BY DEF Times, Places
  <1> QED
    BY <1>4, <1>5, <1>6

LEMMA TimesIn ==
  ASSUME NEW S, NEW s \in Seq(S), NEW m
  PROVE  (Times(s, m) > 0) <=> \E i \in 1..Len(s) : s[i] = m
  <1>1. Times(s, m) = 0 <=> Places(s, m) = {}
    BY TimesIs, FS_EmptySet
  <1>2. Places(s, m) = {} <=> ~\E i \in 1..Len(s) : s[i] = m
    BY DEF Places
  <1>3. Times(s, m) \in Nat
    BY TimesIs
  <1> QED
    BY <1>1, <1>2, <1>3, SMT

LEMMA TimesNone ==
  ASSUME NEW m PROVE Times(<<>>, m) = 0
  <1>1. Places(<<>>, m) = {}
    BY DEF Places
  <1>2. Times(<<>>, m) = Cardinality({})
    BY <1>1 DEF Times, Places
  <1> QED
    BY <1>2, FS_EmptySet

LEMMA TimesOne ==
  ASSUME NEW x, NEW m PROVE Times(<<x>>, m) = IF x = m THEN 1 ELSE 0
  <1>1. Times(<<x>>, m) = Cardinality({i \in 1..1 : x = m})
    BY DEF Times
  <1>2. {i \in 1..1 : x = m} = IF x = m THEN {1} ELSE {}
    OBVIOUS
  <1>3. Cardinality({1}) = 1 /\ Cardinality({}) = 0
    BY FS_Singleton, FS_EmptySet
  <1> QED
    BY <1>1, <1>2, <1>3

LEMMA TimesConcat ==
  ASSUME NEW S, NEW a \in Seq(S), NEW b \in Seq(S), NEW m
  PROVE  Times(a \o b, m) = Times(a, m) + Times(b, m)
  <1> DEFINE n == Len(a)
             A == Places(a, m)
             B == Places(b, m)
             C == Places(a \o b, m)
             D == {i \in (n + 1)..(n + Len(b)) : b[i - n] = m}
             f == [i \in B |-> i + n]
  <1>1. n \in Nat /\ Len(b) \in Nat
    BY LenProperties
  <1>2. /\ a \o b \in Seq(S) /\ Len(a \o b) = n + Len(b)
        /\ \A i \in 1..(n + Len(b)) : (a \o b)[i] = IF i <= n THEN a[i] ELSE b[i - n]
    BY ConcatProperties, Zenon
  <1>3. C = A \cup D
    <2> SUFFICES ASSUME NEW i PROVE i \in C <=> i \in A \cup D
      OBVIOUS
    <2>1. i \in C <=> i \in 1..(n + Len(b)) /\ (a \o b)[i] = m
      BY <1>2 DEF Places
    <2>2. CASE i \in 1..(n + Len(b)) /\ i <= n
      BY <1>1, <1>2, <2>1, <2>2 DEF Places
    <2>3. CASE i \in 1..(n + Len(b)) /\ ~(i <= n)
      BY <1>1, <1>2, <2>1, <2>3 DEF Places
    <2>4. CASE i \notin 1..(n + Len(b))
      BY <1>1, <2>1, <2>4 DEF Places
    <2> QED
      BY <2>2, <2>3, <2>4
  <1>4. A \cap D = {}
    BY <1>1 DEF Places
  <1>5. f \in Bijection(B, D)
    <2>1. \A i \in B : f[i] \in D
      BY <1>1 DEF Places
    <2>2. \A i, k \in B : f[i] = f[k] => i = k
      BY <1>1 DEF Places
    <2>3. \A d \in D : d - n \in B /\ f[d - n] = d
      BY <1>1 DEF Places
    <2> HIDE DEF f, B, D
    <2>4. f \in [B -> D]
      BY <2>1 DEF f
    <2> QED
      BY <2>2, <2>3, <2>4 DEF Bijection, Injection, Surjection, IsInjective
  <1> HIDE DEF A, B, C, D, f, n
  <1>6. IsFiniteSet(A) /\ IsFiniteSet(B) /\ Cardinality(A) = Times(a, m) /\ Cardinality(B) = Times(b, m)
    BY TimesIs DEF A, B
  <1>7. IsFiniteSet(D) /\ Cardinality(D) = Cardinality(B)
    <2>1. ExistsBijection(B, D)
      BY <1>5 DEF ExistsBijection
    <2> QED
      BY <1>6, <2>1, FS_Bijection
  <1>8. Cardinality(A \cup D) = Cardinality(A) + Cardinality(D) - Cardinality({})
    BY <1>4, <1>6, <1>7, FS_Union
  <1>9. Times(a \o b, m) = Cardinality(C)
    BY <1>2, TimesIs DEF C
  <1>10. Cardinality({}) = 0 /\ Times(a, m) \in Nat /\ Times(b, m) \in Nat
    BY FS_EmptySet, TimesIs
  <1> QED
    BY <1>3, <1>6, <1>7, <1>8, <1>9, <1>10

LEMMA TimesAppend ==
  ASSUME NEW S, NEW s \in Seq(S), NEW x \in S, NEW m
  PROVE  /\ Append(s, x) \in Seq(S)
         /\ x = m => Times(Append(s, x), m) = Times(s, m) + 1
         /\ x # m => Times(Append(s, x), m) = Times(s, m)
  <1>1. <<x>> \in Seq(S) /\ Append(s, x) = s \o <<x>> /\ Append(s, x) \in Seq(S)
    BY AppendIsConcat, AppendProperties
  <1>2. Times(s \o <<x>>, m) = Times(s, m) + Times(<<x>>, m)
    BY <1>1, TimesConcat
  <1>3. Times(<<x>>, m) = IF x = m THEN 1 ELSE 0
    BY TimesOne, Zenon
  <1>4. Times(s, m) \in Nat
    BY TimesIs
  <1> QED
    BY <1>1, <1>2, <1>3, <1>4, SMT

LEMMA AppendMore ==
  ASSUME NEW S, NEW s \in Seq(S), NEW x \in S
  PROVE  Times(Append(s, x), x) = Times(s, x) + 1
  BY TimesAppend, Zenon

LEMMA AppendSame ==
  ASSUME NEW S, NEW s \in Seq(S), NEW x \in S, NEW m, x # m
  PROVE  Times(Append(s, x), m) = Times(s, m)
  BY TimesAppend, Zenon

LEMMA TimesPrepend ==
  ASSUME NEW S, NEW s \in Seq(S), NEW x \in S, NEW m
  PROVE  /\ <<x>> \o s \in Seq(S)
         /\ Times(<<x>> \o s, m) = (IF x = m THEN 1 ELSE 0) + Times(s, m)
  <1>1. <<x>> \in Seq(S)
    OBVIOUS
  <1>2. <<x>> \o s \in Seq(S)
    BY <1>1, ConcatProperties
  <1>3. Times(<<x>> \o s, m) = Times(<<x>>, m) + Times(s, m)
    BY <1>1, TimesConcat
  <1> QED
    BY <1>2, <1>3, TimesOne, Zenon

LEMMA TimesTail ==
  ASSUME NEW S, NEW s \in Seq(S), s # <<>>, NEW m
  PROVE  /\ Tail(s) \in Seq(S) /\ Head(s) \in S
         /\ Times(s, m) = (IF Head(s) = m THEN 1 ELSE 0) + Times(Tail(s), m)
  <1>1. Tail(s) \in Seq(S) /\ Head(s) \in S
    BY HeadTailProperties
  <1>2. s = <<Head(s)>> \o Tail(s)
    <2>1. Len(s) \in Nat /\ Len(s) # 0
      BY LenProperties, EmptySeq
    <2>2. SubSeq(s, 1, Len(s)) = <<s[1]>> \o SubSeq(s, 1 + 1, Len(s))
      BY <2>1, SubSeqRecursiveFirst
    <2> QED
      BY <2>2, SubSeqFull, TailIsSubSeq
  <1>3. Times(<<Head(s)>> \o Tail(s), m) = Times(<<Head(s)>>, m) + Times(Tail(s), m)
    <2>1. <<Head(s)>> \in Seq(S)
      BY <1>1
    <2> QED
      BY <1>1, <2>1, TimesConcat
  <1>4. Times(<<Head(s)>>, m) = IF Head(s) = m THEN 1 ELSE 0
    BY TimesOne, Zenon
  <1> QED
    BY <1>1, <1>2, <1>3, <1>4, Zenon

LEMMA TimesRemove ==
  ASSUME NEW S, NEW s \in Seq(S), NEW i \in 1..Len(s), NEW m
  PROVE  /\ RemoveAt(s, i) \in Seq(S)
         /\ Times(s, m) = (IF s[i] = m THEN 1 ELSE 0) + Times(RemoveAt(s, i), m)
  <1> DEFINE a == SubSeq(s, 1, i - 1)
             b == SubSeq(s, i + 1, Len(s))
  <1>1. Len(s) \in Nat /\ \A k \in 1..Len(s) : s[k] \in S
    BY LenProperties, ElementOfSeq
  <1>2. a \in Seq(S) /\ b \in Seq(S)
    BY <1>1, SubSeqProperties
  <1>3. RemoveAt(s, i) = a \o b
    BY DEF RemoveAt
  <1>4. SubSeq(s, 1, i) = a \o <<s[i]>>
    BY <1>1, SubSeqRecursiveSecond
  <1>5. s = SubSeq(s, 1, i) \o b
    <2>1. SubSeq(s, 1, i) \o SubSeq(s, i + 1, Len(s)) = SubSeq(s, 1, Len(s))
      BY <1>1, ConcatAdjacentSubSeq
    <2> QED
      BY <2>1, SubSeqFull
  <1> HIDE DEF a, b
  <1>6. <<s[i]>> \in Seq(S)
    BY <1>1
  <1>7. Times(a \o b, m) = Times(a, m) + Times(b, m) /\ a \o b \in Seq(S)
    BY <1>2, TimesConcat, ConcatProperties
  <1>8. a \o <<s[i]>> \in Seq(S)
    BY <1>2, <1>6, ConcatProperties
  <1>9. Times(s, m) = Times(a \o <<s[i]>>, m) + Times(b, m)
    <2>1. Times((a \o <<s[i]>>) \o b, m) = Times(a \o <<s[i]>>, m) + Times(b, m)
      BY <1>2, <1>8, TimesConcat, Zenon
    <2>2. s = (a \o <<s[i]>>) \o b
      BY <1>4, <1>5, Zenon
    <2> QED
      BY <2>1, <2>2, Zenon
  <1>10. Times(a \o <<s[i]>>, m) = Times(a, m) + IF s[i] = m THEN 1 ELSE 0
    <2>1. Times(a \o <<s[i]>>, m) = Times(a, m) + Times(<<s[i]>>, m)
      BY <1>2, <1>6, TimesConcat, Zenon
    <2>2. Times(<<s[i]>>, m) = IF s[i] = m THEN 1 ELSE 0
      BY TimesOne, Zenon
    <2> QED
      BY <2>1, <2>2, Zenon
  <1>11. Times(a, m) \in Nat /\ Times(b, m) \in Nat
    BY <1>2, TimesIs
  <1> QED
    BY <1>3, <1>7, <1>9, <1>10, <1>11

-----------------------------------------------------------------------------
(* The inductive invariant of the host's requests.                         *)

One(b) == IF b THEN 1 ELSE 0

\* The thread has a packet that it has not marked; the task has handed one over, still in port.
InHand(u) == thpc[u] \in {"handle", "free", "mark"}
InTransit(u, p) == tpc[u] = "hand" /\ Head(port[u]) = p
HandedSet(u) == {p \in Packets : status[u][p] = "handed"}
StartedSet(u) == {p \in Packets : Times(queue[u], p) > 0 /\ status[u][p] # "unstarted"}
Load(u) == Len(unit_pipe[u]) + Cardinality(waitingrecords[u]) + One(InHand(u))

\* What a packet's status says of the places it is in.
PacketInv(u, p) ==
  /\ Times(port[u], p) + Times(queue[u], p) + One(p \in replied[u]) = One(p <= sends[u])
  /\ Held(u, p) = One(status[u][p] = "handed")
  /\ sends[u] < p => status[u][p] = "new"
  /\ p \in replied[u] => status[u][p] \in {"done", "timeout"}
  /\ Times(queue[u], p) > 0 => status[u][p] # "new"
  /\ Times(port[u], p) > 0 /\ ~InTransit(u, p) => status[u][p] = "new"
  /\ InTransit(u, p) => status[u][p] \in {"handed", "done", "timeout"}

\* d5 counts what has been started; the thread has what is handed.
TaskInv(u) ==
  /\ tpc[u] = "hand" => port[u] # <<>> /\ Head(port[u]) # Dummy
  /\ d5[u] = Cardinality(StartedSet(u)) /\ d5[u] + One(tpc[u] = "hand") <= MaxStarted
ThreadInv(u) ==
  /\ InHand(u) => pck[u] \in Packets
  /\ Load(u) = Cardinality(HandedSet(u))

UnitInv(u) == TaskInv(u) /\ ThreadInv(u) /\ \A p \in Packets : PacketInv(u, p)

\* Every native command is in the pipe, with exter_task or performed.
NativeInv == written = done + Len(native2amiga_pending) + One(expc = "native")

\* A reset leaves nothing that is owed.
ResetInv ==
  resetting =>
    /\ asked = 0
    /\ \A u \in Units : /\ unit_pipe[u] = <<>> /\ thpc[u] = "read" /\ waitingrecords[u] = {}
                        /\ \A p \in Packets : status[u][p] = "new"

DummyInv(u) == DummiesOut(u) = One(cmds_acked[u] # cmds_complete[u])

IInv ==
  /\ TypeOK /\ NativeInv /\ ResetInv /\ \A u \in Units : UnitInv(u) /\ DummyInv(u)
  /\ NativeHeard /\ OwedIsHeard /\ TimeoutIsHeard

-----------------------------------------------------------------------------
(* Types.                                                                  *)

LEMMA Finite == IsFiniteSet(Packets) /\ Cardinality(Packets) = MaxPackets
  BY FS_Interval, ExterAssumption DEF Packets

LEMMA FinitePackets ==
  ASSUME NEW S \in SUBSET Packets PROVE IsFiniteSet(S) /\ Cardinality(S) \in Nat
  BY Finite, FS_Subset, FS_CardinalityType

\* A request sent does not exceed the bound, for that counts those of all units.
LEMMA SendRoom ==
  ASSUME TypeOK, NEW u \in Units, ClientSend(u) PROVE sends[u] + 1 \in Packets
  <1> DEFINE S == {x \in Units \X Packets : x[2] <= sends[x[1]]}
             P == {u} \X Packets
  <1>1. sends[u] \in 0..MaxPackets
    BY DEF TypeOK
  <1> SUFFICES ASSUME sends[u] = MaxPackets PROVE FALSE
    BY <1>1, ExterAssumption DEF Packets
  <1>2. IsFiniteSet(Units) /\ IsFiniteSet({u}) /\ Cardinality({u}) = 1
    <2>1. IsFiniteSet(Units)
      BY FS_Interval, ExterAssumption DEF Units
    <2> QED
      BY <2>1, FS_Singleton
  <1>3. IsFiniteSet(Units \X Packets)
    BY <1>2, Finite, FS_Product
  <1>4. S \in SUBSET (Units \X Packets)
    OBVIOUS
  <1>5. IsFiniteSet(S)
    BY <1>3, <1>4, FS_Subset
  <1>6. P \in SUBSET S
    BY <1>1 DEF Packets
  <1>7. Cardinality(P) = 1 * MaxPackets
    BY <1>2, Finite, FS_Product
  <1>8. Cardinality(P) <= Cardinality(S) /\ Cardinality(S) \in Nat
    BY <1>5, <1>6, FS_Subset, FS_CardinalityType
  <1>9. Cardinality(S) < MaxPackets
    BY DEF ClientSend
  <1> QED
    BY <1>7, <1>8, <1>9, ExterAssumption

HostTypes ==
  /\ uae_int_requested \in BOOLEAN /\ signalled \in BOOLEAN
  /\ native2amiga_pending \in Seq(0..NUnits) /\ n2apc \in {"idle", "request"}
  /\ written \in Nat /\ asked \in 0..written /\ done \in 0..written
  /\ singlethread_int_sem \in 0..1 /\ unit_no \in 1..(NUnits + 1)
  /\ expc \in {"wait", "native", "message", "next"} /\ target \in 0..NUnits
  /\ expc = "message" => target \in Units
  /\ resetting \in BOOLEAN /\ resets \in 0..MaxResets
CmdsTypes ==
  cmds_sent \in [Units -> Nat] /\ cmds_acked \in [Units -> Nat] /\ cmds_complete \in [Units -> Nat]
ThreadTypes ==
  /\ unit_pipe \in [Units -> Seq(Packets)]
  /\ thpc \in [Units -> {"read", "handle", "free", "kept", "mark", "request"}]
  /\ pck \in [Units -> 0..MaxPackets] /\ waitingrecords \in [Units -> SUBSET Packets]
PortTypes ==
  /\ port \in [Units -> Seq(0..MaxPackets)] /\ wake \in [Units -> BOOLEAN]
  /\ sends \in [Units -> 0..MaxPackets]
TaskTypes ==
  /\ tpc \in [Units -> {"loop", "hand", "release", "sleep", "done", "timeout"}]
  /\ queue \in [Units -> Seq(Packets)] /\ scan \in [Units -> Seq(Packets)] /\ d5 \in [Units -> Nat]
  /\ replied \in [Units -> SUBSET Packets]
Statuses == {"new", "unstarted", "handed", "done", "timeout"}
StatusType == status \in [Units -> [Packets -> Statuses]]

Types == HostTypes /\ CmdsTypes /\ ThreadTypes /\ PortTypes /\ TaskTypes /\ StatusType

LEMMA TypesAre == TypeOK <=> Types
  BY DEF TypeOK, Types, HostTypes, CmdsTypes, ThreadTypes, PortTypes, TaskTypes, StatusType, Statuses

LEMMA HostTypesKept ==
  ASSUME HostTypes, UNCHANGED <<uae_int_requested, native, helper, exter, reset>> PROVE HostTypes'
  BY Zenon DEF HostTypes, native, helper, exter, reset
LEMMA CmdsTypesKept ==
  ASSUME CmdsTypes, UNCHANGED cmds PROVE CmdsTypes'
  BY Zenon DEF CmdsTypes, cmds
LEMMA ThreadTypesKept ==
  ASSUME ThreadTypes, UNCHANGED thread PROVE ThreadTypes'
  BY Zenon DEF ThreadTypes, thread
LEMMA PortTypesKept ==
  ASSUME PortTypes, UNCHANGED ports PROVE PortTypes'
  BY Zenon DEF PortTypes, ports
LEMMA TaskTypesKept ==
  ASSUME TaskTypes, UNCHANGED task PROVE TaskTypes'
  BY Zenon DEF TaskTypes, task
LEMMA StatusTypeKept ==
  ASSUME StatusType, UNCHANGED status PROVE StatusType'
  BY Zenon DEF StatusType

LEMMA StatusPut ==
  ASSUME StatusType, NEW u \in Units, NEW p \in Packets, NEW s \in Statuses,
         status' = [status EXCEPT ![u][p] = s]
  PROVE  /\ StatusType' /\ \A v \in Units : v # u => status'[v] = status[v]
         /\ \A q \in Packets : status'[u][q] = IF q = p THEN s ELSE status[u][q]
  BY SMT DEF StatusType

LEMMA TypeHosts ==
  ASSUME Types,
         \/ UNCHANGED vars \/ NativeWrite \/ NativeRequest
         \/ \E u \in Units : FilesysThread(u) \/ RecordTimeout(u),
         \A u \in Units : thpc[u] \in {"handle", "free", "mark"} => pck[u] \in Packets
  PROVE  Types'
  <1> USE ExterAssumption, HostTypesKept, CmdsTypesKept, ThreadTypesKept, PortTypesKept,
          TaskTypesKept, StatusTypeKept DEF Types
  <1>1. CASE UNCHANGED vars
    BY <1>1, Zenon DEF vars, exter, helper, native, reset
  <1>2. CASE NativeWrite
    <2>1. native2amiga_pending' \in Seq(0..NUnits)
      BY <1>2, SMT DEF NativeWrite, HostTypes, OtherTask
    <2>2. HostTypes'
      BY <1>2, <2>1, SMT DEF NativeWrite, HostTypes, helper, exter, reset
    <2> QED
      BY <1>2, <2>2, Zenon DEF NativeWrite
  <1>3. CASE NativeRequest
    <2>1. HostTypes'
      BY <1>3, SMT DEF NativeRequest, Asked, HostTypes, helper, exter, reset
    <2> QED
      BY <1>3, <2>1, Zenon DEF NativeRequest
  <1>4. ASSUME NEW u \in Units, ThreadRead(u) PROVE Types'
    <2>1. Head(unit_pipe[u]) \in Packets /\ Tail(unit_pipe[u]) \in Seq(Packets)
      BY <1>4, HeadTailProperties, Zenon DEF ThreadRead, ThreadTypes
    <2>2. Head(unit_pipe[u]) \in 0..MaxPackets
      BY <2>1 DEF Packets
    <2>3. ThreadTypes'
      BY <1>4, <2>1, <2>2, Zenon DEF ThreadRead, Put, ThreadTypes
    <2> QED
      BY <1>4, <2>3, Zenon DEF ThreadRead
  <1>5. ASSUME NEW u \in Units, ThreadKeep(u) PROVE Types'
    <2>1. pck[u] \in Packets
      BY <1>5 DEF ThreadKeep
    <2>2. waitingrecords' \in [Units -> SUBSET Packets]
      BY <1>5, <2>1, SMT DEF ThreadKeep, ThreadTypes
    <2>3. ThreadTypes'
      BY <1>5, <2>2, Zenon DEF ThreadKeep, Put, ThreadTypes
    <2> QED
      BY <1>5, <2>3, Zenon DEF ThreadKeep
  <1>6. ASSUME NEW u \in Units, ThreadRelease(u) PROVE Types'
    <2>1. PICK p \in waitingrecords[u] :
             /\ waitingrecords' = [waitingrecords EXCEPT ![u] = @ \ {p}]
             /\ status' = [status EXCEPT ![u][p] = "done"]
      BY <1>6, Zenon DEF ThreadRelease
    <2>2. p \in Packets /\ waitingrecords' \in [Units -> SUBSET Packets]
      BY <2>1, SMT DEF ThreadTypes
    <2>3. ThreadTypes'
      BY <1>6, <2>2, Zenon DEF ThreadRelease, Put, ThreadTypes
    <2>4. StatusType'
      BY <2>1, <2>2, StatusPut, Zenon DEF Statuses
    <2> QED
      BY <1>6, <2>3, <2>4, Zenon DEF ThreadRelease
  <1>7. ASSUME NEW u \in Units, ThreadSent(u) PROVE Types'
    <2>1. ThreadTypes'
      BY <1>7, Zenon DEF ThreadSent, Put, ThreadTypes
    <2>2. CmdsTypes'
      BY <1>7, SMT DEF ThreadSent, CmdsTypes
    <2> QED
      BY <1>7, <2>1, <2>2, Zenon DEF ThreadSent
  <1>8. ASSUME NEW u \in Units, ThreadMark(u) PROVE Types'
    <2>1. ThreadTypes'
      BY <1>8, Zenon DEF ThreadMark, Put, ThreadTypes
    <2>2. pck[u] \in Packets
      BY <1>8 DEF ThreadMark
    <2>3. StatusType'
      BY <1>8, <2>2, StatusPut, Zenon DEF Statuses, ThreadMark
    <2> QED
      BY <1>8, <2>1, <2>3, Zenon DEF ThreadMark
  <1>9. ASSUME NEW u \in Units, ThreadRequest(u) PROVE Types'
    <2>1. Dummy \in 0..MaxPackets
      BY DEF Dummy
    <2>2. ThreadTypes'
      BY <1>9, <2>1, Zenon DEF ThreadRequest, Put, ThreadTypes
    <2>3. HostTypes'
      BY <1>9, Zenon DEF ThreadRequest, HostTypes, native, helper, exter, reset
    <2> QED
      BY <1>9, <2>2, <2>3, Zenon DEF ThreadRequest
  <1>10. ASSUME NEW u \in Units, RecordTimeout(u) PROVE Types'
    <2>1. PICK p \in waitingrecords[u] :
             /\ waitingrecords' = [waitingrecords EXCEPT ![u] = @ \ {p}]
             /\ status' = [status EXCEPT ![u][p] = "timeout"]
      BY <1>10, Zenon DEF RecordTimeout
    <2>2. p \in Packets /\ waitingrecords' \in [Units -> SUBSET Packets]
      BY <2>1, SMT DEF ThreadTypes
    <2>3. ThreadTypes'
      BY <1>10, <2>2, Zenon DEF RecordTimeout, ThreadTypes
    <2>4. StatusType'
      BY <2>1, <2>2, StatusPut, Zenon DEF Statuses
    <2>5. u \in 0..NUnits
      BY DEF Units
    <2>6. native2amiga_pending' \in Seq(0..NUnits)
      BY <1>10, <2>5, SMT DEF RecordTimeout, HostTypes
    <2>7. HostTypes'
      BY <1>10, <2>6, SMT DEF RecordTimeout, HostTypes, helper, exter, reset
    <2> QED
      BY <1>10, <2>3, <2>4, <2>7, Zenon DEF RecordTimeout
  <1> QED
    BY <1>1, <1>2, <1>3, <1>4, <1>5, <1>6, <1>7, <1>8, <1>9, <1>10, Zenon DEF FilesysThread

LEMMA LeastOne ==
  ASSUME NEW S \in SUBSET Nat, S # {} PROVE \E x \in S : \A y \in S : x <= y
  <1> DEFINE R == OpToRel(<, Nat)
  <1>1. IsWellFoundedOn(R, Nat)
    BY NatLessThanWellFounded
  <1>2. \E x \in S : \A y \in S : ~ (<<y, x>> \in R)
    <2> HIDE DEF R
    <2> QED
      BY <1>1, WFMin
  <1>3. \A x, y \in S : <<y, x>> \notin R => x <= y
    <2> SUFFICES ASSUME NEW x \in S, NEW y \in S, <<y, x>> \notin R PROVE x <= y
      OBVIOUS
    <2>1. x \in Nat /\ y \in Nat
      OBVIOUS
    <2>2. y < x => <<y, x>> \in R
      BY <2>1 DEF OpToRel
    <2> HIDE DEF R
    <2> QED
      BY <2>1, <2>2
  <1> HIDE DEF R
  <1> QED
    BY <1>2, <1>3

LEMMA MinIs ==
  ASSUME NEW S \in SUBSET Units, S # {} PROVE Min(S) \in S /\ \A v \in S : Min(S) <= v
  <1>1. S \in SUBSET Nat
    BY DEF Units
  <1>2. \E x \in S : \A y \in S : x <= y
    BY <1>1, LeastOne
  <1> QED
    BY <1>2, Zenon DEF Min

\* What exter_int_helper finds, unit by unit.
FoundNative(from) ==
  /\ native2amiga_pending # <<>>
  /\ native2amiga_pending' = Tail(native2amiga_pending)
  /\ singlethread_int_sem' = 0 /\ unit_no' = from
  /\ expc' = "native" /\ target' = Head(native2amiga_pending)
  /\ UNCHANGED cmds
FoundMessage(from, u) ==
  /\ native2amiga_pending = <<>> /\ UNCHANGED <<native2amiga_pending, cmds_sent, cmds_complete>>
  /\ u >= from /\ Waiting(u) /\ \A v \in Units : v >= from /\ Waiting(v) => u <= v
  /\ cmds_acked' = [cmds_acked EXCEPT ![u] = cmds_sent[u]]
  /\ unit_no' = u + 1 /\ target' = u
  /\ singlethread_int_sem' = 0 /\ expc' = "message"
FoundNothing(from) ==
  /\ native2amiga_pending = <<>> /\ \A v \in Units : v >= from => ~Waiting(v)
  /\ singlethread_int_sem' = 1 /\ unit_no' = NUnits + 1 /\ expc' = "wait"
  /\ UNCHANGED <<native2amiga_pending, target, cmds>>

LEMMA Found ==
  ASSUME NEW from, FindWork(from)
  PROVE  FoundNative(from) \/ (\E u \in Units : FoundMessage(from, u)) \/ FoundNothing(from)
  <1>1. CASE native2amiga_pending # <<>>
    BY <1>1, Zenon DEF FindWork, FoundNative
  <1>2. CASE native2amiga_pending = <<>> /\ NextUnits(from) = {}
    <2>1. \A v \in Units : v >= from => ~Waiting(v)
      BY <1>2 DEF NextUnits
    <2> QED
      BY <1>2, <2>1, Zenon DEF FindWork, FoundNothing
  <1>3. CASE native2amiga_pending = <<>> /\ NextUnits(from) # {}
    <2> DEFINE u == Min(NextUnits(from))
    <2>1. NextUnits(from) \in SUBSET Units
      BY DEF NextUnits
    <2>2. u \in NextUnits(from) /\ \A v \in NextUnits(from) : u <= v
      BY <1>3, <2>1, MinIs, Zenon
    <2>3. u \in Units /\ u >= from /\ Waiting(u) /\ \A v \in Units : v >= from /\ Waiting(v) => u <= v
      BY <2>2, Zenon DEF NextUnits
    <2>4. /\ cmds_acked' = [cmds_acked EXCEPT ![u] = cmds_sent[u]]
          /\ unit_no' = u + 1 /\ target' = u
          /\ singlethread_int_sem' = 0 /\ expc' = "message"
          /\ UNCHANGED <<native2amiga_pending, cmds_sent, cmds_complete>>
      BY <1>3, Zenon DEF FindWork, Put
    <2> HIDE DEF u
    <2>5. FoundMessage(from, u)
      BY <1>3, <2>3, <2>4, Zenon DEF FoundMessage
    <2> QED
      BY <2>3, <2>5, Zenon
  <1> QED
    BY <1>1, <1>2, <1>3, Zenon

LEMMA TypeFound ==
  ASSUME Types, NEW from \in 1..(NUnits + 1), FindWork(from), signalled' \in BOOLEAN,
         UNCHANGED <<uae_int_requested, n2apc, written, asked, done, thread, ports, task, status, reset>>
  PROVE  Types'
  <1> USE ExterAssumption
  <1>1. CASE FoundNative(from)
    <2>1. Head(native2amiga_pending) \in 0..NUnits /\ Tail(native2amiga_pending) \in Seq(0..NUnits)
      BY <1>1, HeadTailProperties, Zenon DEF FoundNative, Types, HostTypes
    <2>2. HostTypes'
      BY <1>1, <2>1, SMT DEF FoundNative, Types, HostTypes, reset
    <2> QED
      BY <1>1, <2>2, CmdsTypesKept, ThreadTypesKept, PortTypesKept, TaskTypesKept, StatusTypeKept, Zenon
      DEF Types, FoundNative
  <1>2. ASSUME NEW u \in Units, FoundMessage(from, u) PROVE Types'
    <2>1. u \in 0..NUnits /\ u + 1 \in 1..(NUnits + 1)
      BY DEF Units
    <2>2. HostTypes'
      BY <1>2, <2>1, SMT DEF FoundMessage, Types, HostTypes, reset
    <2>3. CmdsTypes'
      BY <1>2, SMT DEF FoundMessage, Types, CmdsTypes
    <2> QED
      BY <2>2, <2>3, ThreadTypesKept, PortTypesKept, TaskTypesKept, StatusTypeKept, Zenon DEF Types
  <1>3. CASE FoundNothing(from)
    <2>1. HostTypes'
      BY <1>3, SMT DEF FoundNothing, Types, HostTypes, reset
    <2> QED
      BY <1>3, <2>1, CmdsTypesKept, ThreadTypesKept, PortTypesKept, TaskTypesKept, StatusTypeKept, Zenon
      DEF Types, FoundNothing
  <1> QED
    BY <1>1, <1>2, <1>3, Found, Zenon

LEMMA TypeExter ==
  ASSUME Types, Interrupt \/ ExterTask \/ ResetBegin \/ ResetEnd, expc = "native" => done < written
  PROVE  Types'
  <1> USE ExterAssumption, HostTypesKept, CmdsTypesKept, ThreadTypesKept, PortTypesKept,
          TaskTypesKept, StatusTypeKept DEF Types
  <1>1. CASE Interrupt
    <2>1. HostTypes'
      BY <1>1, Zenon DEF Interrupt, HostTypes, native, helper, reset
    <2> QED
      BY <1>1, <2>1, Zenon DEF Interrupt
  <1>2. CASE HelperBusy
    <2>1. HostTypes'
      BY <1>2, Zenon DEF HelperBusy, HostTypes, native, helper, reset
    <2> QED
      BY <1>2, <2>1, Zenon DEF HelperBusy
  <1>3. CASE HelperFirst
    <2>1. 1 \in 1..(NUnits + 1)
      OBVIOUS
    <2>2. signalled' \in BOOLEAN
      BY <1>3 DEF HelperFirst
    <2> QED
      BY <1>3, <2>1, <2>2, TypeFound, Zenon DEF HelperFirst
  <1>4. CASE HelperNext
    <2>1. unit_no \in 1..(NUnits + 1) /\ signalled' \in BOOLEAN
      BY <1>4 DEF HelperNext, HostTypes
    <2> QED
      BY <1>4, <2>1, TypeFound, Zenon DEF HelperNext
  <1>5. CASE PerformNative
    <2>1. HostTypes'
      BY <1>5, SMT DEF PerformNative, HostTypes, helper, reset
    <2>2. PortTypes'
      <3>1. target # OtherTask => target \in Units
        BY DEF HostTypes, OtherTask, Units
      <3>2. wake' \in [Units -> BOOLEAN]
        BY <1>5, <3>1, Zenon DEF PerformNative, PortTypes, Put
      <3> QED
        BY <1>5, <3>2, Zenon DEF PerformNative, PortTypes
    <2> QED
      BY <1>5, <2>1, <2>2, Zenon DEF PerformNative
  <1>6. CASE PerformPutMsg
    <2>1. HostTypes'
      BY <1>6, SMT DEF PerformPutMsg, HostTypes, native, helper, reset
    <2>2. target \in Units /\ Dummy \in 0..MaxPackets
      BY <1>6 DEF PerformPutMsg, HostTypes, Dummy
    <2>3. Append(port[target], Dummy) \in Seq(0..MaxPackets)
      BY <2>2, AppendProperties, Zenon DEF PortTypes
    <2>4. PortTypes'
      BY <1>6, <2>2, <2>3, Zenon DEF PerformPutMsg, PortTypes, Put
    <2> QED
      BY <1>6, <2>1, <2>4, Zenon DEF PerformPutMsg
  <1>7. CASE ResetBegin
    <2>1. HostTypes'
      <3>1. 0 \in Nat /\ 0 \in 0..0 /\ 0 \in 0..NUnits /\ <<>> \in Seq(0..NUnits)
        BY EmptySeq
      <3>2. resets' \in 0..MaxResets
        BY <1>7 DEF ResetBegin, HostTypes
      <3> QED
        BY <1>7, <3>1, <3>2, Zenon DEF ResetBegin, HostTypes, OtherTask, helper
    <2>2. CmdsTypes' /\ ThreadTypes' /\ PortTypes'
      BY <1>7, SMT DEF ResetBegin, Each, CmdsTypes, ThreadTypes, PortTypes, Dummy
    <2>3. TaskTypes' /\ StatusType'
      BY <1>7, SMT DEF ResetBegin, Each, TaskTypes, StatusType, Statuses
    <2> QED
      BY <2>1, <2>2, <2>3
  <1>8. CASE ResetEnd
    <2>1. HostTypes'
      BY <1>8, Zenon DEF ResetEnd, HostTypes, native, helper, exter
    <2> QED
      BY <1>8, <2>1, Zenon DEF ResetEnd
  <1> QED
    BY <1>1, <1>2, <1>3, <1>4, <1>5, <1>6, <1>7, <1>8, Zenon DEF ExterTask

LEMMA TypeTasks ==
  ASSUME Types, NEW u \in Units, ClientSend(u) \/ HandlerTask(u), d5[u] > 0 \/ ~TaskReply(u),
         tpc[u] = "hand" => port[u] # <<>> /\ Head(port[u]) # Dummy
  PROVE  Types'
  <1> USE ExterAssumption, HostTypesKept, CmdsTypesKept, ThreadTypesKept, PortTypesKept,
          TaskTypesKept, StatusTypeKept DEF Types
  <1>1. CASE ClientSend(u)
    <2>1. sends[u] + 1 \in 0..MaxPackets
      BY <1>1, TypesAre, SendRoom DEF Packets
    <2>2. Append(port[u], sends[u] + 1) \in Seq(0..MaxPackets)
      BY <2>1, AppendProperties, Zenon DEF PortTypes
    <2>3. PortTypes'
      BY <1>1, <2>1, <2>2, Zenon DEF ClientSend, PortTypes, Put
    <2> QED
      BY <1>1, <2>3, Zenon DEF ClientSend
  \* A packet taken from the port, in the list afterwards.
  <1>2. ASSUME port[u] # <<>>
        PROVE  /\ Tail(port[u]) \in Seq(0..MaxPackets)
               /\ Head(port[u]) # Dummy =>
                    Head(port[u]) \in Packets /\ <<Head(port[u])>> \o queue[u] \in Seq(Packets)
    <2>1. Tail(port[u]) \in Seq(0..MaxPackets) /\ Head(port[u]) \in 0..MaxPackets
      BY <1>2, HeadTailProperties, Zenon DEF PortTypes
    <2>2. Head(port[u]) # Dummy => Head(port[u]) \in Packets
      BY <2>1 DEF Dummy, Packets
    <2> QED
      BY <2>1, <2>2, TimesPrepend, Zenon DEF TaskTypes
  <1>3. CASE TaskPutOff(u)
    <2>1. /\ Head(port[u]) \in Packets /\ <<Head(port[u])>> \o queue[u] \in Seq(Packets)
          /\ Tail(port[u]) \in Seq(0..MaxPackets)
      BY <1>2, <1>3, Zenon DEF TaskPutOff, AtPacket
    <2>2. PortTypes' /\ TaskTypes'
      BY <1>3, <2>1, Zenon DEF TaskPutOff, Enqueue, Packet, PortTypes, TaskTypes
    <2>3. StatusType'
      BY <1>3, <2>1, StatusPut, Zenon DEF Statuses, TaskPutOff, Packet
    <2> QED
      BY <1>3, <2>2, <2>3, Zenon DEF TaskPutOff
  <1>4. CASE TaskRefuse(u)
    <2>1. Head(port[u]) \in Packets /\ Tail(port[u]) \in Seq(0..MaxPackets)
      BY <1>2, <1>4, Zenon DEF TaskRefuse, AtPacket
    <2>2. PortTypes'
      BY <1>4, <2>1, Zenon DEF TaskRefuse, PortTypes
    <2>3. replied[u] \cup {Head(port[u])} \in SUBSET Packets
      BY <2>1 DEF TaskTypes
    <2>4. TaskTypes'
      BY <1>4, <2>3, Zenon DEF TaskRefuse, Packet, TaskTypes
    <2>5. StatusType'
      BY <1>4, <2>1, StatusPut, Zenon DEF Statuses, TaskRefuse, Packet
    <2> QED
      BY <1>4, <2>2, <2>4, <2>5, Zenon DEF TaskRefuse
  <1>5. CASE TaskHand(u)
    <2>1. Head(port[u]) \in Packets
      BY <1>2, <1>5, Zenon DEF TaskHand, AtPacket
    <2>2. Append(unit_pipe[u], Head(port[u])) \in Seq(Packets)
      BY <2>1, AppendProperties, Zenon DEF ThreadTypes
    <2>3. ThreadTypes' /\ TaskTypes'
      BY <1>5, <2>2, Zenon DEF TaskHand, Put, Packet, ThreadTypes, TaskTypes
    <2>4. StatusType'
      BY <1>5, <2>1, StatusPut, Zenon DEF Statuses, TaskHand, Packet
    <2> QED
      BY <1>5, <2>3, <2>4, Zenon DEF TaskHand
  <1>6. CASE TaskQueue(u)
    <2> port[u] # <<>> /\ Head(port[u]) # Dummy
      BY <1>6, Zenon DEF TaskQueue
    <2>1. /\ <<Head(port[u])>> \o queue[u] \in Seq(Packets)
          /\ Tail(port[u]) \in Seq(0..MaxPackets) /\ d5[u] + 1 \in Nat
      BY <1>2, <1>6, SMT DEF TaskTypes
    <2>2. PortTypes' /\ TaskTypes'
      BY <1>6, <2>1, Zenon DEF TaskQueue, Enqueue, Packet, Put, PortTypes, TaskTypes
    <2> QED
      BY <1>6, <2>2, Zenon DEF TaskQueue
  <1>7. CASE TaskDummy(u)
    <2>1. Tail(port[u]) \in Seq(0..MaxPackets)
      BY <1>2, <1>7, Zenon DEF TaskDummy
    <2>2. PortTypes' /\ TaskTypes'
      BY <1>7, <2>1, Zenon DEF TaskDummy, Put, PortTypes, TaskTypes
    <2> QED
      BY <1>7, <2>2, Zenon DEF TaskDummy
  <1>8. CASE TaskRelease(u)
    <2>1. CmdsTypes' /\ TaskTypes'
      BY <1>8, Zenon DEF TaskRelease, Put, CmdsTypes, TaskTypes
    <2> QED
      BY <1>8, <2>1, Zenon DEF TaskRelease
  <1>9. CASE TaskSleep(u)
    <2>1. TaskTypes'
      BY <1>9, Zenon DEF TaskSleep, Put, TaskTypes
    <2> QED
      BY <1>9, <2>1, Zenon DEF TaskSleep
  <1>10. CASE TaskWake(u)
    <2>1. PortTypes' /\ TaskTypes'
      BY <1>10, Zenon DEF TaskWake, Put, PortTypes, TaskTypes
    <2> QED
      BY <1>10, <2>1, Zenon DEF TaskWake
  <1>11. ASSUME scan[u] # <<>> PROVE Head(scan[u]) \in Packets /\ Tail(scan[u]) \in Seq(Packets)
    BY <1>11, HeadTailProperties, Zenon DEF TaskTypes
  <1>12. CASE TaskReply(u)
    <2>1. PICK i \in 1..Len(queue[u]) : queue[u][i] = Head(scan[u]) /\ queue' = Put(queue, u, RemoveAt(queue[u], i))
      BY <1>12, Zenon DEF TaskReply
    <2>2. RemoveAt(queue[u], i) \in Seq(Packets)
      BY TimesRemove, Zenon DEF TaskTypes
    <2>3. replied[u] \cup {Head(scan[u])} \in SUBSET Packets /\ Tail(scan[u]) \in Seq(Packets)
      BY <1>11, <1>12 DEF TaskTypes, TaskReply
    <2>4. d5[u] - 1 \in Nat
      BY <1>12 DEF TaskTypes
    <2>5. TaskTypes'
      BY <1>12, <2>1, <2>2, <2>3, <2>4, Zenon DEF TaskReply, Put, TaskTypes
    <2> QED
      BY <1>12, <2>5, Zenon DEF TaskReply
  <1>13. CASE TaskPass(u)
    <2>1. TaskTypes'
      BY <1>11, <1>13, Zenon DEF TaskPass, Put, TaskTypes
    <2> QED
      BY <1>13, <2>1, Zenon DEF TaskPass
  <1>14. CASE TaskScanned(u)
    <2>1. TaskTypes'
      BY <1>14, Zenon DEF TaskScanned, Put, TaskTypes
    <2> QED
      BY <1>14, <2>1, Zenon DEF TaskScanned
  <1> QED
    BY <1>1, <1>3, <1>4, <1>5, <1>6, <1>7, <1>8, <1>9, <1>10, <1>12, <1>13, <1>14, Zenon DEF HandlerTask

-----------------------------------------------------------------------------
(* The steps of a unit's thread.                                           *)

SameTask(v) ==
  /\ port'[v] = port[v] /\ sends'[v] = sends[v] /\ tpc'[v] = tpc[v] /\ queue'[v] = queue[v]
  /\ d5'[v] = d5[v] /\ replied'[v] = replied[v]
SameThread(v) ==
  /\ unit_pipe'[v] = unit_pipe[v] /\ thpc'[v] = thpc[v] /\ pck'[v] = pck[v]
  /\ waitingrecords'[v] = waitingrecords[v]
SameStatus(v) == status'[v] = status[v]
Same(v) == SameTask(v) /\ SameThread(v) /\ SameStatus(v)

LEMMA TimesNat ==
  ASSUME Types, NEW u \in Units, NEW p
  PROVE  /\ Times(port[u], p) \in Nat /\ Times(queue[u], p) \in Nat /\ Times(unit_pipe[u], p) \in Nat
         /\ Times(scan[u], p) \in Nat
  <1>1. /\ port[u] \in Seq(0..MaxPackets) /\ queue[u] \in Seq(Packets) /\ unit_pipe[u] \in Seq(Packets)
        /\ scan[u] \in Seq(Packets)
    BY DEF Types, PortTypes, TaskTypes, ThreadTypes
  <1> QED
    BY <1>1, TimesIs, Zenon

LEMMA TaskInvSame ==
  ASSUME NEW u, TaskInv(u), SameTask(u),
         \A p \in Packets : Times(queue[u], p) > 0 =>
           (status'[u][p] = "unstarted" <=> status[u][p] = "unstarted")
  PROVE  TaskInv(u)'
  <1>1. StartedSet(u)' = {p \in Packets : Times(queue[u], p) > 0 /\ status'[u][p] # "unstarted"}
    BY Zenon DEF StartedSet, SameTask
  <1>2. StartedSet(u)' = StartedSet(u)
    BY <1>1 DEF StartedSet
  <1> QED
    BY <1>2, Zenon DEF TaskInv, SameTask, One

LEMMA ThreadInvSame ==
  ASSUME NEW u, ThreadInv(u), SameThread(u),
         \A p \in Packets : status'[u][p] = "handed" <=> status[u][p] = "handed"
  PROVE  ThreadInv(u)'
  <1>1. HandedSet(u)' = HandedSet(u)
    BY Zenon DEF HandedSet
  <1> QED
    BY <1>1, Zenon DEF ThreadInv, SameThread, InHand, Load, One

LEMMA SameKept ==
  ASSUME NEW u, UnitInv(u), Same(u) PROVE UnitInv(u)'
  <1>1. TaskInv(u)' /\ ThreadInv(u)'
    BY TaskInvSame, ThreadInvSame, Zenon DEF UnitInv, Same, SameStatus
  <1>2. ASSUME NEW p \in Packets PROVE PacketInv(u, p)'
    <2>1. PacketInv(u, p)
      BY DEF UnitInv
    <2> QED
      BY <2>1, Zenon DEF PacketInv, Held, InTransit, One, Same, SameTask, SameThread, SameStatus
  <1> QED
    BY <1>1, <1>2, Zenon DEF UnitInv

\* A packet is handed, or is so no longer.
LEMMA HandedMore ==
  ASSUME NEW u, NEW p \in Packets, status[u][p] # "handed",
         \A q \in Packets : status'[u][q] = IF q = p THEN "handed" ELSE status[u][q]
  PROVE  Cardinality(HandedSet(u)') = Cardinality(HandedSet(u)) + 1
  <1>1. HandedSet(u)' = HandedSet(u) \cup {p} /\ p \notin HandedSet(u)
    BY DEF HandedSet
  <1>2. IsFiniteSet(HandedSet(u))
    BY FinitePackets DEF HandedSet
  <1> QED
    BY <1>1, <1>2, FS_AddElement

LEMMA HandedLess ==
  ASSUME NEW u, NEW p \in Packets, NEW s, s # "handed", status[u][p] = "handed",
         \A q \in Packets : status'[u][q] = IF q = p THEN s ELSE status[u][q]
  PROVE  Cardinality(HandedSet(u)') = Cardinality(HandedSet(u)) - 1
  <1>1. HandedSet(u)' = HandedSet(u) \ {p} /\ p \in HandedSet(u)
    BY DEF HandedSet
  <1>2. IsFiniteSet(HandedSet(u))
    BY FinitePackets DEF HandedSet
  <1> QED
    BY <1>1, <1>2, FS_RemoveElement

\* The host keeps what it has, if elsewhere.
LEMMA UnitShift ==
  ASSUME NEW u, UnitInv(u), SameTask(u), SameStatus(u), InHand(u)' => pck'[u] \in Packets,
         Load(u)' = Load(u), \A p \in Packets : Held(u, p)' = Held(u, p)
  PROVE  UnitInv(u)'
  <1>1. TaskInv(u)'
    BY TaskInvSame, Zenon DEF UnitInv, SameStatus
  <1>2. HandedSet(u)' = HandedSet(u)
    BY Zenon DEF HandedSet, SameStatus
  <1>3. ThreadInv(u)'
    BY <1>2, Zenon DEF ThreadInv, UnitInv
  <1>4. ASSUME NEW p \in Packets PROVE PacketInv(u, p)'
    <2>1. PacketInv(u, p) /\ Held(u, p)' = Held(u, p)
      BY DEF UnitInv
    <2> QED
      BY <2>1, Zenon DEF PacketInv, InTransit, SameTask, SameStatus
  <1> QED
    BY <1>1, <1>3, <1>4 DEF UnitInv

\* The host is done with a packet.
LEMMA UnitFinished ==
  ASSUME Types, NEW u \in Units, UnitInv(u), NEW p \in Packets, Held(u, p) = 1, SameTask(u),
         NEW s \in {"done", "timeout"},
         \A q \in Packets : status'[u][q] = IF q = p THEN s ELSE status[u][q],
         InHand(u)' => pck'[u] \in Packets, Load(u)' = Load(u) - 1,
         \A q \in Packets : Held(u, q)' = Held(u, q) - One(q = p)
  PROVE  UnitInv(u)'
  <1>1. status[u][p] = "handed"
    BY SMT DEF UnitInv, PacketInv, One
  <1>2. TaskInv(u)'
    <2>1. \A q \in Packets : status'[u][q] = "unstarted" <=> status[u][q] = "unstarted"
      BY <1>1
    <2> QED
      BY <2>1, TaskInvSame, Zenon DEF UnitInv
  <1>3. ThreadInv(u)'
    <2>1. Cardinality(HandedSet(u)') = Cardinality(HandedSet(u)) - 1
      BY <1>1, HandedLess
    <2> QED
      BY <2>1, Zenon DEF ThreadInv, UnitInv
  <1>4. ASSUME NEW q \in Packets PROVE PacketInv(u, q)'
    <2>1. PacketInv(u, q) /\ Held(u, q)' = Held(u, q) - One(q = p)
      BY DEF UnitInv
    <2>2. CASE q = p
      <3>1. status'[u][q] = s /\ Held(u, q)' = 0
        BY <2>1, <2>2, SMT DEF One
      <3>2. /\ p <= sends[u] \/ ~(sends[u] < p)
            /\ ~(Times(port[u], p) > 0 /\ ~InTransit(u, p))
        BY <1>1, <2>1, <2>2, SMT DEF PacketInv
      <3>3. sends[u] < p => FALSE
        BY <1>1, <2>1, <2>2 DEF PacketInv
      <3> QED
        BY <1>1, <2>1, <2>2, <3>1, <3>2, <3>3, SMT DEF PacketInv, InTransit, SameTask, One
    <2>3. CASE q # p
      <3>1. status'[u][q] = status[u][q]
        BY <2>3
      <3>2. Held(u, q)' = Held(u, q)
        BY <2>1, <2>3, SMT DEF One, PacketInv
      <3> QED
        BY <2>1, <3>1, <3>2, Zenon DEF PacketInv, InTransit, SameTask
    <2> QED
      BY <2>2, <2>3, Zenon
  <1> QED
    BY <1>2, <1>3, <1>4 DEF UnitInv

\* What the host has of a unit.
LEMMA HostSizes ==
  ASSUME Types, NEW u \in Units
  PROVE  /\ unit_pipe[u] \in Seq(Packets) /\ Len(unit_pipe[u]) \in Nat
         /\ waitingrecords[u] \in SUBSET Packets
         /\ IsFiniteSet(waitingrecords[u]) /\ Cardinality(waitingrecords[u]) \in Nat
  <1>1. unit_pipe[u] \in Seq(Packets) /\ waitingrecords[u] \in SUBSET Packets
    BY DEF Types, ThreadTypes
  <1> QED
    BY <1>1, LenProperties, FinitePackets

LEMMA UnitRead ==
  ASSUME Types, NEW u \in Units, UnitInv(u), ThreadRead(u) PROVE UnitInv(u)'
  <1> DEFINE h == Head(unit_pipe[u])
             t == Tail(unit_pipe[u])
  <1>1. unit_pipe[u] \in Seq(Packets) /\ unit_pipe[u] # <<>>
    BY DEF ThreadRead, Types, ThreadTypes
  <1>2. /\ h \in Packets /\ Len(t) = Len(unit_pipe[u]) - 1 /\ t \in Seq(Packets)
        /\ \A p : Times(unit_pipe[u], p) = (IF h = p THEN 1 ELSE 0) + Times(t, p)
    BY <1>1, TimesTail, HeadTailProperties
  <1>3. SameTask(u) /\ SameStatus(u) /\ waitingrecords'[u] = waitingrecords[u]
    BY Zenon DEF ThreadRead, SameTask, SameStatus, ports, task
  <1>4. thpc[u] = "read" /\ thpc'[u] = "handle" /\ pck'[u] = h /\ unit_pipe'[u] = t
    BY DEF ThreadRead, Put, Types, ThreadTypes
  <1> HIDE DEF h, t
  <1>5. Load(u)' = Load(u)
    <2>1. One(InHand(u)) = 0 /\ One(InHand(u)') = 1
      BY <1>4, Zenon DEF InHand, One
    <2>2. Len(unit_pipe'[u]) = Len(unit_pipe[u]) - 1
      BY <1>2, <1>4, Zenon
    <2>3. Load(u)' = Len(unit_pipe'[u]) + Cardinality(waitingrecords[u]) + 1
      BY <1>3, <2>1, Zenon DEF Load
    <2>4. Load(u) = Len(unit_pipe[u]) + Cardinality(waitingrecords[u]) + 0
      BY <2>1, Zenon DEF Load
    <2> QED
      BY <2>2, <2>3, <2>4, HostSizes
  <1>6. ASSUME NEW p \in Packets PROVE Held(u, p)' = Held(u, p)
    <2>1. Times(unit_pipe[u], p) \in Nat /\ Times(t, p) \in Nat
      BY <1>1, <1>2, TimesIs
    <2> QED
      BY <1>2, <1>3, <1>4, <2>1 DEF Held
  <1> QED
    BY <1>2, <1>3, <1>4, <1>5, <1>6, UnitShift, Zenon

LEMMA UnitKeep ==
  ASSUME Types, NEW u \in Units, UnitInv(u), ThreadKeep(u) PROVE UnitInv(u)'
  <1>1. SameTask(u) /\ SameStatus(u) /\ unit_pipe'[u] = unit_pipe[u] /\ pck'[u] = pck[u]
    BY Zenon DEF ThreadKeep, SameTask, SameStatus, ports, task
  <1>2. /\ thpc[u] = "handle" /\ thpc'[u] = "kept"
        /\ waitingrecords'[u] = waitingrecords[u] \cup {pck[u]}
    BY DEF ThreadKeep, Put, Types, ThreadTypes
  <1>3. pck[u] \in Packets
    BY <1>2 DEF UnitInv, ThreadInv, InHand
  <1>4. pck[u] \notin waitingrecords[u]
    <2>1. Held(u, pck[u]) <= 1
      BY <1>3 DEF UnitInv, PacketInv, One
    <2> QED
      BY <1>2, <1>3, <2>1, TimesNat DEF Held
  <1>5. Load(u)' = Load(u)
    <2>1. Cardinality(waitingrecords[u] \cup {pck[u]}) = Cardinality(waitingrecords[u]) + 1
      BY <1>4, HostSizes, FS_AddElement
    <2> QED
      BY <1>1, <1>2, <2>1, HostSizes DEF Load, InHand, One
  <1>6. ASSUME NEW p \in Packets PROVE Held(u, p)' = Held(u, p)
    BY <1>1, <1>2, <1>4, TimesNat DEF Held
  <1>7. ~InHand(u)'
    BY <1>2 DEF InHand
  <1> QED
    BY <1>1, <1>5, <1>6, <1>7, UnitShift, Zenon

LEMMA UnitSent ==
  ASSUME Types, NEW u \in Units, UnitInv(u), ThreadSent(u) \/ ThreadRequest(u) PROVE UnitInv(u)'
  <1>1. SameTask(u) /\ SameStatus(u) /\ unit_pipe'[u] = unit_pipe[u] /\ waitingrecords'[u] = waitingrecords[u]
    BY Zenon DEF ThreadSent, ThreadRequest, SameTask, SameStatus, ports, task
  <1>2. InHand(u)' = InHand(u) /\ (InHand(u) => pck'[u] = pck[u])
    BY DEF ThreadSent, ThreadRequest, Put, Types, ThreadTypes, InHand
  <1>3. Load(u)' = Load(u) /\ \A p \in Packets : Held(u, p)' = Held(u, p)
    BY <1>1, <1>2, Zenon DEF Load, Held, InHand
  <1> QED
    BY <1>1, <1>2, <1>3, UnitShift, Zenon DEF UnitInv, ThreadInv

\* A packet that waits for a record's lock is completed.
LEMMA UnitWaited ==
  ASSUME Types, NEW u \in Units, UnitInv(u), NEW p \in waitingrecords[u],
         waitingrecords' = [waitingrecords EXCEPT ![u] = @ \ {p}],
         NEW s \in {"done", "timeout"}, status' = [status EXCEPT ![u][p] = s],
         SameTask(u), unit_pipe'[u] = unit_pipe[u], pck'[u] = pck[u], InHand(u)' = InHand(u)
  PROVE  UnitInv(u)'
  <1>1. waitingrecords'[u] = waitingrecords[u] \ {p} /\ p \in Packets
    BY HostSizes DEF Types, ThreadTypes
  <1>2. \A q \in Packets : status'[u][q] = IF q = p THEN s ELSE status[u][q]
    <2>1. s \in Statuses
      BY DEF Statuses
    <2> QED
      BY <1>1, <2>1, StatusPut, Zenon DEF Types
  <1>3. Held(u, p) = 1
    <2>1. Held(u, p) \in {0, 1}
      BY <1>1 DEF UnitInv, PacketInv, One
    <2> QED
      BY <1>1, <2>1, TimesNat DEF Held
  <1>4. Load(u)' = Load(u) - 1
    <2>1. Cardinality(waitingrecords[u] \ {p}) = Cardinality(waitingrecords[u]) - 1
      BY HostSizes, FS_RemoveElement
    <2>2. PICK n \in {0, 1} : One(InHand(u)) = n /\ One(InHand(u)') = n
      <3>1. One(InHand(u)) \in {0, 1} /\ One(InHand(u)') = One(InHand(u))
        BY Zenon DEF One
      <3> QED
        BY <3>1, Zenon
    <2>3. /\ Load(u) = Len(unit_pipe[u]) + Cardinality(waitingrecords[u]) + n
          /\ Load(u)' = Len(unit_pipe[u]) + Cardinality(waitingrecords[u] \ {p}) + n
      BY <1>1, <2>2, Zenon DEF Load
    <2>4. Len(unit_pipe[u]) \in Nat /\ Cardinality(waitingrecords[u]) \in Nat
      BY HostSizes, Zenon
    <2> QED
      BY ONLY n \in {0, 1}, <2>1, <2>3, <2>4
  <1>5. ASSUME NEW q \in Packets PROVE Held(u, q)' = Held(u, q) - One(q = p)
    BY <1>1, TimesNat DEF Held, One, InHand
  <1>6. InHand(u)' => pck'[u] \in Packets
    BY DEF UnitInv, ThreadInv
  <1> QED
    BY <1>1, <1>2, <1>3, <1>4, <1>5, <1>6, UnitFinished, Zenon

LEMMA UnitMark ==
  ASSUME Types, NEW u \in Units, UnitInv(u), ThreadMark(u) PROVE UnitInv(u)'
  <1>1. SameTask(u) /\ unit_pipe'[u] = unit_pipe[u] /\ waitingrecords'[u] = waitingrecords[u]
        /\ pck'[u] = pck[u]
    BY Zenon DEF ThreadMark, SameTask, ports, task
  <1>2. thpc[u] = "mark" /\ thpc'[u] = "request"
    BY DEF ThreadMark, Put, Types, ThreadTypes
  <1>3. pck[u] \in Packets
    BY <1>2 DEF UnitInv, ThreadInv, InHand
  <1>4. \A q \in Packets : status'[u][q] = IF q = pck[u] THEN "done" ELSE status[u][q]
    BY <1>3, StatusPut, Zenon DEF Statuses, ThreadMark, Types
  <1>5. Held(u, pck[u]) = 1
    <2>1. Held(u, pck[u]) \in {0, 1}
      BY <1>3 DEF UnitInv, PacketInv, One
    <2> QED
      BY <1>2, <1>3, <2>1, TimesNat DEF Held
  <1>6. Load(u)' = Load(u) - 1
    BY <1>1, <1>2, HostSizes DEF Load, InHand, One
  <1>7. ASSUME NEW q \in Packets PROVE Held(u, q)' = Held(u, q) - One(q = pck[u])
    BY <1>1, <1>2, TimesNat DEF Held, One
  <1>8. ~InHand(u)'
    BY <1>2 DEF InHand
  <1> QED
    BY <1>1, <1>3, <1>4, <1>5, <1>6, <1>7, <1>8, UnitFinished, Zenon

LEMMA UnitHost ==
  ASSUME Types, NEW u \in Units, UnitInv(u), FilesysThread(u) \/ RecordTimeout(u) PROVE UnitInv(u)'
  <1>1. CASE ThreadRelease(u)
    <2>1. PICK p \in waitingrecords[u] :
             /\ waitingrecords' = [waitingrecords EXCEPT ![u] = @ \ {p}]
             /\ status' = [status EXCEPT ![u][p] = "done"]
      BY <1>1, Zenon DEF ThreadRelease
    <2>2. SameTask(u) /\ unit_pipe'[u] = unit_pipe[u] /\ pck'[u] = pck[u]
      BY <1>1, Zenon DEF ThreadRelease, SameTask, ports, task
    <2>3. InHand(u)' = InHand(u)
      BY <1>1 DEF ThreadRelease, Put, Types, ThreadTypes, InHand
    <2> QED
      BY <2>1, <2>2, <2>3, UnitWaited
  <1>2. CASE RecordTimeout(u)
    <2>1. PICK p \in waitingrecords[u] :
             /\ waitingrecords' = [waitingrecords EXCEPT ![u] = @ \ {p}]
             /\ status' = [status EXCEPT ![u][p] = "timeout"]
      BY <1>2, Zenon DEF RecordTimeout
    <2>2. SameTask(u) /\ unit_pipe'[u] = unit_pipe[u] /\ pck'[u] = pck[u] /\ InHand(u)' = InHand(u)
      BY <1>2, Zenon DEF RecordTimeout, SameTask, ports, task, InHand
    <2> QED
      BY <2>1, <2>2, UnitWaited
  <1> QED
    BY <1>1, <1>2, UnitRead, UnitKeep, UnitSent, UnitMark, Zenon DEF FilesysThread

-----------------------------------------------------------------------------
(* The steps of a unit's handler task, and the messages put in its port.   *)

LEMMA UnitPut ==
  ASSUME Types, NEW u \in Units, UnitInv(u), NEW m \in 0..MaxPackets, port'[u] = Append(port[u], m),
         \/ m = Dummy /\ sends'[u] = sends[u]
         \/ m \in Packets /\ m = sends[u] + 1 /\ sends'[u] = m,
         tpc'[u] = tpc[u], queue'[u] = queue[u], d5'[u] = d5[u], replied'[u] = replied[u],
         SameThread(u), SameStatus(u)
  PROVE  UnitInv(u)'
  <1>1. port[u] \in Seq(0..MaxPackets) /\ sends[u] \in 0..MaxPackets
    BY DEF Types, PortTypes
  <1>2. /\ port'[u] # <<>>
        /\ port[u] # <<>> => Head(port'[u]) = Head(port[u])
        /\ \A p : Times(port'[u], p) = Times(port[u], p) + IF m = p THEN 1 ELSE 0
    <2>1. Append(port[u], m) # <<>>
      BY <1>1, AppendProperties
    <2>2. port[u] # <<>> => Head(Append(port[u], m)) = Head(port[u])
      BY <1>1, HeadTailAppend
    <2>3. \A w \in Seq(0..MaxPackets) : \A p :
            Times(Append(w, m), p) = Times(w, p) + IF m = p THEN 1 ELSE 0
      <3> SUFFICES ASSUME NEW w \in Seq(0..MaxPackets), NEW p
                   PROVE  Times(Append(w, m), p) = Times(w, p) + IF m = p THEN 1 ELSE 0
        BY Zenon
      <3>1. CASE m = p
        BY <3>1, AppendMore, Zenon
      <3>2. CASE m # p
        <4>1. Times(Append(w, m), p) = Times(w, p)
          BY <3>2, AppendSame, Zenon
        <4>2. Times(w, p) \in Nat
          BY TimesIs, Zenon
        <4> QED
          BY <3>2, <4>1, <4>2
      <3> QED
        BY <3>1, <3>2, Zenon
    <2> QED
      BY <1>1, <2>1, <2>2, <2>3
  <1>3. TaskInv(u)'
    <2>1. StartedSet(u)' = StartedSet(u)
      BY Zenon DEF StartedSet, SameStatus
    <2> QED
      BY <1>2, <2>1, Zenon DEF UnitInv, TaskInv, One
  <1>4. ThreadInv(u)'
    BY ThreadInvSame, Zenon DEF UnitInv, SameStatus
  <1>5. ASSUME NEW p \in Packets PROVE PacketInv(u, p)'
    <2>1. PacketInv(u, p) /\ Held(u, p)' = Held(u, p)
      BY Zenon DEF UnitInv, Held, SameThread
    <2>2. InTransit(u, p)' <=> InTransit(u, p)
      BY <1>2, Zenon DEF InTransit, UnitInv, TaskInv
    <2>3. Times(port[u], p) \in Nat /\ Times(queue[u], p) \in Nat
      BY TimesNat
    <2>4. CASE m = p
      <3>1. p = sends[u] + 1 /\ sends'[u] = p
        BY <2>4 DEF Dummy, Packets
      <3>2. status[u][p] = "new" /\ Times(port[u], p) = 0 /\ Times(queue[u], p) = 0 /\ p \notin replied[u]
        BY <1>1, <2>1, <2>3, <3>1, SMT DEF PacketInv, One
      <3>3. Times(port'[u], p) = 1
        BY <1>2, <2>4, <3>2
      <3>4. ~InTransit(u, p)
        BY <2>1, <3>2 DEF PacketInv
      <3>5. ~(sends'[u] < p) /\ p <= sends'[u] /\ p \in Nat
        BY <1>1, <3>1
      <3>6. status'[u][p] = "new" /\ p \notin replied'[u] /\ Times(queue'[u], p) = 0
        BY <3>2, Zenon DEF SameStatus
      <3>7. Held(u, p)' = One(status'[u][p] = "handed")
        BY <2>1, Zenon DEF PacketInv, SameStatus
      <3>8. One(p \in replied'[u]) = 0 /\ One(p <= sends'[u]) = 1
        BY <3>5, <3>6, Zenon DEF One
      <3> QED
        BY <2>2, <3>3, <3>4, <3>5, <3>6, <3>7, <3>8 DEF PacketInv
    <2>5. CASE m # p
      <3>1. Times(port'[u], p) = Times(port[u], p)
        BY <1>2, <2>3, <2>5
      <3>2. One(p <= sends'[u]) = One(p <= sends[u]) /\ (sends'[u] < p => sends[u] < p)
        BY <1>1, <2>5 DEF One, Packets
      <3> QED
        BY <2>1, <2>2, <3>1, <3>2, Zenon DEF PacketInv, SameStatus
    <2> QED
      BY <2>4, <2>5
  <1> QED
    BY <1>3, <1>4, <1>5 DEF UnitInv

\* The task at a packet: nobody else has it, and nothing has been done for it.
LEMMA NextPacket ==
  ASSUME Types, NEW u \in Units, UnitInv(u), port[u] # <<>>, Head(port[u]) # Dummy
  PROVE  /\ Packet(u) \in Packets /\ Tail(port[u]) \in Seq(0..MaxPackets)
         /\ Times(queue[u], Packet(u)) = 0 /\ Packet(u) \notin replied[u]
         /\ Packet(u) <= sends[u] /\ Times(Tail(port[u]), Packet(u)) = 0
         /\ \A p : Times(port[u], p) = (IF Packet(u) = p THEN 1 ELSE 0) + Times(Tail(port[u]), p)
         /\ \A p : Times(Tail(port[u]), p) \in Nat
         /\ tpc[u] # "hand" => status[u][Packet(u)] = "new" /\ Held(u, Packet(u)) = 0
         /\ tpc[u] = "hand" => status[u][Packet(u)] \in {"handed", "done", "timeout"}
         /\ \A p \in Packets : <<Packet(u)>> \o queue[u] \in Seq(Packets) /\
              Times(<<Packet(u)>> \o queue[u], p) = (IF Packet(u) = p THEN 1 ELSE 0) + Times(queue[u], p)
  <1> DEFINE h == Packet(u)
             t == Tail(port[u])
  <1>1. /\ port[u] \in Seq(0..MaxPackets) /\ queue[u] \in Seq(Packets) /\ sends[u] \in 0..MaxPackets
    BY DEF Types, PortTypes, TaskTypes
  <1>2. h \in 0..MaxPackets /\ t \in Seq(0..MaxPackets)
        /\ \A p : Times(port[u], p) = (IF h = p THEN 1 ELSE 0) + Times(t, p)
    <2>1. h = Head(port[u])
      BY DEF Packet
    <2>2. h \in 0..MaxPackets /\ t \in Seq(0..MaxPackets)
      BY <1>1, <2>1, HeadTailProperties, Zenon
    <2>3. \A p : Times(port[u], p) = (IF h = p THEN 1 ELSE 0) + Times(t, p)
      <3> DEFINE S == 0..MaxPackets
      <3>1. port[u] \in Seq(S)
        BY <1>1
      <3> HIDE DEF S, h
      <3> QED
        BY <2>1, <3>1, TimesTail
    <2> QED
      BY <2>2, <2>3
  <1>3. h \in Packets
    BY <1>2 DEF Dummy, Packets, Packet
  <1>4. \A p : Times(t, p) \in Nat
    BY <1>2, TimesIs, Zenon
  <1>5. PacketInv(u, h)
    BY <1>3 DEF UnitInv
  <1>6. Times(port[u], h) = 1 + Times(t, h)
    BY <1>2
  <1>7. Times(queue[u], h) = 0 /\ h \notin replied[u] /\ h <= sends[u] /\ Times(t, h) = 0
    <2>1. Times(queue[u], h) \in Nat /\ Times(t, h) \in Nat
      BY <1>4, TimesNat
    <2> HIDE DEF h, t
    <2> QED
      BY <1>1, <1>3, <1>5, <1>6, <2>1, SMT DEF PacketInv, One, Packets
  <1>8. tpc[u] # "hand" => status[u][h] = "new" /\ Held(u, h) = 0
    <2> SUFFICES ASSUME tpc[u] # "hand" PROVE status[u][h] = "new" /\ Held(u, h) = 0
      OBVIOUS
    <2>1. ~InTransit(u, h)
      BY DEF InTransit
    <2>2. status[u][h] = "new"
      BY <1>5, <1>6, <1>7, <2>1, SMT DEF PacketInv
    <2> QED
      BY <1>5, <2>2 DEF PacketInv, One
  <1>9. tpc[u] = "hand" => status[u][h] \in {"handed", "done", "timeout"}
    BY <1>5 DEF PacketInv, InTransit, Packet
  <1>10. \A p \in Packets : <<h>> \o queue[u] \in Seq(Packets) /\
           Times(<<h>> \o queue[u], p) = (IF h = p THEN 1 ELSE 0) + Times(queue[u], p)
    BY <1>1, <1>3, TimesPrepend
  <1> QED
    BY <1>2, <1>3, <1>4, <1>7, <1>8, <1>9, <1>10, Zenon

\* The packet goes from the port into the task's list.
LEMMA UnitPutOff ==
  ASSUME Types, NEW u \in Units, UnitInv(u), TaskPutOff(u) PROVE UnitInv(u)'
  <1> DEFINE h == Packet(u)
             t == Tail(port[u])
  <1>1. port[u] # <<>> /\ Head(port[u]) # Dummy /\ tpc[u] = "loop"
    BY DEF TaskPutOff, AtPacket
  <1>2. /\ port'[u] = t /\ queue'[u] = <<h>> \o queue[u] /\ tpc'[u] = "loop" /\ d5'[u] = d5[u]
        /\ sends'[u] = sends[u] /\ replied'[u] = replied[u]
    BY <1>1, Zenon DEF TaskPutOff, Enqueue, Types, PortTypes, TaskTypes
  <1>3. h \in Packets /\ \A q \in Packets : status'[u][q] = IF q = h THEN "unstarted" ELSE status[u][q]
    BY <1>1, NextPacket, StatusPut, Zenon DEF TaskPutOff, Types, Statuses
  <1>4. SameThread(u)
    BY Zenon DEF TaskPutOff, SameThread, thread
  <1>5. /\ Times(queue[u], h) = 0 /\ h \notin replied[u] /\ h <= sends[u] /\ Times(t, h) = 0
        /\ \A p : Times(port[u], p) = (IF h = p THEN 1 ELSE 0) + Times(t, p) /\ Times(t, p) \in Nat
        /\ status[u][h] = "new" /\ Held(u, h) = 0
        /\ \A p \in Packets : Times(queue'[u], p) = (IF h = p THEN 1 ELSE 0) + Times(queue[u], p)
    BY <1>1, <1>2, NextPacket, Zenon
  <1>6. sends[u] \in Nat
    BY DEF Types, PortTypes
  <1> HIDE DEF h, t
  <1>7. TaskInv(u)'
    <2>1. StartedSet(u)' = StartedSet(u)
      <3> SUFFICES ASSUME NEW p \in Packets
                   PROVE  Times(queue'[u], p) > 0 /\ status'[u][p] # "unstarted"
                            <=> Times(queue[u], p) > 0 /\ status[u][p] # "unstarted"
        BY DEF StartedSet
      <3> QED
        BY <1>3, <1>5, TimesNat
    <2>2. One(tpc'[u] = "hand") = One(tpc[u] = "hand")
      BY <1>1, <1>2, Zenon
    <2> QED
      BY <1>1, <1>2, <2>1, <2>2, Zenon DEF UnitInv, TaskInv
  <1>8. ThreadInv(u)'
    BY <1>3, <1>4, <1>5, ThreadInvSame DEF UnitInv
  <1>9. ASSUME NEW p \in Packets PROVE PacketInv(u, p)'
    <2>1. PacketInv(u, p) /\ Held(u, p)' = Held(u, p)
      BY <1>4, Zenon DEF UnitInv, Held, SameThread
    <2>2. ~InTransit(u, p) /\ ~InTransit(u, p)'
      BY <1>1, <1>2 DEF InTransit
    <2>3. Times(port[u], p) \in Nat /\ Times(queue[u], p) \in Nat
      BY TimesNat
    <2>4. CASE p = h
      <3>1. /\ Times(port'[u], p) = 0 /\ Times(queue'[u], p) = 1 /\ status'[u][p] = "unstarted"
            /\ p \notin replied'[u] /\ Held(u, p)' = 0 /\ p <= sends'[u] /\ ~(sends'[u] < p)
        BY <1>2, <1>3, <1>5, <1>6, <2>1, <2>3, <2>4 DEF Packets
      <3> QED
        BY <2>2, <3>1, SMT DEF PacketInv, One
    <2>5. CASE p # h
      <3>1. /\ Times(port'[u], p) = Times(port[u], p) /\ Times(queue'[u], p) = Times(queue[u], p)
            /\ status'[u][p] = status[u][p]
        BY <1>2, <1>3, <1>5, <2>3, <2>5
      <3> QED
        BY <1>2, <2>1, <2>2, <3>1, Zenon DEF PacketInv
    <2> QED
      BY <2>4, <2>5
  <1> QED
    BY <1>7, <1>8, <1>9 DEF UnitInv

LEMMA UnitRefuse ==
  ASSUME Types, NEW u \in Units, UnitInv(u), TaskRefuse(u) PROVE UnitInv(u)'
  <1> DEFINE h == Packet(u)
             t == Tail(port[u])
  <1>1. port[u] # <<>> /\ Head(port[u]) # Dummy /\ tpc[u] = "loop"
    BY DEF TaskRefuse, AtPacket
  <1>2. /\ port'[u] = t /\ queue'[u] = queue[u] /\ tpc'[u] = "loop" /\ d5'[u] = d5[u]
        /\ sends'[u] = sends[u] /\ replied'[u] = replied[u] \cup {h}
    BY <1>1, Zenon DEF TaskRefuse, Types, PortTypes, TaskTypes
  <1>3. h \in Packets /\ \A q \in Packets : status'[u][q] = IF q = h THEN "done" ELSE status[u][q]
    BY <1>1, NextPacket, StatusPut, Zenon DEF TaskRefuse, Types, Statuses
  <1>4. SameThread(u)
    BY Zenon DEF TaskRefuse, SameThread, thread
  <1>5. /\ Times(queue[u], h) = 0 /\ h \notin replied[u] /\ h <= sends[u] /\ Times(t, h) = 0
        /\ \A p : Times(port[u], p) = (IF h = p THEN 1 ELSE 0) + Times(t, p) /\ Times(t, p) \in Nat
        /\ status[u][h] = "new" /\ Held(u, h) = 0
    BY <1>1, NextPacket, Zenon
  <1>6. sends[u] \in Nat
    BY DEF Types, PortTypes
  <1> HIDE DEF h, t
  <1>7. TaskInv(u)'
    <2>1. StartedSet(u)' = StartedSet(u)
      <3> SUFFICES ASSUME NEW p \in Packets
                   PROVE  Times(queue'[u], p) > 0 /\ status'[u][p] # "unstarted"
                            <=> Times(queue[u], p) > 0 /\ status[u][p] # "unstarted"
        BY DEF StartedSet
      <3> QED
        BY <1>2, <1>3, <1>5, TimesNat
    <2>2. One(tpc'[u] = "hand") = One(tpc[u] = "hand")
      BY <1>1, <1>2, Zenon
    <2> QED
      BY <1>1, <1>2, <2>1, <2>2, Zenon DEF UnitInv, TaskInv
  <1>8. ThreadInv(u)'
    BY <1>3, <1>4, <1>5, ThreadInvSame DEF UnitInv
  <1>9. ASSUME NEW p \in Packets PROVE PacketInv(u, p)'
    <2>1. PacketInv(u, p) /\ Held(u, p)' = Held(u, p)
      BY <1>4, Zenon DEF UnitInv, Held, SameThread
    <2>2. ~InTransit(u, p) /\ ~InTransit(u, p)'
      BY <1>1, <1>2 DEF InTransit
    <2>3. CASE p = h
      <3>1. /\ Times(port'[u], p) = 0 /\ Times(queue'[u], p) = 0 /\ status'[u][p] = "done"
            /\ p \in replied'[u] /\ Held(u, p)' = 0 /\ p <= sends'[u] /\ ~(sends'[u] < p)
        BY <1>2, <1>3, <1>5, <1>6, <2>1, <2>3 DEF Packets
      <3> QED
        BY <2>2, <3>1, SMT DEF PacketInv, One
    <2>4. CASE p # h
      <3>1. /\ Times(port'[u], p) = Times(port[u], p) /\ Times(queue'[u], p) = Times(queue[u], p)
            /\ status'[u][p] = status[u][p] /\ (p \in replied'[u] <=> p \in replied[u])
        BY <1>2, <1>3, <1>5, <2>4
      <3> QED
        BY <1>2, <2>1, <2>2, <3>1, Zenon DEF PacketInv, One
    <2> QED
      BY <2>3, <2>4
  <1> QED
    BY <1>7, <1>8, <1>9 DEF UnitInv

LEMMA PipeGrows ==
  ASSUME NEW w \in Seq(Packets), NEW m \in Packets
  PROVE  /\ Len(Append(w, m)) = Len(w) + 1
         /\ \A p : Times(Append(w, m), p) = Times(w, p) + IF m = p THEN 1 ELSE 0
  <1>1. Len(Append(w, m)) = Len(w) + 1
    BY AppendProperties
  <1>2. ASSUME NEW p PROVE Times(Append(w, m), p) = Times(w, p) + IF m = p THEN 1 ELSE 0
    <2>1. CASE m = p
      BY <2>1, AppendMore, Zenon
    <2>2. CASE m # p
      <3>1. Times(Append(w, m), p) = Times(w, p)
        BY <2>2, AppendSame, Zenon
      <3>2. Times(w, p) \in Nat
        BY TimesIs, Zenon
      <3> QED
        BY <2>2, <3>1, <3>2
    <2> QED
      BY <2>1, <2>2, Zenon
  <1> QED
    BY <1>1, <1>2

\* The packet goes to the thread, while the task still has it.
LEMMA UnitHand ==
  ASSUME Types, NEW u \in Units, UnitInv(u), TaskHand(u) PROVE UnitInv(u)'
  <1> DEFINE h == Packet(u)
  <1>1. port[u] # <<>> /\ Head(port[u]) # Dummy /\ tpc[u] = "loop" /\ d5[u] < MaxStarted
    <2>1. ~(d5[u] >= MaxStarted) /\ d5[u] \in Nat
      BY Zenon DEF TaskHand, AtLimit, Types, TaskTypes
    <2> QED
      BY <2>1, ExterAssumption DEF TaskHand, AtPacket
  <1>2. /\ port'[u] = port[u] /\ queue'[u] = queue[u] /\ tpc'[u] = "hand" /\ d5'[u] = d5[u]
        /\ sends'[u] = sends[u] /\ replied'[u] = replied[u]
        /\ unit_pipe'[u] = Append(unit_pipe[u], h) /\ thpc'[u] = thpc[u] /\ pck'[u] = pck[u]
        /\ waitingrecords'[u] = waitingrecords[u]
    BY Zenon DEF TaskHand, Put, Types, ThreadTypes, TaskTypes, ports
  <1>3. h \in Packets /\ \A q \in Packets : status'[u][q] = IF q = h THEN "handed" ELSE status[u][q]
    BY <1>1, NextPacket, StatusPut, Zenon DEF TaskHand, Types, Statuses
  <1>4. /\ Times(queue[u], h) = 0 /\ h \notin replied[u] /\ h <= sends[u] /\ status[u][h] = "new"
        /\ Held(u, h) = 0
    BY <1>1, NextPacket, Zenon
  <1>5. h = Head(port[u])
    BY DEF Packet
  <1>9. /\ Len(unit_pipe'[u]) = Len(unit_pipe[u]) + 1
        /\ \A p : Times(unit_pipe'[u], p) = Times(unit_pipe[u], p) + IF h = p THEN 1 ELSE 0
    BY <1>2, <1>3, HostSizes, PipeGrows
  <1> HIDE DEF h
  <1>6. TaskInv(u)'
    <2>1. StartedSet(u)' = StartedSet(u)
      <3> SUFFICES ASSUME NEW p \in Packets
                   PROVE  Times(queue'[u], p) > 0 /\ status'[u][p] # "unstarted"
                            <=> Times(queue[u], p) > 0 /\ status[u][p] # "unstarted"
        BY DEF StartedSet
      <3> QED
        BY <1>2, <1>3, <1>4, TimesNat
    <2>2. One(tpc'[u] = "hand") = 1 /\ d5[u] \in Nat
      BY <1>2, Zenon DEF One, Types, TaskTypes
    <2>3. d5[u] + 1 <= MaxStarted
      BY <1>1, <2>2, ExterAssumption
    <2> QED
      BY <1>1, <1>2, <2>1, <2>2, <2>3, Zenon DEF UnitInv, TaskInv
  <1>7. ThreadInv(u)'
    <2>1. Cardinality(HandedSet(u)') = Cardinality(HandedSet(u)) + 1
      BY <1>3, <1>4, HandedMore
    <2>2. Len(unit_pipe'[u]) = Len(unit_pipe[u]) + 1
      BY <1>9
    <2>3. One(InHand(u)') = One(InHand(u)) /\ One(InHand(u)) \in {0, 1}
      BY <1>2, Zenon DEF One, InHand
    <2>4. Load(u)' = Len(unit_pipe'[u]) + Cardinality(waitingrecords[u]) + One(InHand(u))
      BY <1>2, <2>3, Zenon DEF Load
    <2>5. Load(u)' = Load(u) + 1
      <3>1. Load(u) = Len(unit_pipe[u]) + Cardinality(waitingrecords[u]) + One(InHand(u))
        BY Zenon DEF Load
      <3> QED
        BY <2>2, <2>3, <2>4, <3>1, HostSizes
    <2>6. InHand(u)' => pck'[u] \in Packets
      BY <1>2, Zenon DEF InHand, UnitInv, ThreadInv
    <2> QED
      BY <2>1, <2>5, <2>6, Zenon DEF UnitInv, ThreadInv
  <1>8. ASSUME NEW p \in Packets PROVE PacketInv(u, p)'
    <2>1. PacketInv(u, p)
      BY DEF UnitInv
    <2>2. ~InTransit(u, p) /\ (InTransit(u, p)' <=> p = h)
      BY <1>1, <1>2, <1>5 DEF InTransit
    <2>3. CASE p = h
      <3>1. Held(u, p)' = 1
        <4>1. Times(unit_pipe'[u], p) = Times(unit_pipe[u], p) + 1
          BY <1>9, <2>3
        <4>2. Held(u, p) = 0 /\ Times(unit_pipe[u], p) \in Nat
          BY <1>4, <2>3, TimesNat, Zenon
        <4>3. p \notin waitingrecords[u] /\ ~(thpc[u] \in {"handle", "mark"} /\ pck[u] = p)
          BY <4>2 DEF Held
        <4> QED
          BY <1>2, <4>1, <4>2, <4>3 DEF Held
      <3>2. status'[u][p] = "handed" /\ status[u][p] = "new" /\ p \notin replied[u]
        BY <1>3, <1>4, <2>3
      <3>3. ~(sends[u] < p)
        BY <1>4, <2>3 DEF Packets, Types, PortTypes
      <3> QED
        BY <1>2, <2>1, <2>2, <2>3, <3>1, <3>2, <3>3, SMT DEF PacketInv, One
    <2>4. CASE p # h
      <3>1. Times(unit_pipe'[u], p) = Times(unit_pipe[u], p)
        BY <1>9, <2>4, TimesNat
      <3>2. Held(u, p)' = Held(u, p)
        BY <1>2, <3>1, Zenon DEF Held
      <3>3. status'[u][p] = status[u][p]
        BY <1>3, <2>4
      <3> QED
        BY <1>2, <2>1, <2>2, <2>4, <3>2, <3>3, Zenon DEF PacketInv
    <2> QED
      BY <2>3, <2>4
  <1> QED
    BY <1>6, <1>7, <1>8 DEF UnitInv

\* The task counts the packet, and has it in its list from then on.
LEMMA UnitQueue ==
  ASSUME Types, NEW u \in Units, UnitInv(u), TaskQueue(u) PROVE UnitInv(u)'
  <1> DEFINE h == Packet(u)
             t == Tail(port[u])
  <1>1. tpc[u] = "hand" /\ port[u] # <<>> /\ Head(port[u]) # Dummy
    BY DEF TaskQueue, UnitInv, TaskInv
  <1>2. /\ port'[u] = t /\ queue'[u] = <<h>> \o queue[u] /\ tpc'[u] = "loop" /\ d5'[u] = d5[u] + 1
        /\ sends'[u] = sends[u] /\ replied'[u] = replied[u]
    BY Zenon DEF TaskQueue, Enqueue, Put, Types, PortTypes, TaskTypes
  <1>3. SameThread(u) /\ SameStatus(u)
    BY Zenon DEF TaskQueue, SameThread, SameStatus, thread
  <1>4. /\ h \in Packets /\ Times(queue[u], h) = 0 /\ h \notin replied[u] /\ h <= sends[u]
        /\ Times(t, h) = 0 /\ status[u][h] \in {"handed", "done", "timeout"}
        /\ \A p : Times(port[u], p) = (IF h = p THEN 1 ELSE 0) + Times(t, p) /\ Times(t, p) \in Nat
        /\ \A p \in Packets : Times(queue'[u], p) = (IF h = p THEN 1 ELSE 0) + Times(queue[u], p)
    BY <1>1, <1>2, NextPacket, Zenon
  <1>5. sends[u] \in Nat /\ d5[u] \in Nat
    BY DEF Types, PortTypes, TaskTypes
  <1>6. h = Head(port[u])
    BY DEF Packet
  <1> HIDE DEF h, t
  <1>7. TaskInv(u)'
    <2>1. StartedSet(u)' = StartedSet(u) \cup {h} /\ h \notin StartedSet(u)
      <3>1. ASSUME NEW p \in Packets
            PROVE  Times(queue'[u], p) > 0 /\ status'[u][p] # "unstarted"
                     <=> p = h \/ (Times(queue[u], p) > 0 /\ status[u][p] # "unstarted")
        BY <1>3, <1>4, TimesNat DEF SameStatus
      <3>2. h \notin StartedSet(u)
        BY <1>4 DEF StartedSet
      <3> QED
        BY <1>4, <3>1, <3>2 DEF StartedSet
    <2>2. Cardinality(StartedSet(u)') = Cardinality(StartedSet(u)) + 1
      <3>1. IsFiniteSet(StartedSet(u))
        BY FinitePackets DEF StartedSet
      <3> QED
        BY <2>1, <3>1, FS_AddElement
    <2>3. One(tpc'[u] = "hand") = 0 /\ One(tpc[u] = "hand") = 1
      BY <1>1, <1>2, Zenon DEF One
    <2>4. d5[u] = Cardinality(StartedSet(u)) /\ d5[u] + 1 <= MaxStarted
      BY <2>3 DEF UnitInv, TaskInv
    <2>5. d5'[u] = Cardinality(StartedSet(u)') /\ d5'[u] + One(tpc'[u] = "hand") <= MaxStarted
      BY <1>2, <1>5, <2>2, <2>3, <2>4, ExterAssumption
    <2> QED
      BY <1>2, <2>5, Zenon DEF TaskInv
  <1>8. ThreadInv(u)'
    BY <1>3, ThreadInvSame, Zenon DEF UnitInv, SameStatus
  <1>9. ASSUME NEW p \in Packets PROVE PacketInv(u, p)'
    <2>1. PacketInv(u, p) /\ Held(u, p)' = Held(u, p)
      BY <1>3, Zenon DEF UnitInv, Held, SameThread
    <2>2. ~InTransit(u, p)' /\ (InTransit(u, p) <=> p = h)
      BY <1>1, <1>2, <1>6 DEF InTransit
    <2>3. CASE p = h
      <3>1. /\ Times(port'[u], p) = 0 /\ Times(queue'[u], p) = 1 /\ p \notin replied'[u]
            /\ p <= sends'[u] /\ ~(sends'[u] < p)
            /\ status'[u][p] = status[u][p] /\ status[u][p] \in {"handed", "done", "timeout"}
        BY <1>2, <1>3, <1>4, <1>5, <2>3 DEF Packets, SameStatus
      <3>2. Held(u, p)' = One(status'[u][p] = "handed")
        BY <2>1, <3>1, Zenon DEF PacketInv
      <3>3. One(p \in replied'[u]) = 0 /\ One(p <= sends'[u]) = 1
        BY <3>1, Zenon DEF One
      <3> QED
        BY <2>2, <3>1, <3>2, <3>3 DEF PacketInv
    <2>4. CASE p # h
      <3>1. /\ Times(port'[u], p) = Times(port[u], p) /\ Times(queue'[u], p) = Times(queue[u], p)
        <4>1. Times(queue[u], p) \in Nat /\ Times(t, p) \in Nat
          BY <1>4, TimesNat, Zenon
        <4>2. Times(queue'[u], p) = Times(queue[u], p)
          BY <1>4, <2>4, <4>1
        <4>3. Times(t, p) = Times(port[u], p)
          BY <1>4, <2>4, <4>1
        <4> QED
          BY <1>2, <4>2, <4>3, Zenon
      <3> QED
        BY <1>2, <1>3, <2>1, <2>2, <2>4, <3>1, Zenon DEF PacketInv, SameStatus
    <2> QED
      BY <2>3, <2>4
  <1> QED
    BY <1>7, <1>8, <1>9 DEF UnitInv

LEMMA UnitDummy ==
  ASSUME Types, NEW u \in Units, UnitInv(u), TaskDummy(u) PROVE UnitInv(u)'
  <1>1. /\ tpc[u] = "loop" /\ port[u] # <<>> /\ Head(port[u]) = Dummy
        /\ port'[u] = Tail(port[u]) /\ tpc'[u] = "release" /\ queue'[u] = queue[u] /\ d5'[u] = d5[u]
        /\ sends'[u] = sends[u] /\ replied'[u] = replied[u] /\ SameThread(u) /\ SameStatus(u)
    BY Zenon DEF TaskDummy, Put, Types, PortTypes, TaskTypes, SameThread, SameStatus, thread
  <1>2. ASSUME NEW p \in Packets
        PROVE  Times(port'[u], p) = Times(port[u], p) /\ ~InTransit(u, p) /\ ~InTransit(u, p)'
    <2>1. port[u] \in Seq(0..MaxPackets) /\ Dummy # p
      BY DEF Types, PortTypes, Dummy, Packets
    <2>2. /\ Times(port[u], p) = (IF Dummy = p THEN 1 ELSE 0) + Times(Tail(port[u]), p)
          /\ Tail(port[u]) \in Seq(0..MaxPackets)
      BY <1>1, <2>1, TimesTail
    <2>3. Times(Tail(port[u]), p) \in Nat
      BY <2>2, TimesIs, Zenon
    <2> QED
      BY <1>1, <2>1, <2>2, <2>3 DEF InTransit
  <1>3. TaskInv(u)'
    <2>1. StartedSet(u)' = StartedSet(u)
      BY <1>1, Zenon DEF StartedSet, SameStatus
    <2>2. One(tpc'[u] = "hand") = One(tpc[u] = "hand")
      BY <1>1, Zenon
    <2> QED
      BY <1>1, <2>1, <2>2, Zenon DEF UnitInv, TaskInv
  <1>4. ThreadInv(u)'
    BY <1>1, ThreadInvSame, Zenon DEF UnitInv, SameStatus
  <1>5. ASSUME NEW p \in Packets PROVE PacketInv(u, p)'
    <2>1. PacketInv(u, p) /\ Held(u, p)' = Held(u, p)
      BY <1>1, Zenon DEF UnitInv, Held, SameThread
    <2> QED
      BY <1>1, <1>2, <2>1, Zenon DEF PacketInv, SameStatus
  <1> QED
    BY <1>3, <1>4, <1>5 DEF UnitInv

LEMMA UnitReply ==
  ASSUME Types, NEW u \in Units, UnitInv(u), TaskReply(u) PROVE UnitInv(u)'
  <1> DEFINE h == Head(scan[u])
  <1>1. /\ tpc[u] \in {"done", "timeout"} /\ status[u][h] = tpc[u]
        /\ port'[u] = port[u] /\ tpc'[u] = tpc[u] /\ sends'[u] = sends[u]
        /\ d5'[u] = d5[u] - 1 /\ replied'[u] = replied[u] \cup {h} /\ SameThread(u) /\ SameStatus(u)
    BY Zenon DEF TaskReply, Put, Walking, Types, TaskTypes, SameThread, SameStatus, thread, ports
  <1>2. PICK i \in 1..Len(queue[u]) : queue[u][i] = h /\ queue'[u] = RemoveAt(queue[u], i)
    BY Zenon DEF TaskReply, Put, Types, TaskTypes
  <1>3. h \in Packets /\ queue[u] \in Seq(Packets)
    BY HeadTailProperties DEF Types, TaskTypes, TaskReply
  <1> HIDE DEF h
  <1>4. \A p : Times(queue[u], p) = (IF h = p THEN 1 ELSE 0) + Times(queue'[u], p)
               /\ Times(queue'[u], p) \in Nat
    BY <1>2, <1>3, TimesRemove, TimesIs
  <1>5. Times(queue'[u], h) = 0 /\ Times(port[u], h) = 0 /\ h \notin replied[u] /\ h <= sends[u]
    <2>1. PacketInv(u, h) /\ Times(port[u], h) \in Nat
      BY <1>3, TimesNat DEF UnitInv
    <2> QED
      BY <1>3, <1>4, <2>1, SMT DEF PacketInv, One
  <1>6. TaskInv(u)'
    <2>1. StartedSet(u)' = StartedSet(u) \ {h} /\ h \in StartedSet(u)
      <3>1. ASSUME NEW p \in Packets
            PROVE  Times(queue'[u], p) > 0 /\ status'[u][p] # "unstarted"
                     <=> p # h /\ Times(queue[u], p) > 0 /\ status[u][p] # "unstarted"
        BY <1>1, <1>4, <1>5 DEF SameStatus
      <3>2. Times(queue[u], h) > 0 /\ status[u][h] # "unstarted"
        BY <1>1, <1>4, <1>5
      <3> QED
        BY <1>3, <3>1, <3>2 DEF StartedSet
    <2>2. Cardinality(StartedSet(u)') = Cardinality(StartedSet(u)) - 1
      <3>1. IsFiniteSet(StartedSet(u))
        BY FinitePackets DEF StartedSet
      <3> QED
        BY <2>1, <3>1, FS_RemoveElement
    <2>3. One(tpc'[u] = "hand") = 0 /\ One(tpc[u] = "hand") = 0 /\ tpc[u] # "hand"
      BY <1>1 DEF One
    <2>4. d5[u] = Cardinality(StartedSet(u)) /\ d5[u] + 0 <= MaxStarted /\ d5[u] \in Nat
      BY <2>3 DEF UnitInv, TaskInv, Types, TaskTypes
    <2>5. d5'[u] = Cardinality(StartedSet(u)') /\ d5'[u] + One(tpc'[u] = "hand") <= MaxStarted
      BY <1>1, <2>2, <2>3, <2>4, ExterAssumption
    <2> QED
      BY <1>1, <2>3, <2>5, Zenon DEF TaskInv
  <1>7. ThreadInv(u)'
    BY <1>1, ThreadInvSame, Zenon DEF UnitInv, SameStatus
  <1>8. ASSUME NEW p \in Packets PROVE PacketInv(u, p)'
    <2>1. PacketInv(u, p) /\ Held(u, p)' = Held(u, p)
      BY <1>1, Zenon DEF UnitInv, Held, SameThread
    <2>2. ~InTransit(u, p)' /\ ~InTransit(u, p) /\ status'[u][p] = status[u][p]
      BY <1>1 DEF InTransit, SameStatus
    <2>3. CASE p = h
      <3>1. /\ Times(port'[u], p) = 0 /\ Times(queue'[u], p) = 0 /\ p \in replied'[u] /\ p <= sends'[u]
            /\ status'[u][p] \in {"done", "timeout"}
        BY <1>1, <1>5, <2>2, <2>3
      <3>2. Held(u, p)' = One(status'[u][p] = "handed") /\ (sends'[u] < p => status'[u][p] = "new")
        BY <1>1, <2>1, <2>2, Zenon DEF PacketInv
      <3>3. One(p \in replied'[u]) = 1 /\ One(p <= sends'[u]) = 1
        BY <3>1, Zenon DEF One
      <3> QED
        BY <2>2, <3>1, <3>2, <3>3 DEF PacketInv
    <2>4. CASE p # h
      <3>1. Times(queue'[u], p) = Times(queue[u], p) /\ (p \in replied'[u] <=> p \in replied[u])
        BY <1>1, <1>4, <2>4
      <3> QED
        BY <1>1, <2>1, <2>2, <3>1, Zenon DEF PacketInv, One
    <2> QED
      BY <2>3, <2>4
  <1> QED
    BY <1>6, <1>7, <1>8 DEF UnitInv

\* It moves on without a packet.
LEMMA UnitMoves ==
  ASSUME Types, NEW u \in Units, UnitInv(u),
         TaskRelease(u) \/ TaskSleep(u) \/ TaskWake(u) \/ TaskPass(u) \/ TaskScanned(u)
  PROVE  UnitInv(u)'
  <1>1. /\ tpc[u] # "hand" /\ tpc'[u] # "hand"
        /\ port'[u] = port[u] /\ sends'[u] = sends[u] /\ queue'[u] = queue[u] /\ d5'[u] = d5[u]
        /\ replied'[u] = replied[u] /\ SameThread(u) /\ SameStatus(u)
    BY SMT DEF TaskRelease, TaskSleep, TaskWake, TaskPass, TaskScanned, Put, Walking, Types, TaskTypes,
       SameThread, SameStatus, thread, ports
  <1>2. TaskInv(u)'
    <2>1. StartedSet(u)' = StartedSet(u)
      BY <1>1, Zenon DEF StartedSet, SameStatus
    <2>2. One(tpc'[u] = "hand") = One(tpc[u] = "hand")
      BY <1>1, Zenon DEF One
    <2> QED
      BY <1>1, <2>1, <2>2, Zenon DEF UnitInv, TaskInv
  <1>3. ThreadInv(u)'
    BY <1>1, ThreadInvSame, Zenon DEF UnitInv, SameStatus
  <1>4. ASSUME NEW p \in Packets PROVE PacketInv(u, p)'
    <2>1. PacketInv(u, p) /\ Held(u, p)' = Held(u, p) /\ ~InTransit(u, p) /\ ~InTransit(u, p)'
      BY <1>1, Zenon DEF UnitInv, Held, SameThread, InTransit
    <2> QED
      BY <1>1, <2>1, Zenon DEF PacketInv, SameStatus
  <1> QED
    BY <1>2, <1>3, <1>4 DEF UnitInv

LEMMA UnitTask ==
  ASSUME Types, NEW u \in Units, UnitInv(u), ClientSend(u) \/ HandlerTask(u) PROVE UnitInv(u)'
  <1>1. CASE ClientSend(u)
    <2>1. sends[u] + 1 \in Packets
      BY <1>1, TypesAre, SendRoom
    <2>2. sends[u] + 1 \in 0..MaxPackets
      BY <2>1 DEF Packets
    <2>3. port'[u] = Append(port[u], sends[u] + 1) /\ sends'[u] = sends[u] + 1
      BY <1>1, Zenon DEF ClientSend, Types, PortTypes
    <2>4. /\ tpc'[u] = tpc[u] /\ queue'[u] = queue[u] /\ d5'[u] = d5[u] /\ replied'[u] = replied[u]
          /\ SameThread(u) /\ SameStatus(u)
      BY <1>1, Zenon DEF ClientSend, SameThread, SameStatus, thread, task
    <2> QED
      BY <2>1, <2>2, <2>3, <2>4, UnitPut, Zenon
  <1>2. CASE HandlerTask(u)
    BY <1>2, UnitPutOff, UnitRefuse, UnitHand, UnitQueue, UnitDummy, UnitReply, UnitMoves, Zenon
    DEF HandlerTask
  <1> QED
    BY <1>1, <1>2

\* A unit's steps leave the others alone.
LEMMA OthersSame ==
  ASSUME Types, NEW u \in Units, FilesysThread(u) \/ RecordTimeout(u) \/ ClientSend(u) \/ HandlerTask(u),
         NEW v \in Units, v # u
  PROVE  Same(v)
  <1> USE DEF Put, Types, StatusType, Same, SameTask, SameThread, SameStatus, ports, task, thread,
          PortTypes, TaskTypes, ThreadTypes
  <1>1. CASE ThreadRead(u)
    BY <1>1, Zenon DEF ThreadRead
  <1>2. CASE ThreadKeep(u)
    BY <1>2, Zenon DEF ThreadKeep
  <1>3. CASE ThreadRelease(u)
    BY <1>3, Zenon DEF ThreadRelease
  <1>4. CASE ThreadSent(u)
    BY <1>4, Zenon DEF ThreadSent
  <1>5. CASE ThreadMark(u)
    BY <1>5, Zenon DEF ThreadMark
  <1>6. CASE ThreadRequest(u)
    BY <1>6, Zenon DEF ThreadRequest
  <1>7. CASE RecordTimeout(u)
    BY <1>7, Zenon DEF RecordTimeout
  <1>8. CASE ClientSend(u)
    BY <1>8, Zenon DEF ClientSend
  <1>9. CASE TaskPutOff(u)
    BY <1>9, Zenon DEF TaskPutOff, Enqueue
  <1>10. CASE TaskRefuse(u)
    BY <1>10, Zenon DEF TaskRefuse
  <1>11. CASE TaskHand(u)
    BY <1>11, Zenon DEF TaskHand
  <1>12. CASE TaskQueue(u)
    BY <1>12, Zenon DEF TaskQueue, Enqueue
  <1>13. CASE TaskDummy(u) \/ TaskSleep(u) \/ TaskScanned(u)
    BY <1>13, Zenon DEF TaskDummy, TaskSleep, TaskScanned
  <1>14. CASE TaskRelease(u) \/ TaskWake(u) \/ TaskPass(u)
    BY <1>14, Zenon DEF TaskRelease, TaskWake, TaskPass
  <1>15. CASE TaskReply(u)
    BY <1>15, Zenon DEF TaskReply
  <1> QED
    BY <1>1, <1>2, <1>3, <1>4, <1>5, <1>6, <1>7, <1>8, <1>9, <1>10, <1>11, <1>12, <1>13, <1>14, <1>15,
       Zenon DEF FilesysThread, HandlerTask

-----------------------------------------------------------------------------
(* The invariant is inductive.                                             *)

LEMMA InvPutMsg ==
  ASSUME Types, NEW u \in Units, UnitInv(u), PerformPutMsg PROVE UnitInv(u)'
  <1>1. target \in Units
    BY DEF PerformPutMsg, Types, HostTypes
  <1>2. /\ sends'[u] = sends[u] /\ tpc'[u] = tpc[u] /\ queue'[u] = queue[u] /\ d5'[u] = d5[u]
        /\ replied'[u] = replied[u] /\ SameThread(u) /\ SameStatus(u)
    BY Zenon DEF PerformPutMsg, SameThread, SameStatus, thread, task
  <1>3. CASE u = target
    <2>1. port'[u] = Append(port[u], Dummy) /\ Dummy \in 0..MaxPackets
      BY <1>1, <1>3, ExterAssumption DEF PerformPutMsg, Types, PortTypes, Dummy
    <2> QED
      BY <1>2, <2>1, UnitPut, Zenon
  <1>4. CASE u # target
    <2>1. Same(u)
      BY <1>2, <1>4, Zenon DEF PerformPutMsg, Types, PortTypes, Same, SameTask
    <2> QED
      BY <2>1, SameKept, Zenon
  <1> QED
    BY <1>3, <1>4

\* As everything starts.
Fresh(u) ==
  /\ port[u] = <<>> /\ sends[u] = 0 /\ tpc[u] = "loop" /\ queue[u] = <<>> /\ d5[u] = 0
  /\ replied[u] = {} /\ unit_pipe[u] = <<>> /\ thpc[u] = "read" /\ pck[u] = Dummy
  /\ waitingrecords[u] = {} /\ \A p \in Packets : status[u][p] = "new"

LEMMA FreshInv ==
  ASSUME NEW u \in Units, Fresh(u) PROVE UnitInv(u)
  <1>1. \A p : Times(<<>>, p) = 0
    BY TimesNone
  <1>2. StartedSet(u) = {}
    BY <1>1 DEF StartedSet, Fresh
  <1>3. HandedSet(u) = {}
    BY DEF HandedSet, Fresh
  <1>4. Cardinality({}) = 0 /\ Len(<<>>) = 0
    BY FS_EmptySet
  <1>5. TaskInv(u)
    BY <1>2, <1>4, ExterAssumption DEF TaskInv, Fresh, One
  <1>6. ThreadInv(u)
    BY <1>3, <1>4 DEF ThreadInv, Fresh, Load, InHand, One
  <1>7. ASSUME NEW p \in Packets PROVE PacketInv(u, p)
    <2>1. p \in Nat /\ 0 < p
      BY DEF Packets
    <2> QED
      BY <1>1, <2>1 DEF PacketInv, Fresh, Held, InTransit, One
  <1> QED
    BY <1>5, <1>6, <1>7 DEF UnitInv

LEMMA FreshAfter ==
  ASSUME NEW u \in Units PROVE Fresh(u)' => UnitInv(u)'
  <1>1. Fresh(u) => UnitInv(u)
    BY FreshInv
  <1> QED
    BY <1>1, PTL

LEMMA InvUnits ==
  ASSUME Types, \A u \in Units : UnitInv(u), [Next]_vars PROVE \A u \in Units : UnitInv(u)'
  <1> SUFFICES ASSUME NEW u \in Units PROVE UnitInv(u)'
    OBVIOUS
  <1>1. UnitInv(u)
    OBVIOUS
  <1>2. CASE UNCHANGED <<thread, ports, task, status>>
    <2>1. Same(u)
      BY <1>2, Zenon DEF Same, SameTask, SameThread, SameStatus, thread, ports, task
    <2> QED
      BY <1>1, <2>1, SameKept, Zenon
  <1>3. CASE UNCHANGED vars \/ NativeWrite \/ NativeRequest \/ Interrupt \/ ResetEnd
    BY <1>2, <1>3, Zenon DEF vars, NativeWrite, NativeRequest, Interrupt, ResetEnd
  <1>4. CASE ExterTask
    <2>1. CASE PerformPutMsg
      BY <1>1, <2>1, InvPutMsg
    <2>2. CASE PerformNative
      <3>1. Same(u)
        BY <2>2, Zenon DEF PerformNative, Same, SameTask, SameThread, SameStatus, thread, task
      <3> QED
        BY <1>1, <3>1, SameKept, Zenon
    <2>3. CASE HelperBusy \/ HelperFirst \/ HelperNext
      BY <1>2, <2>3, Zenon DEF HelperBusy, HelperFirst, HelperNext
    <2> QED
      BY <1>4, <2>1, <2>2, <2>3, Zenon DEF ExterTask
  <1>5. CASE ResetBegin
    <2>1. Fresh(u)'
      BY <1>5, SMT DEF ResetBegin, Each, Fresh
    <2> QED
      BY <2>1, FreshAfter
  <1>6. ASSUME NEW v \in Units, FilesysThread(v) \/ RecordTimeout(v) \/ ClientSend(v) \/ HandlerTask(v)
        PROVE  UnitInv(u)'
    <2>1. CASE v = u
      BY <1>1, <1>6, <2>1, UnitHost, UnitTask, Zenon
    <2>2. CASE v # u
      <3>1. Same(u)
        BY <1>6, <2>2, OthersSame, Zenon
      <3> QED
        BY <1>1, <3>1, SameKept, Zenon
    <2> QED
      BY <2>1, <2>2
  <1> QED
    BY <1>3, <1>4, <1>5, <1>6, Zenon DEF Next

\* What HelperFirst and HelperNext come to.
Helped(from) ==
  /\ expc \in {"wait", "next"} /\ (expc = "next" => from = unit_no /\ signalled' = signalled)
  /\ from = 1 \/ from = unit_no
  /\ FoundNative(from) \/ (\E u \in Units : FoundMessage(from, u)) \/ FoundNothing(from)
  /\ UNCHANGED <<uae_int_requested, n2apc, written, asked, done, thread, ports, task, status, reset>>
  /\ expc = "wait" => from = 1

LEMMA HelperCases ==
  ASSUME HelperFirst \/ HelperNext PROVE \E from \in {1, unit_no} : Helped(from)
  <1>1. CASE HelperFirst
    <2>1. Helped(1)
      BY <1>1, Found, Zenon DEF HelperFirst, Helped
    <2> QED
      BY <2>1
  <1>2. CASE HelperNext
    <2>1. Helped(unit_no)
      BY <1>2, Found, Zenon DEF HelperNext, Helped
    <2> QED
      BY <2>1
  <1> QED
    BY <1>1, <1>2

\* While the machine is reset, threads have nothing to do.
LEMMA ThreadsQuiet ==
  ASSUME ResetInv, resetting, NEW u \in Units PROVE ~FilesysThread(u)
  BY DEF ResetInv, FilesysThread, ThreadRead, ThreadKeep, ThreadRelease, ThreadSent, ThreadMark, ThreadRequest

LEMMA InvReset ==
  ASSUME Types, ResetInv, [Next]_vars PROVE ResetInv'
  <1>1. CASE UNCHANGED <<asked, thread, status, resetting>>
    BY <1>1, Zenon DEF ResetInv, thread
  <1>2. CASE UNCHANGED vars \/ NativeWrite
    BY <1>1, <1>2, Zenon DEF vars, native, reset, NativeWrite
  <1>3. CASE NativeRequest
    <2>1. asked' = IF resetting THEN asked ELSE written
      BY <1>3, Zenon DEF NativeRequest, Asked
    <2>2. UNCHANGED <<thread, status, resetting>>
      BY <1>3, Zenon DEF NativeRequest, reset
    <2> QED
      BY <2>1, <2>2, Zenon DEF ResetInv, thread
  <1>4. CASE Interrupt \/ ExterTask
    <2>1. ~resetting /\ resetting' = resetting
      BY <1>4, Zenon DEF Interrupt, ExterTask, HelperBusy, HelperFirst, HelperNext, PerformNative,
         PerformPutMsg, reset
    <2> QED
      BY <2>1 DEF ResetInv
  <1>5. CASE ResetBegin
    BY <1>5, SMT DEF ResetBegin, ResetInv, Each
  <1>6. CASE ResetEnd
    BY <1>6 DEF ResetEnd, ResetInv
  <1>7. ASSUME NEW u \in Units, FilesysThread(u) PROVE ResetInv'
    <2>1. ~resetting
      BY <1>7, ThreadsQuiet
    <2>2. resetting' = resetting
      BY <1>7, Zenon DEF FilesysThread, ThreadRead, ThreadKeep, ThreadRelease, ThreadSent, ThreadMark,
         ThreadRequest, reset
    <2> QED
      BY <2>1, <2>2 DEF ResetInv
  <1>8. ASSUME NEW u \in Units, RecordTimeout(u) \/ ClientSend(u) \/ HandlerTask(u) PROVE ResetInv'
    <2>1. ~resetting
      BY <1>8, Zenon DEF RecordTimeout, ClientSend, HandlerTask
    <2>2. resetting' = resetting
      BY <1>8, Zenon DEF RecordTimeout, ClientSend, HandlerTask, TaskPutOff, TaskRefuse, TaskHand,
         TaskQueue, TaskDummy, TaskRelease, TaskSleep, TaskWake, TaskReply, TaskPass, TaskScanned, reset
    <2> QED
      BY <2>1, <2>2 DEF ResetInv
  <1> QED
    BY <1>2, <1>3, <1>4, <1>5, <1>6, <1>7, <1>8, Zenon DEF Next

LEMMA InvNative ==
  ASSUME Types, NativeInv, ResetInv, NativeHeard, [Next]_vars PROVE NativeInv' /\ NativeHeard'
  <1>0. /\ written \in Nat /\ asked \in 0..written /\ done \in 0..written
        /\ native2amiga_pending \in Seq(0..NUnits) /\ Len(native2amiga_pending) \in Nat
    BY LenProperties DEF Types, HostTypes
  <1>1. CASE UNCHANGED <<native, exter>> /\ (uae_int_requested => uae_int_requested')
    BY <1>1, Zenon DEF native, exter, NativeInv, NativeHeard, Coming, One
  <1>2. CASE NativeWrite
    <2>1. Len(native2amiga_pending') = Len(native2amiga_pending) + 1
      BY <1>0, <1>2, AppendProperties, ExterAssumption DEF NativeWrite, OtherTask
    <2>2. UNCHANGED <<uae_int_requested, asked, done, exter>> /\ written' = written + 1
      BY <1>2, Zenon DEF NativeWrite
    <2>3. One(expc = "native") \in Nat /\ expc' = expc /\ signalled' = signalled
      BY <2>2 DEF exter, One
    <2> QED
      BY <1>0, <2>1, <2>2, <2>3 DEF NativeInv, NativeHeard, Coming
  <1>3. CASE NativeRequest \/ HelperBusy
    <2>1. /\ uae_int_requested' = TRUE
          /\ UNCHANGED <<native2amiga_pending, written, done, expc>>
      BY <1>3, Zenon DEF NativeRequest, HelperBusy, native, exter
    <2> QED
      BY <2>1, Zenon DEF NativeInv, NativeHeard, Coming
  <1>4. CASE Interrupt
    BY <1>4, Zenon DEF Interrupt, native, NativeInv, NativeHeard, Coming
  <1>5. CASE HelperFirst \/ HelperNext
    <2>1. PICK from : Helped(from)
      BY <1>5, HelperCases
    <2>2. expc # "native" /\ UNCHANGED <<written, asked, done>>
      BY <2>1, Zenon DEF Helped
    <2>3. One(expc = "native") = 0 /\ written = done + Len(native2amiga_pending)
      BY <1>0, <2>2 DEF One, NativeInv
    <2>4. CASE FoundNative(from)
      <3>1. Len(native2amiga_pending') = Len(native2amiga_pending) - 1
        BY <1>0, <2>4, HeadTailProperties DEF FoundNative
      <3>2. expc' = "native" /\ One(expc' = "native") = 1
        BY <2>4 DEF FoundNative, One
      <3> QED
        BY <1>0, <2>2, <2>3, <3>1, <3>2 DEF NativeInv, NativeHeard
    <2>5. CASE \E u \in Units : FoundMessage(from, u)
      <3>1. expc' = "message" /\ native2amiga_pending' = native2amiga_pending
        BY <2>5, Zenon DEF FoundMessage
      <3>2. One(expc' = "native") = 0
        BY <3>1 DEF One
      <3> QED
        BY <1>0, <2>2, <2>3, <3>1, <3>2 DEF NativeInv, NativeHeard
    <2>6. CASE FoundNothing(from)
      <3>1. expc' = "wait" /\ native2amiga_pending = <<>> /\ native2amiga_pending' = <<>>
        BY <2>6, Zenon DEF FoundNothing
      <3>2. One(expc' = "native") = 0 /\ Len(<<>>) = 0
        BY <3>1 DEF One
      <3> QED
        BY <1>0, <2>2, <2>3, <3>1, <3>2 DEF NativeInv, NativeHeard
    <2> QED
      BY <2>1, <2>4, <2>5, <2>6, Zenon DEF Helped
  <1>6. CASE PerformNative
    <2>1. /\ expc = "native" /\ expc' = "next" /\ done' = done + 1
          /\ UNCHANGED <<native2amiga_pending, written, asked>>
      BY <1>6, Zenon DEF PerformNative
    <2>2. One(expc = "native") = 1 /\ One(expc' = "native") = 0
      BY <2>1 DEF One
    <2> QED
      BY <1>0, <2>1, <2>2 DEF NativeInv, NativeHeard
  <1>7. CASE PerformPutMsg
    <2>1. expc = "message" /\ expc' = "next" /\ UNCHANGED native
      BY <1>7, Zenon DEF PerformPutMsg
    <2>2. One(expc = "native") = 0 /\ One(expc' = "native") = 0
      BY <2>1 DEF One
    <2> QED
      BY <2>1, <2>2, Zenon DEF NativeInv, NativeHeard, native
  <1>8. CASE ResetBegin
    <2>1. written' = 0 /\ done' = 0 /\ asked' = 0 /\ native2amiga_pending' = <<>> /\ expc' = "wait"
      BY <1>8, Zenon DEF ResetBegin
    <2>2. One(expc' = "native") = 0 /\ Len(<<>>) = 0
      BY <2>1 DEF One
    <2> QED
      BY <2>1, <2>2 DEF NativeInv, NativeHeard
  <1>9. CASE ResetEnd
    <2>1. UNCHANGED <<native, exter>> /\ asked = 0
      BY <1>9 DEF ResetEnd, ResetInv
    <2> QED
      BY <1>0, <2>1 DEF native, exter, NativeInv, NativeHeard
  <1>10. ASSUME NEW u \in Units, RecordTimeout(u) PROVE NativeInv' /\ NativeHeard'
    <2>1. Len(native2amiga_pending') = Len(native2amiga_pending) + 1
      BY <1>0, <1>10, AppendProperties DEF RecordTimeout, Units
    <2>2. uae_int_requested' = TRUE /\ UNCHANGED <<done, exter>> /\ written' = written + 1
      BY <1>10, Zenon DEF RecordTimeout
    <2>3. One(expc = "native") \in Nat /\ expc' = expc
      BY <2>2 DEF exter, One
    <2> QED
      BY <1>0, <2>1, <2>2, <2>3 DEF NativeInv, NativeHeard, Coming
  <1>11. ASSUME NEW u \in Units, FilesysThread(u) \/ ClientSend(u) \/ HandlerTask(u)
         PROVE  NativeInv' /\ NativeHeard'
    BY <1>1, <1>11, Zenon DEF FilesysThread, ThreadRead, ThreadKeep, ThreadRelease, ThreadSent,
       ThreadMark, ThreadRequest, ClientSend, HandlerTask, TaskPutOff, TaskRefuse, TaskHand, TaskQueue,
       TaskDummy, TaskRelease, TaskSleep, TaskWake, TaskReply, TaskPass, TaskScanned
  <1>12. CASE UNCHANGED vars
    BY <1>1, <1>12, Zenon DEF vars
  <1> QED
    BY <1>2, <1>3, <1>4, <1>5, <1>6, <1>7, <1>8, <1>9, <1>10, <1>11, <1>12, Zenon DEF Next, ExterTask

-----------------------------------------------------------------------------
(* The place of a unit's dummy message.                                    *)

LEMMA DummySame ==
  ASSUME NEW u, DummyInv(u), (expc' = "message" /\ target' = u) <=> (expc = "message" /\ target = u),
         Times(port'[u], Dummy) = Times(port[u], Dummy), tpc'[u] = "release" <=> tpc[u] = "release",
         cmds_acked'[u] = cmds_acked[u], cmds_complete'[u] = cmds_complete[u]
  PROVE  DummyInv(u)'
  BY Zenon DEF DummyInv, DummiesOut, One

LEMMA DummyLeft ==
  ASSUME NEW s \in Seq(0..MaxPackets), s # <<>>, Head(s) # Dummy
  PROVE  Times(Tail(s), Dummy) = Times(s, Dummy)
  <1>1. /\ Tail(s) \in Seq(0..MaxPackets)
        /\ Times(s, Dummy) = (IF Head(s) = Dummy THEN 1 ELSE 0) + Times(Tail(s), Dummy)
    BY TimesTail
  <1>2. Times(Tail(s), Dummy) \in Nat
    BY <1>1, TimesIs, Zenon
  <1> QED
    BY <1>1, <1>2

LEMMA DummyPut ==
  ASSUME NEW S, Dummy \in S, NEW s \in Seq(S), NEW m \in S
  PROVE  Times(Append(s, m), Dummy) = IF m = Dummy THEN Times(s, Dummy) + 1 ELSE Times(s, Dummy)
  <1>1. CASE m = Dummy
    BY <1>1, AppendMore, Zenon
  <1>2. CASE m # Dummy
    BY <1>2, AppendSame, Zenon
  <1> QED
    BY <1>1, <1>2, Zenon

LEMMA DummyTask ==
  ASSUME Types, NEW u \in Units, DummyInv(u), tpc[u] = "hand" => Head(port[u]) # Dummy,
         port[u] = <<>> => tpc[u] # "hand", ClientSend(u) \/ HandlerTask(u)
  PROVE  DummyInv(u)'
  <1>1. port[u] \in Seq(0..MaxPackets) /\ Times(port[u], Dummy) \in Nat
    BY TimesNat DEF Types, PortTypes
  <1>2. UNCHANGED <<expc, target, cmds_acked>>
    BY Zenon DEF ClientSend, HandlerTask, TaskPutOff, TaskRefuse, TaskHand, TaskQueue, TaskDummy,
       TaskRelease, TaskSleep, TaskWake, TaskReply, TaskPass, TaskScanned, exter, cmds
  <1>3. CASE ClientSend(u)
    <2>1. sends[u] + 1 \in Packets
      BY <1>3, TypesAre, SendRoom
    <2>2. sends[u] + 1 \in 0..MaxPackets /\ sends[u] + 1 # Dummy /\ Dummy \in 0..MaxPackets
      BY <2>1, ExterAssumption DEF Packets, Dummy
    <2>3. port'[u] = Append(port[u], sends[u] + 1) /\ UNCHANGED <<tpc, cmds>>
      BY <1>3, Zenon DEF ClientSend, Types, PortTypes, task
    <2>4. Times(port'[u], Dummy) = Times(port[u], Dummy)
      BY <1>1, <2>2, <2>3, DummyPut, Zenon
    <2> QED
      BY <1>2, <2>3, <2>4, DummySame, Zenon DEF cmds
  <1>4. CASE TaskPutOff(u) \/ TaskRefuse(u) \/ TaskQueue(u)
    <2>1. port[u] # <<>> /\ Head(port[u]) # Dummy
      BY <1>4, Zenon DEF TaskPutOff, TaskRefuse, TaskQueue, AtPacket
    <2>2. /\ port'[u] = Tail(port[u]) /\ tpc[u] # "release" /\ tpc'[u] # "release" /\ UNCHANGED cmds
      BY <1>4, Zenon DEF TaskPutOff, TaskRefuse, TaskQueue, AtPacket, Enqueue, Put, Types, PortTypes, TaskTypes
    <2>3. Times(port'[u], Dummy) = Times(port[u], Dummy)
      BY <1>1, <2>1, <2>2, DummyLeft, Zenon
    <2> QED
      BY <1>2, <2>2, <2>3, DummySame, Zenon DEF cmds
  <1>5. CASE \/ TaskHand(u) \/ TaskSleep(u) \/ TaskWake(u) \/ TaskReply(u) \/ TaskPass(u) \/ TaskScanned(u)
    <2>1. UNCHANGED <<port, cmds>>
      BY <1>5, Zenon DEF TaskHand, TaskSleep, TaskWake, TaskReply, TaskPass, TaskScanned, ports
    <2>2. tpc[u] # "release" /\ tpc'[u] # "release"
      BY <1>5, Zenon DEF TaskHand, TaskSleep, TaskWake, TaskReply, TaskPass, TaskScanned, AtPacket,
         Walking, Put, Types, TaskTypes
    <2> QED
      BY <1>2, <2>1, <2>2, DummySame, Zenon DEF cmds
  <1>6. CASE TaskDummy(u)
    <2>1. /\ port[u] # <<>> /\ Head(port[u]) = Dummy /\ port'[u] = Tail(port[u])
          /\ tpc[u] = "loop" /\ tpc'[u] = "release" /\ UNCHANGED cmds
      BY <1>6, Zenon DEF TaskDummy, Put, Types, PortTypes, TaskTypes
    <2>2. Tail(port[u]) \in Seq(0..MaxPackets) /\ Times(port[u], Dummy) = 1 + Times(Tail(port[u]), Dummy)
      BY <1>1, <2>1, TimesTail
    <2>3. Times(Tail(port[u]), Dummy) \in Nat
      BY <2>2, TimesIs, Zenon
    <2> QED
      BY <1>1, <1>2, <2>1, <2>2, <2>3 DEF DummyInv, DummiesOut, cmds
  <1>7. CASE TaskRelease(u)
    <2>1. /\ port'[u] = port[u] /\ tpc[u] = "release" /\ tpc'[u] = "done"
          /\ cmds_complete'[u] = cmds_acked[u] /\ cmds_acked'[u] = cmds_acked[u]
      BY <1>7, Zenon DEF TaskRelease, Put, Types, PortTypes, TaskTypes, CmdsTypes, ports
    <2>2. DummiesOut(u) <= 1 /\ DummiesOut(u)' = DummiesOut(u) - 1
      <3>1. DummiesOut(u) \in {0, 1}
        BY DEF DummyInv, One
      <3> QED
        BY <1>1, <1>2, <2>1, <3>1 DEF DummiesOut
    <2>3. DummiesOut(u) >= 1
      BY <1>1, <2>1 DEF DummiesOut
    <2>4. DummiesOut(u) \in {0, 1}
      BY DEF DummyInv, One
    <2> QED
      BY <2>1, <2>2, <2>3, <2>4 DEF DummyInv, One
  <1> QED
    BY <1>3, <1>4, <1>5, <1>6, <1>7, Zenon DEF HandlerTask

LEMMA DummyExter ==
  ASSUME Types, NEW u \in Units, DummyInv(u), ExterTask
  PROVE  DummyInv(u)'
  <1>1. port[u] \in Seq(0..MaxPackets) /\ Times(port[u], Dummy) \in Nat
    BY TimesNat DEF Types, PortTypes
  <1>2. CASE HelperBusy
    BY <1>2, DummySame, Zenon DEF HelperBusy, cmds, ports, task
  <1>3. CASE HelperFirst \/ HelperNext
    <2>1. PICK from : Helped(from)
      BY <1>3, HelperCases
    <2>2. expc # "message" /\ UNCHANGED <<port, tpc>>
      BY <2>1, Zenon DEF Helped, ports, task
    <2>3. CASE FoundNative(from) \/ FoundNothing(from)
      <3>1. expc' # "message" /\ UNCHANGED cmds
        BY <2>3, Zenon DEF FoundNative, FoundNothing
      <3> QED
        BY <2>2, <3>1, DummySame, Zenon DEF cmds
    <2>4. ASSUME NEW w \in Units, FoundMessage(from, w) PROVE DummyInv(u)'
      <3>1. CASE w = u
        <4>1. /\ cmds_acked[u] = cmds_complete[u] /\ cmds_acked'[u] # cmds_complete'[u]
              /\ expc' = "message" /\ target' = u
          BY <2>4, <3>1, Zenon DEF FoundMessage, Waiting, Types, CmdsTypes
        <4>2. DummiesOut(u) = 0
          BY <4>1 DEF DummyInv, One
        <4>3. DummiesOut(u)' = DummiesOut(u) + 1
          BY <1>1, <2>2, <4>1 DEF DummiesOut
        <4> QED
          BY <4>1, <4>2, <4>3 DEF DummyInv, One
      <3>2. CASE w # u
        <4>1. /\ cmds_acked'[u] = cmds_acked[u] /\ cmds_complete'[u] = cmds_complete[u] /\ target' # u
          BY <2>4, <3>2, Zenon DEF FoundMessage, Types, CmdsTypes
        <4> QED
          BY <2>2, <4>1, DummySame, Zenon
      <3> QED
        BY <3>1, <3>2
    <2> QED
      BY <2>1, <2>3, <2>4, Zenon DEF Helped
  <1>4. CASE PerformNative
    BY <1>4, DummySame, Zenon DEF PerformNative, cmds, task
  <1>5. CASE PerformPutMsg
    <2>1. expc = "message" /\ expc' = "next" /\ UNCHANGED <<target, cmds, tpc>>
      BY <1>5, Zenon DEF PerformPutMsg, task
    <2>2. CASE target = u
      <3>1. Dummy \in 0..MaxPackets /\ port'[u] = Append(port[u], Dummy)
        BY <1>5, <2>2, ExterAssumption DEF PerformPutMsg, Types, PortTypes, Dummy
      <3>2. Times(port'[u], Dummy) = Times(port[u], Dummy) + 1
        BY <1>1, <3>1, DummyPut, Zenon
      <3>3. DummiesOut(u)' = DummiesOut(u)
        BY <1>1, <2>1, <2>2, <3>2 DEF DummiesOut
      <3> QED
        BY <2>1, <3>3, Zenon DEF DummyInv, One, cmds
    <2>3. CASE target # u
      <3>1. port'[u] = port[u]
        BY <1>5, <2>3, Zenon DEF PerformPutMsg, Types, PortTypes
      <3> QED
        BY <2>1, <2>3, <3>1, DummySame, Zenon DEF cmds
    <2> QED
      BY <2>2, <2>3
  <1> QED
    BY <1>2, <1>3, <1>4, <1>5, Zenon DEF ExterTask

LEMMA InvDummy ==
  ASSUME Types, \A u \in Units : UnitInv(u) /\ DummyInv(u), [Next]_vars
  PROVE  \A u \in Units : DummyInv(u)'
  <1> SUFFICES ASSUME NEW u \in Units PROVE DummyInv(u)'
    OBVIOUS
  <1>1. DummyInv(u)
    OBVIOUS
  <1>2. CASE UNCHANGED <<expc, target, port, tpc, cmds_acked, cmds_complete>>
    BY <1>1, <1>2, DummySame, Zenon
  <1>3. CASE UNCHANGED vars \/ NativeWrite \/ NativeRequest \/ Interrupt \/ ResetEnd
    BY <1>2, <1>3, Zenon DEF vars, NativeWrite, NativeRequest, Interrupt, ResetEnd, exter, cmds, ports, task
  <1>4. CASE ExterTask
    BY <1>1, <1>4, DummyExter
  <1>5. CASE ResetBegin
    <2>1. /\ expc' = "wait" /\ port'[u] = <<>> /\ tpc'[u] = "loop"
          /\ cmds_acked'[u] = 0 /\ cmds_complete'[u] = 0
      BY <1>5, SMT DEF ResetBegin, Each
    <2>2. Times(port'[u], Dummy) = 0
      BY <2>1, TimesNone
    <2> QED
      BY <2>1, <2>2 DEF DummyInv, DummiesOut, One
  <1>6. ASSUME NEW v \in Units, FilesysThread(v) \/ RecordTimeout(v) PROVE DummyInv(u)'
    BY <1>2, <1>6, Zenon DEF FilesysThread, ThreadRead, ThreadKeep, ThreadRelease, ThreadSent,
       ThreadMark, ThreadRequest, RecordTimeout, exter, cmds, ports, task
  <1>7. ASSUME NEW v \in Units, ClientSend(v) \/ HandlerTask(v) PROVE DummyInv(u)'
    <2>1. CASE v = u
      BY <1>1, <1>7, <2>1, DummyTask DEF UnitInv, TaskInv
    <2>2. CASE v # u
      <3>1. Same(u)
        BY <1>7, <2>2, OthersSame, Zenon
      <3>2. /\ UNCHANGED <<expc, target, cmds_acked>> /\ cmds_complete'[u] = cmds_complete[u]
        BY <1>7, <2>2, Zenon DEF ClientSend, HandlerTask, TaskPutOff, TaskRefuse, TaskHand, TaskQueue,
           TaskDummy, TaskRelease, TaskSleep, TaskWake, TaskReply, TaskPass, TaskScanned, exter, cmds,
           Put, Types, CmdsTypes
      <3> QED
        BY <1>1, <3>1, <3>2, DummySame, Zenon DEF Same, SameTask
    <2> QED
      BY <2>1, <2>2
  <1> QED
    BY <1>3, <1>4, <1>5, <1>6, <1>7, Zenon DEF Next

-----------------------------------------------------------------------------
(* No packet is forgotten.                                                 *)

\* What OwedIsHeard and TimeoutIsHeard say of one packet.
OwedAt(u, p) ==
  status[u][p] = "done" /\ p \notin replied[u] /\ cmds_acked[u] # cmds_sent[u] =>
    \/ cmds_acked[u] # cmds_complete[u]
    \/ tpc[u] = "done" /\ Times(scan[u], p) > 0
    \/ thpc[u] # "read" \/ WillReach(u)
TimeoutAt(u, p) ==
  status[u][p] = "timeout" /\ p \notin replied[u] =>
    \/ Times(native2amiga_pending, u) > 0 \/ wake[u]
    \/ expc = "native" /\ target = u
    \/ tpc[u] = "timeout" /\ Times(scan[u], p) > 0
HeardAt(u, p) == OwedAt(u, p) /\ TimeoutAt(u, p)

LEMMA HeardIs == OwedIsHeard /\ TimeoutIsHeard <=> \A u \in Units, p \in Packets : HeardAt(u, p)
  BY Zenon DEF OwedIsHeard, TimeoutIsHeard, HeardAt, OwedAt, TimeoutAt

\* A packet waits with status s to be replied to; a walk that looks for s comes to it.
Awaits(u, p, s) == status[u][p] = s /\ p \notin replied[u]
Walks(u, p, s) == tpc[u] = s /\ Times(scan[u], p) > 0
SameWaits(u, p) ==
  \A s \in {"done", "timeout"} : /\ Awaits(u, p, s)' => Awaits(u, p, s)
                                 /\ Awaits(u, p, s)' /\ Walks(u, p, s) => Walks(u, p, s)'

LEMMA OwedKept ==
  ASSUME NEW u, NEW p, OwedAt(u, p), SameWaits(u, p), cmds_sent'[u] = cmds_sent[u],
         cmds_acked'[u] = cmds_acked[u], cmds_complete'[u] = cmds_complete[u],
         thpc[u] # "read" => thpc'[u] # "read", WillReach(u) => WillReach(u)'
  PROVE  OwedAt(u, p)'
  BY Zenon DEF OwedAt, SameWaits, Awaits, Walks

LEMMA TimeoutKept ==
  ASSUME NEW u, NEW p, TimeoutAt(u, p), SameWaits(u, p),
         Times(native2amiga_pending, u) > 0 => Times(native2amiga_pending', u) > 0,
         wake[u] => wake'[u], expc = "native" /\ target = u => expc' = "native" /\ target' = u
  PROVE  TimeoutAt(u, p)'
  BY Zenon DEF TimeoutAt, SameWaits, Awaits, Walks

LEMMA SameWaitsIs ==
  ASSUME NEW u, NEW p, status'[u] = status[u], replied'[u] = replied[u], tpc'[u] = tpc[u], scan'[u] = scan[u]
  PROVE  SameWaits(u, p)
  BY Zenon DEF SameWaits, Awaits, Walks

\* A packet that is done or too late is in its task's list until its reply.
LEMMA InQueue ==
  ASSUME Types, NEW u \in Units, UnitInv(u), NEW p \in Packets, NEW s \in {"done", "timeout"},
         Awaits(u, p, s), tpc[u] # "hand"
  PROVE  Times(queue[u], p) > 0
  <1>1. PacketInv(u, p) /\ ~InTransit(u, p) /\ status[u][p] # "new" /\ p \notin replied[u]
    BY DEF UnitInv, InTransit, Awaits
  <1>2. Times(port[u], p) \in Nat /\ Times(queue[u], p) \in Nat /\ sends[u] \in Nat /\ p \in Nat
    BY TimesNat DEF Types, PortTypes, Packets
  <1>3. Times(port[u], p) = 0 /\ p <= sends[u]
    BY <1>1, <1>2, SMT DEF PacketInv
  <1> QED
    BY <1>1, <1>2, <1>3 DEF PacketInv, One

LEMMA ScanLeft ==
  ASSUME Types, NEW u \in Units, scan[u] # <<>>, NEW p, p # Head(scan[u])
  PROVE  Times(scan[u], p) > 0 => Times(Tail(scan[u]), p) > 0
  <1>1. scan[u] \in Seq(Packets)
    BY DEF Types, TaskTypes
  <1>2. /\ Tail(scan[u]) \in Seq(Packets)
        /\ Times(scan[u], p) = (IF Head(scan[u]) = p THEN 1 ELSE 0) + Times(Tail(scan[u]), p)
    BY <1>1, TimesTail
  <1>3. Times(Tail(scan[u]), p) \in Nat
    BY <1>2, TimesIs, Zenon
  <1> QED
    BY <1>2, <1>3

LEMMA HeardTask ==
  ASSUME Types, NEW u \in Units, UnitInv(u), NEW p \in Packets, HeardAt(u, p),
         ClientSend(u) \/ HandlerTask(u)
  PROVE  HeardAt(u, p)'
  <1>1. /\ UNCHANGED <<uae_int_requested, native2amiga_pending, signalled, expc, target, unit_no,
                       cmds_sent, cmds_acked, thpc>>
    BY Zenon DEF ClientSend, HandlerTask, TaskPutOff, TaskRefuse, TaskHand, TaskQueue, TaskDummy,
       TaskRelease, TaskSleep, TaskWake, TaskReply, TaskPass, TaskScanned, native, exter, helper, cmds, thread
  <1>2. WillReach(u) => WillReach(u)'
    BY <1>1, Zenon DEF WillReach, Coming
  <1>3. ASSUME SameWaits(u, p), cmds_complete' = cmds_complete, wake[u] => wake'[u] PROVE HeardAt(u, p)'
    BY <1>1, <1>2, <1>3, OwedKept, TimeoutKept, Zenon DEF HeardAt
  <1>4. CASE ClientSend(u)
    <2>1. UNCHANGED <<status, replied, tpc, scan, cmds_complete>> /\ (wake[u] => wake'[u])
      BY <1>4, Zenon DEF ClientSend, task, cmds, Put, Types, PortTypes
    <2> QED
      BY <1>3, <2>1, SameWaitsIs, Zenon
  <1>5. CASE TaskPutOff(u) \/ TaskRefuse(u) \/ TaskHand(u)
    <2> DEFINE h == Packet(u)
    <2>1. tpc[u] = "loop" /\ port[u] # <<>> /\ Head(port[u]) # Dummy /\ UNCHANGED <<cmds_complete, wake>>
      BY <1>5, Zenon DEF TaskPutOff, TaskRefuse, TaskHand, AtPacket, cmds, ports
    <2>2. h \in Packets
      BY <2>1, NextPacket
    <2>3. /\ \A q \in Packets : q # h => status'[u][q] = status[u][q]
          /\ status'[u][h] \notin {"done", "timeout"} \/ h \in replied'[u]
      <3>1. CASE TaskPutOff(u)
        <4>1. status' = [status EXCEPT ![u][h] = "unstarted"]
          BY <3>1, Zenon DEF TaskPutOff
        <4>2. \A q \in Packets : status'[u][q] = IF q = h THEN "unstarted" ELSE status[u][q]
          BY <2>2, <4>1, StatusPut, Zenon DEF Types, Statuses
        <4> QED
          BY <2>2, <4>2
      <3>2. CASE TaskRefuse(u)
        <4>1. status' = [status EXCEPT ![u][h] = "done"] /\ h \in replied'[u]
          BY <3>2, Zenon DEF TaskRefuse, Types, TaskTypes
        <4>2. \A q \in Packets : status'[u][q] = IF q = h THEN "done" ELSE status[u][q]
          BY <2>2, <4>1, StatusPut, Zenon DEF Types, Statuses
        <4> QED
          BY <4>1, <4>2
      <3>3. CASE TaskHand(u)
        <4>1. status' = [status EXCEPT ![u][h] = "handed"]
          BY <3>3, Zenon DEF TaskHand
        <4>2. \A q \in Packets : status'[u][q] = IF q = h THEN "handed" ELSE status[u][q]
          BY <2>2, <4>1, StatusPut, Zenon DEF Types, Statuses
        <4> QED
          BY <2>2, <4>2
      <3> QED
        BY <1>5, <3>1, <3>2, <3>3
    <2>5. replied[u] \in SUBSET replied'[u]
      BY <1>5 DEF TaskPutOff, TaskRefuse, TaskHand, Types, TaskTypes
    <2> HIDE DEF h
    <2>6. SameWaits(u, p)
      BY <2>1, <2>2, <2>3, <2>5 DEF SameWaits, Awaits, Walks
    <2> QED
      BY <1>3, <2>1, <2>6, Zenon
  <1>6. CASE TaskQueue(u) \/ TaskDummy(u) \/ TaskSleep(u)
    <2>1. tpc[u] \in {"hand", "loop"} /\ UNCHANGED <<status, replied, scan, cmds_complete, wake>>
      BY <1>6, Zenon DEF TaskQueue, TaskDummy, TaskSleep, cmds, ports
    <2>2. SameWaits(u, p)
      BY <2>1 DEF SameWaits, Awaits, Walks
    <2> QED
      BY <1>3, <2>1, <2>2, Zenon
  <1>7. CASE TaskRelease(u)
    <2>1. /\ tpc[u] = "release" /\ tpc'[u] = "done" /\ scan'[u] = queue[u]
          /\ UNCHANGED <<status, replied, wake>>
      BY <1>7, Zenon DEF TaskRelease, Put, Types, TaskTypes, ports
    <2>2. Awaits(u, p, "done") => Walks(u, p, "done")'
      BY <2>1, InQueue DEF Walks
    <2>3. OwedAt(u, p)'
      BY <2>1, <2>2, Zenon DEF OwedAt, Awaits, Walks
    <2>4. SameWaits(u, p)
      BY <2>1 DEF SameWaits, Awaits, Walks
    <2> QED
      BY <1>1, <2>1, <2>3, <2>4, TimeoutKept, Zenon DEF HeardAt
  <1>8. CASE TaskWake(u)
    <2>1. /\ tpc[u] = "sleep" /\ tpc'[u] = "timeout" /\ scan'[u] = queue[u]
          /\ UNCHANGED <<status, replied, cmds_complete>>
      BY <1>8, Zenon DEF TaskWake, Put, Types, TaskTypes, cmds
    <2>2. Awaits(u, p, "timeout") => Walks(u, p, "timeout")'
      BY <2>1, InQueue DEF Walks
    <2>3. TimeoutAt(u, p)'
      BY <2>1, <2>2, Zenon DEF TimeoutAt, Awaits, Walks
    <2>4. SameWaits(u, p)
      BY <2>1 DEF SameWaits, Awaits, Walks
    <2> QED
      BY <1>1, <1>2, <2>1, <2>3, <2>4, OwedKept, Zenon DEF HeardAt
  <1>9. CASE TaskReply(u) \/ TaskPass(u)
    <2> DEFINE h == Head(scan[u])
    <2>1. /\ scan[u] # <<>> /\ scan'[u] = Tail(scan[u]) /\ tpc' = tpc
          /\ UNCHANGED <<status, cmds_complete, wake>>
      BY <1>9, Zenon DEF TaskReply, TaskPass, Put, Types, TaskTypes, cmds, ports
    <2>2. replied[u] \in SUBSET replied'[u] /\ (status[u][h] = tpc[u] => h \in replied'[u])
      <3>1. CASE TaskReply(u)
        <4>1. replied'[u] = replied[u] \cup {h}
          BY <3>1, Zenon DEF TaskReply, Types, TaskTypes
        <4> QED
          BY <4>1
      <3>2. CASE TaskPass(u)
        BY <3>2 DEF TaskPass
      <3> QED
        BY <1>9, <3>1, <3>2
    <2>3. p # h => (Times(scan[u], p) > 0 => Times(scan'[u], p) > 0)
      BY <2>1, ScanLeft, Zenon
    <2> HIDE DEF h
    <2>4. SameWaits(u, p)
      BY <2>1, <2>2, <2>3 DEF SameWaits, Awaits, Walks
    <2> QED
      BY <1>3, <2>1, <2>4, Zenon
  <1>10. CASE TaskScanned(u)
    <2>1. scan[u] = <<>> /\ UNCHANGED <<status, replied, cmds_complete, wake>>
      BY <1>10, Zenon DEF TaskScanned, cmds, ports
    <2>2. ~(Times(scan[u], p) > 0)
      BY <2>1, TimesNone
    <2>3. SameWaits(u, p)
      BY <2>1, <2>2 DEF SameWaits, Awaits, Walks
    <2> QED
      BY <1>3, <2>1, <2>3, Zenon
  <1> QED
    BY <1>4, <1>5, <1>6, <1>7, <1>8, <1>9, <1>10, Zenon DEF HandlerTask

\* More native commands do not take those there away.
LEMMA PendingMore ==
  ASSUME NEW S, NEW s \in Seq(S), NEW m \in S, NEW x
  PROVE  /\ Times(s, x) > 0 => Times(Append(s, m), x) > 0
         /\ m = x => Times(Append(s, m), x) > 0
  <1>1. Times(s, x) \in Nat
    BY TimesIs
  <1>2. CASE m = x
    <2>1. Times(Append(s, m), x) = Times(s, x) + 1
      BY <1>2, AppendMore, Zenon
    <2> QED
      BY <1>1, <2>1
  <1>3. CASE m # x
    <2>1. Times(Append(s, m), x) = Times(s, x)
      BY <1>3, AppendSame, Zenon
    <2> QED
      BY <1>3, <2>1
  <1> QED
    BY <1>2, <1>3

LEMMA HeardHost ==
  ASSUME Types, NEW u \in Units, UnitInv(u), NEW p \in Packets, HeardAt(u, p),
         FilesysThread(u) \/ RecordTimeout(u)
  PROVE  HeardAt(u, p)'
  <1>1. UNCHANGED <<cmds_acked, cmds_complete, tpc, replied, scan, wake, expc, target, unit_no, signalled>>
    BY Zenon DEF FilesysThread, ThreadRead, ThreadKeep, ThreadRelease, ThreadSent, ThreadMark,
       ThreadRequest, RecordTimeout, cmds, task, ports, exter, helper
  <1>2. native2amiga_pending \in Seq(0..NUnits) /\ u \in 0..NUnits
    BY DEF Types, HostTypes, Units
  <1>3. OwedAt(u, p)'
    <2>1. CASE ThreadRequest(u) \/ RecordTimeout(u)
      <3>1. uae_int_requested' = TRUE
        BY <2>1, Zenon DEF ThreadRequest, RecordTimeout
      <3> QED
        BY <3>1, Zenon DEF OwedAt, WillReach, Coming
    <2>2. CASE ThreadRead(u) \/ ThreadKeep(u) \/ ThreadRelease(u) \/ ThreadSent(u) \/ ThreadMark(u)
      <3>1. thpc'[u] # "read"
        BY <2>2 DEF ThreadRead, ThreadKeep, ThreadRelease, ThreadSent, ThreadMark, Put, Types, ThreadTypes
      <3> QED
        BY <3>1, Zenon DEF OwedAt
    <2> QED
      BY <2>1, <2>2, Zenon DEF FilesysThread
  <1>4. Times(native2amiga_pending, u) > 0 => Times(native2amiga_pending', u) > 0
    <2>1. CASE RecordTimeout(u)
      <3>1. native2amiga_pending' = Append(native2amiga_pending, u)
        BY <2>1, Zenon DEF RecordTimeout
      <3> QED
        BY <1>2, <3>1, PendingMore, Zenon
    <2>2. CASE FilesysThread(u)
      <3>1. UNCHANGED native2amiga_pending
        BY <2>2, Zenon DEF FilesysThread, ThreadRead, ThreadKeep, ThreadRelease, ThreadSent, ThreadMark,
           ThreadRequest, native
      <3> QED
        BY <3>1, Zenon
    <2> QED
      BY <2>1, <2>2
  <1>5. CASE RecordTimeout(u)
    <2>1. Times(native2amiga_pending', u) > 0
      <3>1. native2amiga_pending' = Append(native2amiga_pending, u)
        BY <1>5, Zenon DEF RecordTimeout
      <3> QED
        BY <1>2, <3>1, PendingMore, Zenon
    <2>2. TimeoutAt(u, p)'
      BY <2>1, Zenon DEF TimeoutAt
    <2> QED
      BY <1>3, <2>2, Zenon DEF HeardAt
  <1>6. CASE FilesysThread(u)
    <2>1. status'[u][p] = "timeout" => status[u][p] = "timeout"
      <3>1. CASE ThreadMark(u)
        <4>1. thpc[u] = "mark" /\ pck[u] \in Packets
          BY <3>1 DEF ThreadMark, UnitInv, ThreadInv, InHand
        <4>2. \A q \in Packets : status'[u][q] = IF q = pck[u] THEN "done" ELSE status[u][q]
          BY <3>1, <4>1, StatusPut, Zenon DEF ThreadMark, Types, Statuses
        <4> QED
          BY <4>2
      <3>2. CASE ThreadRelease(u)
        <4>1. PICK r \in waitingrecords[u] : status' = [status EXCEPT ![u][r] = "done"]
          BY <3>2, Zenon DEF ThreadRelease
        <4>2. r \in Packets
          BY <4>1, HostSizes
        <4>3. \A q \in Packets : status'[u][q] = IF q = r THEN "done" ELSE status[u][q]
          BY <4>1, <4>2, StatusPut, Zenon DEF Types, Statuses
        <4> QED
          BY <4>3
      <3>3. CASE ThreadRead(u) \/ ThreadKeep(u) \/ ThreadSent(u) \/ ThreadRequest(u)
        BY <3>3, Zenon DEF ThreadRead, ThreadKeep, ThreadSent, ThreadRequest
      <3> QED
        BY <1>6, <3>1, <3>2, <3>3, Zenon DEF FilesysThread
    <2>2. TimeoutAt(u, p)'
      BY <1>1, <1>4, <2>1, Zenon DEF TimeoutAt, HeardAt
    <2> QED
      BY <1>3, <2>2, Zenon DEF HeardAt
  <1> QED
    BY <1>5, <1>6

\* exter_task comes to a unit that waits, or has just come to it.
LEMMA OwedHelped ==
  ASSUME Types, NEW u \in Units, NEW p, OwedAt(u, p), HelperFirst \/ HelperNext
  PROVE  OwedAt(u, p)'
  <1>1. PICK from \in {1, unit_no} : Helped(from)
    BY HelperCases
  <1>2. /\ UNCHANGED <<uae_int_requested, status, replied, tpc, scan, thpc>>
        /\ expc = "wait" => from = 1
        /\ expc # "wait" => expc = "next" /\ from = unit_no /\ signalled' = signalled
    BY <1>1, Zenon DEF Helped, thread, task
  <1>3. /\ u \in 1..NUnits /\ from \in 1..(NUnits + 1)
        /\ expc = "wait" => u >= from
    <2>1. u \in 1..NUnits /\ unit_no \in 1..(NUnits + 1)
      BY DEF Units, Types, HostTypes
    <2> QED
      BY <1>1, <1>2, <2>1, ExterAssumption
  <1> SUFFICES ASSUME status'[u][p] = "done", p \notin replied'[u], cmds_acked'[u] # cmds_sent'[u],
                      cmds_acked'[u] = cmds_complete'[u], ~(tpc'[u] = "done" /\ Times(scan'[u], p) > 0),
                      thpc'[u] = "read"
               PROVE  WillReach(u)'
    BY Zenon DEF OwedAt
  <1>4. cmds_sent' = cmds_sent /\ cmds_complete' = cmds_complete
    BY <1>1, Zenon DEF Helped, FoundNative, FoundMessage, FoundNothing, cmds
  <1>5. ASSUME cmds_acked'[u] = cmds_acked[u], ~Coming' PROVE Waiting(u) /\ u >= from
    <2>1. Waiting(u) /\ WillReach(u)
      BY <1>2, <1>4, <1>5, Zenon DEF OwedAt, Waiting
    <2>2. expc # "wait" => u >= from
      <3> SUFFICES ASSUME expc # "wait" PROVE u >= from
        OBVIOUS
      <3>1. ~Coming
        BY <1>2, <1>5, Zenon DEF Coming
      <3> QED
        BY <1>2, <1>3, <2>1, <3>1 DEF WillReach
    <2> QED
      BY <1>3, <2>1, <2>2, Zenon
  <1>6. CASE FoundNative(from)
    <2>1. cmds_acked' = cmds_acked /\ expc' = "native" /\ unit_no' = from
      BY <1>6, Zenon DEF FoundNative, cmds
    <2> QED
      BY <1>3, <1>5, <2>1 DEF WillReach
  <1>7. ASSUME NEW w \in Units, FoundMessage(from, w) PROVE WillReach(u)'
    <2>1. /\ cmds_acked' = [cmds_acked EXCEPT ![w] = cmds_sent[w]] /\ expc' = "message"
          /\ unit_no' = w + 1 /\ \A v \in Units : v >= from /\ Waiting(v) => w <= v
      BY <1>7, Zenon DEF FoundMessage
    <2>2. w # u
      BY <1>4, <2>1, Zenon DEF Types, CmdsTypes
    <2>3. cmds_acked'[u] = cmds_acked[u]
      BY <2>1, <2>2, Zenon DEF Types, CmdsTypes
    <2>4. w \in Nat
      BY DEF Units
    <2> QED
      BY <1>3, <1>5, <2>1, <2>2, <2>3, <2>4 DEF WillReach
  <1>8. CASE FoundNothing(from)
    <2>1. cmds_acked' = cmds_acked /\ \A v \in Units : v >= from => ~Waiting(v)
      BY <1>8, Zenon DEF FoundNothing, cmds
    <2> QED
      BY <1>5, <2>1, Zenon DEF WillReach
  <1> QED
    BY <1>1, <1>6, <1>7, <1>8, Zenon DEF Helped

LEMMA TimeoutHelped ==
  ASSUME Types, NEW u \in Units, NEW p, TimeoutAt(u, p), HelperFirst \/ HelperNext
  PROVE  TimeoutAt(u, p)'
  <1>1. PICK from : Helped(from)
    BY HelperCases
  <1>2. UNCHANGED <<status, replied, tpc, scan, wake>> /\ expc # "native"
    BY <1>1, Zenon DEF Helped, task, ports
  <1>3. CASE FoundNative(from)
    <2>1. /\ native2amiga_pending # <<>> /\ native2amiga_pending \in Seq(0..NUnits)
          /\ native2amiga_pending' = Tail(native2amiga_pending) /\ expc' = "native"
          /\ target' = Head(native2amiga_pending)
      BY <1>3, Zenon DEF FoundNative, Types, HostTypes
    <2>2. CASE target' = u
      BY <2>1, <2>2, Zenon DEF TimeoutAt
    <2>3. CASE target' # u
      <3>1. /\ Times(native2amiga_pending, u) =
                 (IF Head(native2amiga_pending) = u THEN 1 ELSE 0) + Times(Tail(native2amiga_pending), u)
            /\ Tail(native2amiga_pending) \in Seq(0..NUnits)
        BY <2>1, TimesTail
      <3>2. Times(Tail(native2amiga_pending), u) \in Nat
        BY <3>1, TimesIs, Zenon
      <3>3. Times(native2amiga_pending', u) = Times(native2amiga_pending, u)
        BY <2>1, <2>3, <3>1, <3>2
      <3> QED
        BY <1>2, <3>3, Zenon DEF TimeoutAt
    <2> QED
      BY <2>2, <2>3
  <1>4. CASE (\E w \in Units : FoundMessage(from, w)) \/ FoundNothing(from)
    <2>1. native2amiga_pending' = native2amiga_pending
      BY <1>4, Zenon DEF FoundMessage, FoundNothing
    <2> QED
      BY <1>2, <2>1, Zenon DEF TimeoutAt
  <1> QED
    BY <1>1, <1>3, <1>4, Zenon DEF Helped

LEMMA HeardExter ==
  ASSUME Types, NEW u \in Units, NEW p \in Packets, HeardAt(u, p), ExterTask
  PROVE  HeardAt(u, p)'
  <1>1. CASE HelperFirst \/ HelperNext
    BY <1>1, OwedHelped, TimeoutHelped, Zenon DEF HeardAt
  <1>2. CASE HelperBusy
    <2>1. UNCHANGED <<native2amiga_pending, wake, expc, target, status, replied, tpc, scan>>
      BY <1>2, Zenon DEF HelperBusy, native, ports, task
    <2>2. uae_int_requested' = TRUE
      BY <1>2, Zenon DEF HelperBusy
    <2> QED
      BY <2>1, <2>2, Zenon DEF HeardAt, OwedAt, TimeoutAt, WillReach, Coming
  <1>3. CASE PerformNative \/ PerformPutMsg
    <2>1. /\ UNCHANGED <<uae_int_requested, native2amiga_pending, unit_no, signalled, cmds, thpc, status>>
          /\ UNCHANGED <<replied, tpc, scan, target>> /\ expc # "wait" /\ expc' # "wait"
      BY <1>3, Zenon DEF PerformNative, PerformPutMsg, native, helper, thread, task
    <2>2. OwedAt(u, p)'
      BY <2>1, Zenon DEF HeardAt, OwedAt, WillReach, Coming, cmds
    <2>3. wake[u] => wake'[u]
      <3>1. target # OtherTask => target \in Units
        BY DEF Types, HostTypes, OtherTask, Units
      <3>2. wake' = wake \/ wake' = [wake EXCEPT ![target] = TRUE]
        BY <1>3, Zenon DEF PerformNative, PerformPutMsg, Put
      <3> QED
        BY <3>2, Zenon DEF Types, PortTypes
    <2>4. expc = "native" /\ target = u => wake'[u]
      <3>1. CASE PerformNative
        <4>1. u # OtherTask
          BY DEF Units, OtherTask
        <4> QED
          BY <3>1, <4>1, Zenon DEF PerformNative, Put, Types, PortTypes
      <3>2. CASE PerformPutMsg
        BY <3>2 DEF PerformPutMsg
      <3> QED
        BY <1>3, <3>1, <3>2
    <2>5. TimeoutAt(u, p)'
      BY <2>1, <2>3, <2>4, Zenon DEF HeardAt, TimeoutAt
    <2> QED
      BY <2>2, <2>5 DEF HeardAt
  <1> QED
    BY <1>1, <1>2, <1>3, Zenon DEF ExterTask

\* Nothing that another unit's thread, task or clients do takes a unit's signals away.
LEMMA HeardOther ==
  ASSUME Types, NEW u \in Units, NEW p \in Packets, HeardAt(u, p), NEW v \in Units, v # u,
         FilesysThread(v) \/ RecordTimeout(v) \/ ClientSend(v) \/ HandlerTask(v)
  PROVE  HeardAt(u, p)'
  <1> USE DEF Put, Types
  <1>1. Same(u)
    BY OthersSame, Zenon
  <1>2. UNCHANGED <<expc, target, unit_no, signalled>>
    BY Zenon DEF FilesysThread, ThreadRead, ThreadKeep, ThreadRelease, ThreadSent, ThreadMark,
       ThreadRequest, RecordTimeout, ClientSend, HandlerTask, TaskPutOff, TaskRefuse, TaskHand, TaskQueue,
       TaskDummy, TaskRelease, TaskSleep, TaskWake, TaskReply, TaskPass, TaskScanned, exter, helper
  <1>3. /\ scan'[u] = scan[u] /\ wake'[u] = wake[u] /\ cmds_sent'[u] = cmds_sent[u]
        /\ cmds_acked'[u] = cmds_acked[u] /\ cmds_complete'[u] = cmds_complete[u]
    <2> USE DEF cmds, task, ports, TaskTypes, PortTypes, CmdsTypes
    <2>1. CASE FilesysThread(v) \/ RecordTimeout(v) \/ ClientSend(v)
      BY <2>1, Zenon DEF FilesysThread, ThreadRead, ThreadKeep, ThreadRelease, ThreadSent, ThreadMark,
         ThreadRequest, RecordTimeout, ClientSend
    <2>2. CASE HandlerTask(v)
      BY <2>2, Zenon DEF HandlerTask, TaskPutOff, TaskRefuse, TaskHand, TaskQueue,
         TaskDummy, TaskRelease, TaskSleep, TaskWake, TaskReply, TaskPass, TaskScanned
    <2> QED
      BY <2>1, <2>2
  <1>4. uae_int_requested => uae_int_requested'
    BY Zenon DEF FilesysThread, ThreadRead, ThreadKeep, ThreadRelease, ThreadSent, ThreadMark,
       ThreadRequest, RecordTimeout, ClientSend, HandlerTask, TaskPutOff, TaskRefuse, TaskHand, TaskQueue,
       TaskDummy, TaskRelease, TaskSleep, TaskWake, TaskReply, TaskPass, TaskScanned
  <1>5. Times(native2amiga_pending, u) > 0 => Times(native2amiga_pending', u) > 0
    <2>1. CASE RecordTimeout(v)
      <3>1. native2amiga_pending' = Append(native2amiga_pending, v)
        BY <2>1, Zenon DEF RecordTimeout
      <3>2. native2amiga_pending \in Seq(0..NUnits) /\ v \in 0..NUnits
        BY DEF HostTypes, Units
      <3> QED
        BY <3>1, <3>2, PendingMore, Zenon
    <2>2. CASE FilesysThread(v) \/ ClientSend(v) \/ HandlerTask(v)
      <3>1. UNCHANGED native2amiga_pending
        BY <2>2, Zenon DEF FilesysThread, ThreadRead, ThreadKeep, ThreadRelease, ThreadSent, ThreadMark,
           ThreadRequest, ClientSend, HandlerTask, TaskPutOff, TaskRefuse, TaskHand, TaskQueue,
           TaskDummy, TaskRelease, TaskSleep, TaskWake, TaskReply, TaskPass, TaskScanned, native
      <3> QED
        BY <3>1, Zenon
    <2> QED
      BY <2>1, <2>2
  <1>6. SameWaits(u, p)
    BY <1>1, <1>3, SameWaitsIs, Zenon DEF Same, SameTask, SameStatus
  <1>7. WillReach(u) => WillReach(u)'
    BY <1>2, <1>4, Zenon DEF WillReach, Coming
  <1>8. OwedAt(u, p)'
    BY <1>1, <1>3, <1>6, <1>7, OwedKept, Zenon DEF HeardAt, Same, SameThread
  <1>9. TimeoutAt(u, p)'
    BY <1>2, <1>3, <1>5, <1>6, TimeoutKept, Zenon DEF HeardAt
  <1> QED
    BY <1>8, <1>9 DEF HeardAt

LEMMA InvHeard ==
  ASSUME Types, ResetInv, \A u \in Units : UnitInv(u), OwedIsHeard, TimeoutIsHeard, [Next]_vars
  PROVE  OwedIsHeard' /\ TimeoutIsHeard'
  <1>1. SUFFICES ASSUME NEW u \in Units, NEW p \in Packets PROVE HeardAt(u, p)'
    <2>1. (\A u \in Units, p \in Packets : HeardAt(u, p)') => OwedIsHeard' /\ TimeoutIsHeard'
      BY Zenon DEF OwedIsHeard, TimeoutIsHeard, HeardAt, OwedAt, TimeoutAt
    <2> QED
      BY <2>1
  <1>2. HeardAt(u, p) /\ UnitInv(u)
    BY HeardIs
  <1>3. native2amiga_pending \in Seq(0..NUnits) /\ OtherTask \in 0..NUnits
    BY ExterAssumption DEF Types, HostTypes, OtherTask
  <1>4. ASSUME UNCHANGED <<expc, target, unit_no, cmds, thread, ports, task, status>>,
               uae_int_requested \/ signalled => uae_int_requested' \/ signalled',
               Times(native2amiga_pending, u) > 0 => Times(native2amiga_pending', u) > 0
        PROVE  HeardAt(u, p)'
    <2>1. SameWaits(u, p)
      BY <1>4, SameWaitsIs, Zenon DEF task
    <2>2. WillReach(u) => WillReach(u)'
      BY <1>4, Zenon DEF WillReach, Coming
    <2> QED
      BY <1>2, <1>4, <2>1, <2>2, OwedKept, TimeoutKept, Zenon DEF HeardAt, cmds, thread, ports
  <1>5. CASE UNCHANGED vars \/ NativeRequest \/ Interrupt
    <2>1. UNCHANGED <<native2amiga_pending, expc, target, unit_no, cmds, thread, ports, task, status>>
      BY <1>5, Zenon DEF vars, NativeRequest, Interrupt, native, helper, exter
    <2>2. uae_int_requested' \/ signalled' \/ UNCHANGED <<uae_int_requested, signalled>>
      BY <1>5, Zenon DEF vars, NativeRequest, Interrupt, exter
    <2> QED
      BY <1>4, <2>1, <2>2, Zenon
  <1>6. CASE NativeWrite
    <2>1. native2amiga_pending' = Append(native2amiga_pending, OtherTask)
      BY <1>6, Zenon DEF NativeWrite
    <2>2. Times(native2amiga_pending, u) > 0 => Times(native2amiga_pending', u) > 0
      BY <1>3, <2>1, PendingMore, Zenon
    <2> QED
      BY <1>4, <1>6, <2>2, Zenon DEF NativeWrite, helper, exter
  <1>7. CASE ExterTask
    BY <1>2, <1>7, HeardExter
  <1>8. CASE ResetBegin \/ ResetEnd
    <2>1. status'[u][p] = "new"
      <3>1. CASE ResetBegin
        BY <3>1, SMT DEF ResetBegin, Each
      <3>2. CASE ResetEnd
        BY <3>2, Zenon DEF ResetEnd, ResetInv
      <3> QED
        BY <1>8, <3>1, <3>2
    <2> QED
      BY <2>1 DEF HeardAt, OwedAt, TimeoutAt
  <1>9. ASSUME NEW v \in Units, FilesysThread(v) \/ RecordTimeout(v) \/ ClientSend(v) \/ HandlerTask(v)
        PROVE  HeardAt(u, p)'
    <2>1. CASE v = u
      BY <1>2, <1>9, <2>1, HeardHost, HeardTask, Zenon
    <2>2. CASE v # u
      BY <1>2, <1>9, <2>2, HeardOther, Zenon
    <2> QED
      BY <2>1, <2>2
  <1> QED
    BY <1>5, <1>6, <1>7, <1>8, <1>9, Zenon DEF Next

-----------------------------------------------------------------------------
(* The invariant holds.                                                    *)

\* What the types need of the rest.
LEMMA InvTypes ==
  ASSUME Types, NativeInv, \A u \in Units : UnitInv(u), [Next]_vars PROVE Types'
  <1>1. \A u \in Units : thpc[u] \in {"handle", "free", "mark"} => pck[u] \in Packets
    BY DEF UnitInv, ThreadInv, InHand
  <1>2. expc = "native" => done < written
    <2>1. /\ written \in Nat /\ done \in 0..written /\ Len(native2amiga_pending) \in Nat
      BY LenProperties DEF Types, HostTypes
    <2> QED
      BY <2>1 DEF NativeInv, One
  <1>3. ASSUME NEW u \in Units, TaskReply(u) PROVE d5[u] > 0
    <2> DEFINE h == Head(scan[u])
    <2>1. h \in Packets /\ queue[u] \in Seq(Packets)
      BY <1>3, HeadTailProperties DEF Types, TaskTypes, TaskReply
    <2>2. status[u][h] # "unstarted"
      BY <1>3 DEF TaskReply, Walking
    <2>3. \E i \in 1..Len(queue[u]) : queue[u][i] = h
      BY <1>3, Zenon DEF TaskReply
    <2> HIDE DEF h
    <2>4. h \in StartedSet(u)
      BY <2>1, <2>2, <2>3, TimesIn DEF StartedSet
    <2>5. IsFiniteSet(StartedSet(u)) /\ Cardinality(StartedSet(u)) \in Nat
      BY FinitePackets DEF StartedSet
    <2>6. Cardinality(StartedSet(u)) # 0
      BY <2>4, <2>5, FS_EmptySet
    <2> QED
      BY <2>5, <2>6 DEF UnitInv, TaskInv
  <1>4. ASSUME NEW u \in Units, ClientSend(u) \/ HandlerTask(u) PROVE Types'
    <2>1. tpc[u] = "hand" => port[u] # <<>> /\ Head(port[u]) # Dummy
      BY DEF UnitInv, TaskInv
    <2>2. d5[u] > 0 \/ ~TaskReply(u)
      BY <1>3
    <2> QED
      BY <1>4, <2>1, <2>2, TypeTasks, Zenon
  <1> QED
    BY <1>1, <1>2, <1>4, TypeHosts, TypeExter, Zenon DEF Next

LEMMA InvInit == Init => IInv
  <1> SUFFICES ASSUME Init PROVE IInv
    OBVIOUS
  <1> USE ExterAssumption
  <1>1. Types
    <2>1. HostTypes
      <3>1. /\ 0 \in Nat /\ 0 \in 0..0 /\ 0 \in 0..NUnits /\ <<>> \in Seq(0..NUnits)
            /\ 1 \in 0..1 /\ 1 \in 1..(NUnits + 1) /\ 0 \in 0..MaxResets
        BY EmptySeq
      <3> QED
        BY <3>1, Zenon DEF Init, HostTypes, OtherTask
    <2>2. CmdsTypes /\ ThreadTypes /\ PortTypes
      BY SMT DEF Init, Each, CmdsTypes, ThreadTypes, PortTypes, Dummy
    <2>3. TaskTypes /\ StatusType
      BY SMT DEF Init, Each, TaskTypes, StatusType, Statuses
    <2> QED
      BY <2>1, <2>2, <2>3 DEF Types
  <1>2. NativeInv /\ ResetInv /\ NativeHeard
    <2>1. One(expc = "native") = 0 /\ Len(<<>>) = 0
      BY DEF Init, One
    <2> QED
      BY <2>1 DEF Init, NativeInv, ResetInv, NativeHeard
  <1>3. ASSUME NEW u \in Units PROVE UnitInv(u) /\ DummyInv(u)
    <2>1. Fresh(u)
      BY SMT DEF Init, Each, Fresh
    <2>2. /\ expc = "wait" /\ Times(port[u], Dummy) = 0 /\ tpc[u] = "loop"
          /\ cmds_acked[u] = cmds_complete[u]
      BY TimesNone, SMT DEF Init, Each
    <2> QED
      BY <2>1, <2>2, FreshInv DEF DummyInv, DummiesOut, One
  <1>4. OwedIsHeard /\ TimeoutIsHeard
    <2>1. \A u \in Units, p \in Packets : status[u][p] = "new"
      BY SMT DEF Init, Each
    <2> QED
      BY <2>1 DEF OwedIsHeard, TimeoutIsHeard
  <1> QED
    BY <1>1, <1>2, <1>3, <1>4, TypesAre, Zenon DEF IInv

LEMMA InvNext == IInv /\ [Next]_vars => IInv'
  <1> SUFFICES ASSUME IInv, [Next]_vars PROVE IInv'
    OBVIOUS
  <1>1. /\ Types /\ NativeInv /\ ResetInv /\ \A u \in Units : UnitInv(u) /\ DummyInv(u)
        /\ NativeHeard /\ OwedIsHeard /\ TimeoutIsHeard
    BY TypesAre, Zenon DEF IInv
  <1>2. Types'
    BY <1>1, InvTypes, Zenon
  <1>3. TypeOK'
    BY <1>2 DEF TypeOK, Types, HostTypes, CmdsTypes, ThreadTypes, PortTypes, TaskTypes, StatusType, Statuses
  <1>4. \A u \in Units : UnitInv(u)' /\ DummyInv(u)'
    BY <1>1, InvUnits, InvDummy, Zenon
  <1> QED
    BY <1>1, <1>3, <1>4, InvReset, InvNative, InvHeard, Zenon DEF IInv

LEMMA InvHolds == Spec => []IInv
  BY InvInit, InvNext, PTL DEF Spec

-----------------------------------------------------------------------------
(* What it means.                                                          *)

\* A unit's dummy message (filesys.cpp, exter_int_helper; filesys.asm) is put only when it is not
\* in a port: the counters cmds_acked and cmds_complete are its lock, whatever tasks and threads do.
THEOREM MessageOnce == Spec => []DummyOnce
  <1>1. IInv => DummyOnce
    BY Zenon DEF IInv, DummyInv, DummyOnce, One
  <1> QED
    BY <1>1, InvHolds, PTL

\* A packet has one holder until its reply (filesys_handler, filesys_iteration and the list of
\* filesys.asm's handler task), and is replied to only when the host has done with it.
THEOREM HeldOnce == Spec => []OneHolder
  <1>1. IInv => OneHolder
    <2> SUFFICES ASSUME IInv, NEW u \in Units, NEW p \in Packets
                 PROVE  /\ Times(port[u], p) + Times(queue[u], p) + (IF p \in replied[u] THEN 1 ELSE 0)
                             = IF p <= sends[u] THEN 1 ELSE 0
                        /\ Held(u, p) <= 1
                        /\ p \in replied[u] \/ status[u][p] # "handed" => Held(u, p) = 0
      BY Zenon DEF OneHolder
    <2>1. PacketInv(u, p)
      BY DEF IInv, UnitInv
    <2>2. Times(port[u], p) + Times(queue[u], p) + (IF p \in replied[u] THEN 1 ELSE 0)
            = IF p <= sends[u] THEN 1 ELSE 0
      BY <2>1, Zenon DEF PacketInv, One
    <2>3. Held(u, p) = (IF status[u][p] = "handed" THEN 1 ELSE 0)
      BY <2>1, Zenon DEF PacketInv, One
    <2>4. p \in replied[u] => status[u][p] # "handed"
      BY <2>1 DEF PacketInv
    <2> QED
      BY <2>2, <2>3, <2>4
  <1> QED
    BY <1>1, InvHolds, PTL

\* The limit of filesys.asm's handler task bounds what filesys_thread has of a unit, with no bound
\* on the packets sent: filesys_handler finds room in the unit's pipe.
THEOREM PipeNotFull == Spec => []PipeLimit
  <1>1. IInv => PipeLimit
    <2> SUFFICES ASSUME IInv, NEW u \in Units PROVE Load(u) <= MaxStarted
      BY Zenon DEF PipeLimit, Load, One, InHand
    <2>1. Types /\ UnitInv(u)
      BY TypesAre DEF IInv
    <2> DEFINE H == HandedSet(u)
               S == StartedSet(u)
               h == Head(port[u])
    <2>2. H \in SUBSET Packets /\ S \in SUBSET Packets
      BY DEF HandedSet, StartedSet
    <2>3. IsFiniteSet(H) /\ IsFiniteSet(S) /\ Cardinality(H) \in Nat /\ Cardinality(S) \in Nat
      BY <2>2, FinitePackets
    <2>4. ASSUME NEW p \in H, ~InTransit(u, p) PROVE p \in S
      <3>1. p \in Packets /\ status[u][p] = "handed"
        BY DEF HandedSet
      <3>2. PacketInv(u, p)
        BY <2>1, <3>1 DEF UnitInv
      <3>3. Times(port[u], p) \in Nat /\ Times(queue[u], p) \in Nat /\ sends[u] \in Nat /\ p \in Nat
        <4>1. sends[u] \in 0..MaxPackets
          BY <2>1, Zenon DEF Types, PortTypes
        <4>2. sends[u] \in Nat /\ p \in Nat
          BY <3>1, <4>1 DEF Packets
        <4> QED
          BY <2>1, <4>2, TimesNat, Zenon
      <3>4. p <= sends[u] /\ p \notin replied[u] /\ Times(port[u], p) = 0
        BY <2>4, <3>1, <3>2, <3>3, SMT DEF PacketInv
      <3>5. Times(queue[u], p) > 0
        BY <3>2, <3>3, <3>4 DEF PacketInv, One
      <3> QED
        BY <3>1, <3>5 DEF StartedSet
    <2>5. Load(u) = Cardinality(H) /\ Cardinality(S) + One(tpc[u] = "hand") <= MaxStarted
      BY <2>1 DEF UnitInv, ThreadInv, TaskInv
    <2> HIDE DEF H, S
    <2>6. CASE tpc[u] = "hand"
      <3>1. H \in SUBSET (S \cup {h})
        BY <2>4, <2>6 DEF InTransit
      <3>2. /\ IsFiniteSet(S \cup {h})
            /\ Cardinality(S \cup {h}) = Cardinality(S) \/ Cardinality(S \cup {h}) = Cardinality(S) + 1
        BY <2>3, FS_AddElement
      <3>3. Cardinality(H) <= Cardinality(S \cup {h})
        BY <3>1, <3>2, FS_Subset
      <3>4. One(tpc[u] = "hand") = 1
        BY <2>6 DEF One
      <3> QED
        BY <2>3, <2>5, <3>2, <3>3, <3>4, ExterAssumption
    <2>7. CASE tpc[u] # "hand"
      <3>1. H \in SUBSET S
        BY <2>4, <2>7 DEF InTransit
      <3>2. Cardinality(H) <= Cardinality(S)
        BY <2>3, <3>1, FS_Subset
      <3>3. One(tpc[u] = "hand") = 0
        BY <2>7 DEF One
      <3> QED
        BY <2>3, <2>5, <3>2, <3>3, ExterAssumption
    <2> QED
      BY <2>6, <2>7
  <1> QED
    BY <1>1, InvHolds, PTL

\* However interrupt requests of any number of threads coalesce (native2amiga.cpp), a command asked
\* for is in the reach of exter_task until it is performed.
THEOREM CommandsHeard == Spec => []NativeHeard
  BY InvHolds, PTL DEF IInv

\* While a unit is owed a message, its packets that are done are not forgotten, whichever unit's
\* thread asks for the interrupt, wherever exter_int_helper is, and across resets.
THEOREM PacketsHeard == Spec => []OwedIsHeard
  BY InvHolds, PTL DEF IInv

\* Nor are packets whose record-lock has timed out (filesys.cpp, record_timeout): between
\* the time-out and the reply the handler task is signalled or walks its list.
THEOREM TimeoutsHeard == Spec => []TimeoutIsHeard
  BY InvHolds, PTL DEF IInv

-----------------------------------------------------------------------------
(* The threads of uaehf.device.                                            *)

\* Types, but for change_sem.
TableTypes ==
  /\ d_request \in [Table -> Requests \union {None}]
  /\ d_request_iobuf \in [Table -> Bufs \union {None}] /\ temp \in [Table -> BOOLEAN]
  /\ live \in SUBSET Bufs
QueueType == requests \in Seq([request : Requests \union {None}, iobuf : Bufs \union {None}])
SyncTypes == thread_running \in BOOLEAN /\ sync_sem \in Nat \union {None}
CountTypes == opencnt \in Nat /\ opens \in 0..MaxOpens
IoreqTypes ==
  /\ command \in [Requests -> {"io", "add"}] /\ owner \in [Requests -> {"program", "device"}]
  /\ content \in [Requests -> {"old", "sent", "done", "kept", "aborted"}]
FrameTypes ==
  /\ request \in [Actors -> Requests \union {None}] /\ iobuf \in [Actors -> Bufs \union {None}]
  /\ slot \in [Actors -> Table] /\ j \in 0..(Slots + 1)
AllTypes == TableTypes /\ QueueType /\ SyncTypes /\ CountTypes /\ IoreqTypes /\ FrameTypes

\* Where the emulator thread waits for a thread's first post, and takes the next entry.
Waiters == {"openwait", "beginwait", "abortwait", "removewait"}
WaitInv ==
  /\ DOMAIN pc = Actors /\ (pc[Emu] \in Waiters => sync_sem \in Nat)
  /\ pc[Emu] = "resetabort" => j # 0
Working == {t \in Threads : pc[t] \in Locked}

LEMMA AllTypesAre == HardfileTypeOK <=> AllTypes /\ change_sem \in {0, 1}
  BY Zenon DEF HardfileTypeOK, AllTypes, TableTypes, QueueType, SyncTypes, CountTypes, IoreqTypes, FrameTypes

LEMMA TableKept ==
  ASSUME TableTypes, UNCHANGED heap PROVE TableTypes'
  BY Zenon DEF TableTypes, heap, table
LEMMA QueueKept ==
  ASSUME QueueType, UNCHANGED requests PROVE QueueType'
  BY Zenon DEF QueueType
LEMMA SyncKept ==
  ASSUME SyncTypes, UNCHANGED <<thread_running, sync_sem>> PROVE SyncTypes'
  BY Zenon DEF SyncTypes
LEMMA CountKept ==
  ASSUME CountTypes, UNCHANGED count PROVE CountTypes'
  BY Zenon DEF CountTypes, count
LEMMA IoreqKept ==
  ASSUME IoreqTypes, UNCHANGED ioreq PROVE IoreqTypes'
  BY Zenon DEF IoreqTypes, ioreq
LEMMA FramesKept ==
  ASSUME FrameTypes, UNCHANGED frames PROVE FrameTypes'
  BY Zenon DEF FrameTypes, frames

LEMMA GotoIs ==
  ASSUME DOMAIN pc = Actors, NEW a \in Actors, NEW l, Goto(a, l)
  PROVE  DOMAIN pc' = Actors /\ pc'[a] = l /\ \A b \in Actors : b # a => pc'[b] = pc[b]
  BY DEF Goto

LEMMA TheActors ==
  Emu \in Actors /\ Emu \notin Threads /\ \A t \in Threads : t \in Actors /\ t # Emu
  BY HardfileAssumption DEF Actors, Emu

\* The entry that a search for a request, or for a free one, comes to.
LEMMA FirstIs ==
  ASSUME NEW r, \E i \in Table : d_request[i] = r PROVE First(r) \in Table /\ d_request[First(r)] = r
  <1> DEFINE S == {i \in Table : d_request[i] = r}
  <1>1. S \in SUBSET Nat /\ S # {}
    BY DEF Table
  <1> HIDE DEF S
  <1>2. PICK i \in S : \A k \in S : i <= k
    BY <1>1, LeastOne
  <1> USE DEF S
  <1>3. i \in Table /\ d_request[i] = r
    OBVIOUS
  <1>4. \A k \in 1..(i - 1) : k \in Table /\ k < i
    BY <1>3, HardfileAssumption DEF Table
  <1>5. \A k \in 1..(i - 1) : d_request[k] # r
    <2> SUFFICES ASSUME NEW k \in 1..(i - 1), d_request[k] = r PROVE FALSE
      OBVIOUS
    <2>1. k \in S
      BY <1>4
    <2>2. i <= k /\ k < i /\ i \in Nat /\ k \in Nat
      BY <1>2, <1>3, <1>4, <2>1 DEF Table
    <2> QED
      BY <2>2
  <1> QED
    BY <1>3, <1>5, Zenon DEF First

TableLabels == {"claim", "fill", "type", "release", "free", "clear"}

LEMMA TableSteps ==
  ASSUME AllTypes, WaitInv, NEW a \in Actors, TableStep(a)
  PROVE  /\ AllTypes' /\ UNCHANGED <<change_sem, sync_sem, j>>
         /\ DOMAIN pc' = Actors /\ \A b \in Actors : b # a => pc'[b] = pc[b]
         /\ a = Emu => pc'[a] \notin Waiters /\ (pc'[a] = "resetabort" => j # 0)
         /\ a # Emu => pc[a] \in Locked /\ pc'[a] \in Locked
  <1> USE TableKept, QueueKept, SyncKept, CountKept, IoreqKept, FramesKept
      DEF AllTypes
  <1>1. UNCHANGED <<requests, sync, count, ioreq, j>>
    BY Zenon DEF TableStep, Reuse, Claim, FillIobuf, FillType, Find, Free, Clear, frames
  <1>2. QueueType' /\ SyncTypes' /\ CountTypes' /\ IoreqTypes' /\ UNCHANGED <<change_sem, sync_sem, j>>
    BY <1>1, Zenon DEF sync
  <1>3. PICK l \in {"put", "keep", "done", "reply", "idle", "resetabort", "type", "fill", "free", "clear"} :
          /\ Goto(a, l) /\ pc[a] \in TableLabels
          /\ l \in {"put", "idle", "resetabort"} => a = Emu
          /\ l = "resetabort" => j # 0
    <2> USE DEF TableLabels
    <2>1. CASE Reuse(a)
      BY <2>1, Zenon DEF Reuse
    <2>2. CASE Claim(a)
      <3>1. Goto(a, "fill") \/ Goto(a, NotAdded(a))
        BY <2>2, Zenon DEF Claim
      <3> QED
        BY <2>2, <3>1, Zenon DEF Claim, NotAdded
    <2>3. CASE FillIobuf(a)
      BY <2>3, Zenon DEF FillIobuf
    <2>4. CASE FillType(a)
      BY <2>4, Zenon DEF FillType, Added
    <2>5. CASE Find(a)
      <3>1. Goto(a, "free") \/ Goto(a, Released(a))
        BY <2>5, Zenon DEF Find
      <3> QED
        BY <2>5, <3>1, Zenon DEF Find, Released
    <2>6. CASE Free(a)
      BY <2>6, Zenon DEF Free
    <2>7. CASE Clear(a)
      BY <2>7, Zenon DEF Clear, Released
    <2> QED
      BY <2>1, <2>2, <2>3, <2>4, <2>5, <2>6, <2>7, Zenon DEF TableStep
  <1>4. DOMAIN pc' = Actors /\ pc'[a] = l /\ \A b \in Actors : b # a => pc'[b] = pc[b]
    BY <1>3, GotoIs, Zenon DEF WaitInv
  <1>5. l \notin Waiters /\ (a # Emu => pc[a] \in Locked /\ l \in Locked)
    BY <1>3 DEF Waiters, Locked, TableLabels
  <1>6. TableTypes' /\ FrameTypes'
    <2>1. CASE Reuse(a)
      <3>1. First(request[a]) \in Table
        BY <2>1, FirstIs, Zenon DEF Reuse
      <3>2. slot' \in [Actors -> Table]
        BY <2>1, <3>1, Zenon DEF Reuse, FrameTypes
      <3> QED
        BY <2>1, <3>2, Zenon DEF Reuse, FrameTypes
    <2>2. CASE Claim(a)
      <3>1. CASE \E i \in Table : d_request[i] = None
        <4>1. First(None) \in Table /\ request[a] \in Requests \union {None}
          BY <3>1, FirstIs, Zenon DEF FrameTypes
        <4>2. /\ slot' = [slot EXCEPT ![a] = First(None)]
              /\ d_request' = [d_request EXCEPT ![First(None)] = request[a]]
              /\ UNCHANGED <<d_request_iobuf, temp, live, request, iobuf, j>>
          BY <2>2, <3>1, Zenon DEF Claim
        <4> QED
          BY <4>1, <4>2, Zenon DEF TableTypes, FrameTypes
      <3>2. CASE ~\E i \in Table : d_request[i] = None
        BY <2>2, <3>2, Zenon DEF Claim, heap, table, frames
      <3> QED
        BY <3>1, <3>2
    <2>3. CASE FillIobuf(a)
      <3>1. iobuf[a] \in Bufs \union {None}
        BY Zenon DEF FrameTypes
      <3>2. TableTypes'
        BY <2>3, <3>1, Zenon DEF FillIobuf, TableTypes
      <3> QED
        BY <2>3, <3>2, Zenon DEF FillIobuf
    <2>4. CASE FillType(a)
      <3>1. (a = Emu) \in BOOLEAN /\ 1 \in Table
        BY HardfileAssumption DEF Table
      <3>2. temp' \in [Table -> BOOLEAN]
        BY <2>4, <3>1 DEF FillType, TableTypes
      <3>3. slot' \in [Actors -> Table]
        BY <2>4, <3>1, Zenon DEF FillType, FrameTypes
      <3> QED
        BY <2>4, <3>2, <3>3, Zenon DEF FillType, TableTypes, FrameTypes
    <2>5. CASE Find(a)
      <3>1. CASE \E i \in Table : d_request[i] = request[a]
        <4>1. First(request[a]) \in Table
          BY <3>1, FirstIs, Zenon
        <4>2. /\ slot' = [slot EXCEPT ![a] = First(request[a])]
              /\ d_request' = [d_request EXCEPT ![First(request[a])] = None]
              /\ UNCHANGED <<d_request_iobuf, temp, live, request, iobuf, j>>
          BY <2>5, <3>1, Zenon DEF Find
        <4>3. None \in Requests \union {None}
          OBVIOUS
        <4> QED
          BY <4>1, <4>2, <4>3, Zenon DEF TableTypes, FrameTypes
      <3>2. CASE ~\E i \in Table : d_request[i] = request[a]
        BY <2>5, <3>2, Zenon DEF Find, heap, table, frames
      <3> QED
        BY <3>1, <3>2
    <2>6. CASE Free(a)
      BY <2>6 DEF Free, TableTypes, table
    <2>7. CASE Clear(a)
      <3>1. 1 \in Table /\ None \in Bufs \union {None} /\ FALSE \in BOOLEAN
        BY HardfileAssumption DEF Table
      <3> QED
        BY <2>7, <3>1, Zenon DEF Clear, TableTypes, FrameTypes
    <2> QED
      BY <2>1, <2>2, <2>3, <2>4, <2>5, <2>6, <2>7, Zenon DEF TableStep
  <1> QED
    BY <1>2, <1>3, <1>4, <1>5, <1>6, Zenon

\* The emulator thread leaves change_sem alone, and the threads where they are.
EmuMoved ==
  /\ AllTypes' /\ UNCHANGED change_sem
  /\ DOMAIN pc' = Actors /\ \A t \in Threads : pc'[t] = pc[t]
  /\ pc'[Emu] \in Waiters => sync_sem' \in Nat
  /\ pc'[Emu] = "resetabort" => j' # 0

\* A thread.
ThreadMoved(t) ==
  /\ AllTypes' /\ DOMAIN pc' = Actors /\ \A b \in Actors : b # t => pc'[b] = pc[b]
  /\ sync_sem \in Nat => sync_sem' \in Nat
  /\ j' = j
Stays(t) == change_sem' = change_sem /\ (pc'[t] \in Locked <=> pc[t] \in Locked)
Enters(t) == change_sem > 0 /\ change_sem' = change_sem - 1 /\ pc[t] \notin Locked /\ pc'[t] \in Locked
Leaves(t) == change_sem' = change_sem + 1 /\ pc[t] \in Locked /\ pc'[t] \notin Locked

LEMMA ThreadMoves ==
  ASSUME AllTypes, WaitInv, NEW t \in Threads, ThreadStep(t)
  PROVE  ThreadMoved(t) /\ (Stays(t) \/ Enters(t) \/ Leaves(t))
  <1> USE TableKept, QueueKept, SyncKept, CountKept, IoreqKept, FramesKept DEF AllTypes
  <1>1. t \in Actors /\ t # Emu /\ DOMAIN pc = Actors
    BY TheActors, Zenon DEF WaitInv
  <1>2. ASSUME NEW l, Goto(t, l) PROVE DOMAIN pc' = Actors /\ pc'[t] = l /\ \A b \in Actors : b # t => pc'[b] = pc[b]
    BY <1>1, <1>2, GotoIs, Zenon
  <1>9. UNCHANGED j
    <2>1. CASE TableStep(t)
      BY <1>1, <2>1, TableSteps, Zenon
    <2>2. CASE ~TableStep(t)
      BY <2>2, Zenon DEF ThreadStep, Start, Report, Read, Lock, AddChangeInt, DoIo, Keep, ReplyMsg, Unlock,
         Exit, ExitSync, ExitUnlock, frames
    <2> QED
      BY <2>1, <2>2
  <1>3. CASE TableStep(t)
    <2>1. sync_sem' = sync_sem
      BY <1>1, <1>3, TableSteps, Zenon
    <2>2. AllTypes' /\ DOMAIN pc' = Actors /\ \A b \in Actors : b # t => pc'[b] = pc[b]
      BY <1>1, <1>3, TableSteps, Zenon
    <2>3. Stays(t)
      BY <1>1, <1>3, TableSteps, Zenon DEF Stays
    <2> QED
      BY <2>1, <2>2, <2>3, <1>9, Zenon DEF ThreadMoved
  <1>4. CASE Start(t) \/ Exit(t)
    <2>1. /\ thread_running' \in BOOLEAN /\ UNCHANGED <<heap, requests, change_sem, sync_sem, count, ioreq, frames>>
          /\ (Goto(t, "started") /\ pc[t] = "start") \/ (Goto(t, "exitsync") /\ pc[t] = "exit")
      BY <1>4, Zenon DEF Start, Exit
    <2>2. AllTypes'
      BY <2>1, Zenon DEF SyncTypes
    <2>3. Stays(t)
      BY <1>2, <2>1 DEF Stays, Locked
    <2> QED
      BY <1>2, <2>1, <2>2, <2>3, <1>9, Zenon DEF ThreadMoved
  <1>5. CASE Report(t) \/ ExitSync(t)
    <2>1. /\ PostSync /\ UNCHANGED <<heap, requests, thread_running, change_sem, count, ioreq, frames>>
          /\ (Goto(t, "read") /\ pc[t] = "started") \/ (Goto(t, "exitunlock") /\ pc[t] = "exitsync")
      BY <1>5, Zenon DEF Report, ExitSync
    <2>2. SyncTypes' /\ (sync_sem \in Nat => sync_sem' \in Nat)
      BY <2>1 DEF SyncTypes, PostSync
    <2>3. AllTypes'
      BY <2>1, <2>2, Zenon
    <2>4. Stays(t)
      BY <1>2, <2>1 DEF Stays, Locked
    <2> QED
      BY <1>2, <2>1, <2>2, <2>3, <2>4, <1>9, Zenon DEF ThreadMoved
  <1>6. CASE Read(t)
    <2> DEFINE M == [request : Requests \union {None}, iobuf : Bufs \union {None}]
    <2>1. Head(requests) \in M /\ Tail(requests) \in Seq(M)
      BY <1>6, HeadTailProperties, Zenon DEF Read, QueueType
    <2>2. Head(requests).request \in Requests \union {None} /\ Head(requests).iobuf \in Bufs \union {None}
      BY <2>1
    <2>3. FrameTypes'
      BY <1>6, <2>2, Zenon DEF Read, Local, FrameTypes
    <2>4. QueueType'
      BY <1>6, <2>1, Zenon DEF Read, QueueType
    <2>5. UNCHANGED <<heap, sync, count, ioreq>> /\ (Goto(t, "lock") /\ pc[t] = "read")
      BY <1>6, Zenon DEF Read
    <2>6. UNCHANGED <<thread_running, sync_sem, change_sem>>
      BY <2>5, Zenon DEF sync
    <2>7. AllTypes'
      BY <2>3, <2>4, <2>5, <2>6, Zenon
    <2>8. Stays(t)
      BY <1>2, <2>5, <2>6 DEF Stays, Locked
    <2> QED
      BY <1>2, <2>5, <2>6, <2>7, <2>8, <1>9, Zenon DEF ThreadMoved
  <1>7. CASE Lock(t) \/ Unlock(t) \/ ExitUnlock(t)
    <2>1. /\ UNCHANGED <<heap, requests, thread_running, sync_sem, count, ioreq>>
      BY <1>7, Zenon DEF Lock, Unlock, ExitUnlock
    <2>2. FrameTypes'
      <3>1. CASE Unlock(t)
        BY <3>1, Zenon DEF Unlock, Local, FrameTypes
      <3>2. CASE Lock(t) \/ ExitUnlock(t)
        BY <3>2, Zenon DEF Lock, ExitUnlock
      <3> QED
        BY <1>7, <3>1, <3>2
    <2>3. AllTypes'
      BY <2>1, <2>2, Zenon
    <2>4. CASE Lock(t)
      <3>1. PICK l \in {"exit", "io"} : Goto(t, l)
        BY <2>4, Zenon DEF Lock
      <3>2. Enters(t)
        BY <1>2, <2>4, <3>1 DEF Lock, Enters, Locked
      <3> QED
        BY <1>2, <2>1, <2>3, <3>1, <3>2, <1>9, Zenon DEF ThreadMoved
    <2>5. CASE Unlock(t) \/ ExitUnlock(t)
      <3>1. (Goto(t, "read") /\ pc[t] = "unlock") \/ (Goto(t, "dead") /\ pc[t] = "exitunlock")
        BY <2>5, Zenon DEF Unlock, ExitUnlock
      <3>2. change_sem' = change_sem + 1
        BY <2>5, Zenon DEF Unlock, ExitUnlock
      <3>3. Leaves(t)
        BY <1>2, <3>1, <3>2 DEF Leaves, Locked
      <3> QED
        BY <1>2, <2>1, <2>3, <3>1, <3>3, <1>9, Zenon DEF ThreadMoved
    <2> QED
      BY <1>7, <2>4, <2>5
  <1>8. CASE AddChangeInt(t) \/ DoIo(t) \/ Keep(t) \/ ReplyMsg(t)
    <2>1. /\ UNCHANGED <<heap, requests, sync, count, frames>>
          /\ \/ (Goto(t, "claim") /\ pc[t] = "io") \/ (Goto(t, "release") /\ pc[t] \in {"io", "done"})
             \/ (Goto(t, "unlock") /\ pc[t] \in {"keep", "reply"})
      BY <1>8, Zenon DEF AddChangeInt, DoIo, Keep, ReplyMsg
    <2>2. IoreqTypes'
      <3>1. CASE AddChangeInt(t)
        BY <3>1, Zenon DEF AddChangeInt
      <3>2. CASE DoIo(t)
        BY <3>2, Zenon DEF DoIo, IoreqTypes
      <3>3. CASE Keep(t)
        BY <3>3, Zenon DEF Keep, IoreqTypes
      <3>4. CASE ReplyMsg(t)
        BY <3>4, Zenon DEF ReplyMsg, IoreqTypes
      <3> QED
        BY <1>8, <3>1, <3>2, <3>3, <3>4
    <2>3. UNCHANGED <<thread_running, sync_sem, change_sem>>
      BY <2>1, Zenon DEF sync
    <2>4. AllTypes'
      BY <2>1, <2>2, <2>3, Zenon
    <2>5. Stays(t)
      BY <1>2, <2>1, <2>3 DEF Stays, Locked
    <2> QED
      BY <1>2, <2>1, <2>3, <2>4, <2>5, <1>9, Zenon DEF ThreadMoved
  <1> QED
    BY <1>3, <1>4, <1>5, <1>6, <1>7, <1>8, Zenon DEF ThreadStep

LEMMA QueuePut ==
  ASSUME AllTypes, NEW r \in Requests \union {None}, NEW b \in Bufs \union {None},
         requests' = Append(requests, [request |-> r, iobuf |-> b])
  PROVE  QueueType'
  <1> DEFINE M == [request : Requests \union {None}, iobuf : Bufs \union {None}]
  <1>1. [request |-> r, iobuf |-> b] \in M /\ requests \in Seq(M)
    BY DEF AllTypes, QueueType
  <1> QED
    BY <1>1, AppendProperties, Zenon DEF QueueType

LEMMA StopPut ==
  ASSUME AllTypes, requests' = Append(requests, Stop) PROVE QueueType'
  BY QueuePut, Zenon DEF Stop

LEMMA ClearedTypes ==
  ASSUME AllTypes, Cleared, UNCHANGED live PROVE TableTypes'
  BY SMT DEF AllTypes, TableTypes, Cleared

\* The calls, the last close, and the start of a reset.
LEMMA CallMoves ==
  ASSUME AllTypes, WaitInv, Call \/ Close \/ Reset PROVE EmuMoved
  <1> USE TableKept, QueueKept, SyncKept, CountKept, IoreqKept, FramesKept, HardfileAssumption
      DEF AllTypes
  <1>1. Emu \in Actors /\ DOMAIN pc = Actors /\ \A t \in Threads : t \in Actors /\ t # Emu
    BY TheActors, Zenon DEF WaitInv
  <1>2. ASSUME AllTypes', UNCHANGED change_sem, NEW l, l \notin Waiters, Goto(Emu, l),
               l = "resetabort" => j' # 0
        PROVE  EmuMoved
    BY <1>1, <1>2, GotoIs, Zenon DEF EmuMoved
  <1>3. CASE CallOpen
    <2>1. CountTypes'
      BY <1>3, SMT DEF CallOpen, CountTypes
    <2>2. AllTypes' /\ UNCHANGED change_sem /\ Goto(Emu, "open")
      BY <1>3, <2>1, Zenon DEF CallOpen, sync
    <2> QED
      BY <1>2, <2>2 DEF Waiters
  <1>4. CASE CallBeginIo
    <2>1. PICK r \in Requests, b \in Bufs \ live, c \in {"io", "add"} :
             /\ owner[r] = "program" /\ owner' = [owner EXCEPT ![r] = "device"]
             /\ content' = [content EXCEPT ![r] = "old"] /\ command' = [command EXCEPT ![r] = c]
             /\ live' = live \union {b} /\ Local(Emu, r, b)
      BY <1>4, Zenon DEF CallBeginIo
    <2>2. IoreqTypes'
      BY <2>1, Zenon DEF IoreqTypes
    <2>3. live' \in SUBSET Bufs
      BY <2>1 DEF TableTypes
    <2>4. r \in Requests \union {None} /\ b \in Bufs \union {None}
      BY <2>1
    <2>5. TableTypes' /\ FrameTypes'
      BY <1>4, <2>1, <2>3, <2>4, Zenon DEF CallBeginIo, TableTypes, FrameTypes, Local, table
    <2>6. AllTypes' /\ UNCHANGED change_sem /\ Goto(Emu, "begin")
      BY <1>4, <2>2, <2>5, Zenon DEF CallBeginIo, sync
    <2> QED
      BY <1>2, <2>6 DEF Waiters
  <1>5. CASE CallAbortIo \/ CallRemChangeInt
    <2>1. PICK r \in Requests : Local(Emu, r, None)
      BY <1>5, Zenon DEF CallAbortIo, CallRemChangeInt
    <2>2. r \in Requests \union {None} /\ None \in Bufs \union {None}
      BY <2>1
    <2>3. FrameTypes'
      BY <1>5, <2>1, <2>2, Zenon DEF CallAbortIo, CallRemChangeInt, FrameTypes, Local
    <2>4. AllTypes' /\ UNCHANGED change_sem
      BY <1>5, <2>3, Zenon DEF CallAbortIo, CallRemChangeInt, sync
    <2>5. Goto(Emu, "abort") \/ Goto(Emu, "remove")
      BY <1>5, Zenon DEF CallAbortIo, CallRemChangeInt
    <2> QED
      BY <1>2, <2>4, <2>5 DEF Waiters
  <1>6. CASE Close
    <2>1. CountTypes'
      BY <1>6, SMT DEF Close, CountTypes
    <2>2. QueueType'
      <3>1. CASE opencnt = 1
        BY <1>6, <3>1, StopPut, Zenon DEF Close
      <3>2. CASE opencnt # 1
        BY <1>6, <3>2, Zenon DEF Close
      <3> QED
        BY <3>1, <3>2
    <2>3. AllTypes' /\ UNCHANGED <<change_sem, sync_sem, pc, j>>
      BY <1>6, <2>1, <2>2, Zenon DEF Close, sync, frames
    <2> QED
      BY <2>3, Zenon DEF EmuMoved, WaitInv
  <1>7. CASE Reset
    <2>1. /\ j' = j \/ j' = 1
          /\ UNCHANGED <<heap, requests, sync, count, ioreq, request, iobuf, slot>>
      BY <1>7, Zenon DEF Reset
    <2>2. FrameTypes'
      BY <2>1, SMT DEF FrameTypes
    <2>3. AllTypes' /\ UNCHANGED change_sem
      BY <2>1, <2>2, Zenon DEF sync
    <2>4. (j' = 1 /\ Goto(Emu, "resetabort")) \/ Goto(Emu, "resetstop")
      BY <1>7, Zenon DEF Reset
    <2> QED
      BY <1>2, <2>3, <2>4 DEF Waiters
  <1> QED
    BY <1>3, <1>4, <1>5, <1>6, <1>7, Zenon DEF Call

LEMMA StartMoves ==
  ASSUME AllTypes, WaitInv, NEW l \in Calls, StartThread(l)
  PROVE  /\ AllTypes' /\ UNCHANGED change_sem /\ DOMAIN pc' = Actors
         /\ \A t \in Threads : pc'[t] \in Locked <=> pc[t] \in Locked
         /\ pc'[Emu] \in Waiters => sync_sem' \in Nat
         /\ pc'[Emu] # "resetabort"
  <1> USE TableKept, QueueKept, SyncKept, CountKept, IoreqKept, FramesKept DEF AllTypes
  <1>1. Emu \in Actors /\ DOMAIN pc = Actors /\ \A t \in Threads : t \in Actors /\ t # Emu
    BY TheActors, Zenon DEF WaitInv
  <1>2. UNCHANGED <<live, thread_running, change_sem, count, ioreq, iobuf, slot, j, request>>
    BY Zenon DEF StartThread
  <1>3. UNCHANGED frames
    BY <1>2, Zenon DEF frames
  <1>4. CASE Goto(Emu, Then[l]) /\ UNCHANGED <<table, requests, sync_sem>>
    <2>1. AllTypes'
      BY <1>2, <1>3, <1>4, Zenon DEF heap
    <2>2. Then[l] \notin Waiters /\ Then[l] # "resetabort"
      BY DEF Calls, Then, Waiters
    <2>3. DOMAIN pc' = Actors /\ pc'[Emu] = Then[l] /\ \A b \in Actors : b # Emu => pc'[b] = pc[b]
      BY <1>1, <1>4, GotoIs, Zenon
    <2> QED
      BY <1>1, <1>2, <2>1, <2>2, <2>3, Zenon
  <1>5. ASSUME NEW t \in Threads, pc[t] = "dead", Cleared, requests' = <<>>, sync_sem' = 0,
               pc' = [pc EXCEPT ![t] = "start", ![Emu] = Waits[l]]
        PROVE  /\ AllTypes' /\ UNCHANGED change_sem /\ DOMAIN pc' = Actors
               /\ \A d \in Threads : pc'[d] \in Locked <=> pc[d] \in Locked
               /\ pc'[Emu] \in Waiters => sync_sem' \in Nat
               /\ pc'[Emu] # "resetabort"
    <2>1. TableTypes' /\ SyncTypes'
      BY <1>2, <1>5, ClearedTypes DEF SyncTypes
    <2>2. QueueType'
      BY <1>5, EmptySeq DEF QueueType
    <2>3. AllTypes'
      BY <1>2, <1>3, <2>1, <2>2, Zenon
    <2>4. DOMAIN pc' = Actors /\ \A d \in Threads : d # t => pc'[d] = pc[d]
      BY <1>1, <1>5
    <2>5. pc'[t] = "start"
      BY <1>1, <1>5
    <2>6. \A d \in Threads : pc'[d] \in Locked <=> pc[d] \in Locked
      BY <1>5, <2>4, <2>5 DEF Locked
    <2>7. pc'[Emu] = Waits[l] /\ Waits[l] # "resetabort"
      BY <1>1, <1>5 DEF Calls, Then, Waits
    <2> QED
      BY <1>2, <1>5, <2>3, <2>4, <2>6, <2>7
  <1> QED
    BY <1>4, <1>5, Zenon DEF StartThread

LEMMA EmuMoves ==
  ASSUME AllTypes, WaitInv, EmuStep PROVE EmuMoved
  <1> USE TableKept, QueueKept, SyncKept, CountKept, IoreqKept, FramesKept, HardfileAssumption
      DEF AllTypes
  <1>1. Emu \in Actors /\ DOMAIN pc = Actors /\ \A t \in Threads : t \in Actors /\ t # Emu
    BY TheActors, Zenon DEF WaitInv
  <1>2. ASSUME AllTypes', UNCHANGED change_sem, NEW l, l \notin Waiters, Goto(Emu, l),
               l = "resetabort" => j' # 0
        PROVE  EmuMoved
    BY <1>1, <1>2, GotoIs, Zenon DEF EmuMoved
  <1>3. ASSUME NEW l \in Calls, Started(l) PROVE EmuMoved
    <2>1. /\ Waits[l] \in Waiters /\ Then[l] \notin Waiters /\ "idle" \notin Waiters
          /\ Then[l] # "resetabort"
      BY DEF Calls, Then, Waits, Waiters
    <2>2. sync_sem \in Nat /\ sync_sem' \in Nat
      <3>1. sync_sem \in Nat /\ sync_sem # 0 /\ sync_sem' = sync_sem - 1
        BY <1>3, <2>1, Zenon DEF Started, WaitInv
      <3> QED
        BY <3>1
    <2>3. live' \in SUBSET Bufs /\ owner' \in [Requests -> {"program", "device"}]
      <3>1. CASE thread_running
        BY <1>3, <3>1, Zenon DEF Started, TableTypes, IoreqTypes
      <3>2. CASE ~thread_running
        <4>1. Refuse(l)
          BY <1>3, <3>2, Zenon DEF Started
        <4>2. live' \in SUBSET Bufs
          BY <4>1 DEF Refuse, TableTypes
        <4>3. owner' \in [Requests -> {"program", "device"}]
          BY <4>1, Zenon DEF Refuse, IoreqTypes
        <4> QED
          BY <4>2, <4>3
      <3> QED
        BY <3>1, <3>2
    <2>4. UNCHANGED <<table, requests, thread_running, change_sem, count, command, content, frames>>
      BY <1>3, Zenon DEF Started
    <2>5. TableTypes' /\ IoreqTypes' /\ SyncTypes'
      BY <2>2, <2>3, <2>4, Zenon DEF TableTypes, IoreqTypes, SyncTypes, table
    <2>6. AllTypes'
      BY <2>4, <2>5, Zenon
    <2>7. PICK m \in {Then[l], "idle"} : Goto(Emu, m)
      BY <1>3, Zenon DEF Started, Refuse
    <2>8. m \notin Waiters /\ m # "resetabort"
      BY <2>1
    <2> QED
      BY <1>2, <2>4, <2>6, <2>7, <2>8, Zenon
  <1>4. CASE TableStep(Emu)
    <2>1. /\ AllTypes' /\ UNCHANGED <<change_sem, j>> /\ DOMAIN pc' = Actors
          /\ \A b \in Actors : b # Emu => pc'[b] = pc[b]
          /\ pc'[Emu] \notin Waiters /\ (pc'[Emu] = "resetabort" => j # 0)
      BY <1>1, <1>4, TableSteps, Zenon
    <2> QED
      BY <1>1, <2>1, Zenon DEF EmuMoved
  <1>5. CASE Opened
    <2>1. CountTypes'
      BY <1>5, SMT DEF Opened, CountTypes
    <2>2. AllTypes' /\ UNCHANGED change_sem /\ Goto(Emu, "idle")
      BY <1>5, <2>1, Zenon DEF Opened, sync
    <2> QED
      BY <1>2, <2>2 DEF Waiters
  <1>6. CASE WriteFlags \/ MarkAborted \/ RemChangeInt \/ Scan
    <2>1. IoreqTypes'
      <3>1. CASE WriteFlags
        BY <3>1, Zenon DEF WriteFlags, IoreqTypes
      <3>2. CASE MarkAborted
        BY <3>2, Zenon DEF MarkAborted, IoreqTypes
      <3>3. CASE RemChangeInt
        BY <3>3, Zenon DEF RemChangeInt, IoreqTypes
      <3>4. CASE Scan
        BY <3>4, Zenon DEF Scan
      <3> QED
        BY <1>6, <3>1, <3>2, <3>3, <3>4
    <2>2. UNCHANGED <<heap, requests, sync, count, frames>>
      BY <1>6, Zenon DEF WriteFlags, MarkAborted, RemChangeInt, Scan
    <2>3. Goto(Emu, "post") \/ Goto(Emu, "scan") \/ Goto(Emu, "release")
      BY <1>6, Zenon DEF WriteFlags, MarkAborted, RemChangeInt, Scan
    <2>4. AllTypes' /\ UNCHANGED change_sem
      BY <2>1, <2>2, Zenon DEF sync
    <2> QED
      BY <1>2, <2>3, <2>4 DEF Waiters
  <1>7. CASE Post
    <2>1. request[Emu] \in Requests \union {None} /\ iobuf[Emu] \in Bufs \union {None}
      BY <1>1, Zenon DEF FrameTypes
    <2>2. QueueType'
      BY <1>7, <2>1, QueuePut, Zenon DEF Post, Message
    <2>3. FrameTypes'
      BY <1>7, Zenon DEF Post, Local, FrameTypes
    <2>4. AllTypes' /\ UNCHANGED change_sem /\ Goto(Emu, "idle")
      BY <1>7, <2>2, <2>3, Zenon DEF Post, sync
    <2> QED
      BY <1>2, <2>4 DEF Waiters
  <1>8. CASE ResetAbort
    <2>1. FrameTypes'
      <3>1. CASE j > Slots
        BY <1>8, <3>1, Zenon DEF ResetAbort, FrameTypes
      <3>2. CASE ~(j > Slots)
        <4>1. j' = j + 1 /\ j + 1 \in 0..(Slots + 1)
          BY <1>8, <3>2, SMT DEF ResetAbort, FrameTypes
        <4>2. request' \in [Actors -> Requests \union {None}]
          <5>1. j \in Table => d_request[j] \in Requests \union {None}
            BY Zenon DEF TableTypes
          <5>2. j \in Table
            <6>1. j # 0 /\ j \in 0..(Slots + 1)
              BY <1>8, Zenon DEF ResetAbort, WaitInv, FrameTypes
            <6> QED
              BY <3>2, <6>1 DEF Table
          <5> QED
            BY <1>8, <3>2, <5>1, <5>2, Zenon DEF ResetAbort, FrameTypes
        <4> QED
          BY <1>8, <4>1, <4>2, Zenon DEF ResetAbort, FrameTypes
      <3> QED
        BY <3>1, <3>2
    <2>2. AllTypes' /\ UNCHANGED <<change_sem, sync_sem>>
      BY <1>8, <2>1, Zenon DEF ResetAbort, sync
    <2>3. UNCHANGED pc \/ Goto(Emu, "resetstop") \/ Goto(Emu, "scan")
      BY <1>8, Zenon DEF ResetAbort
    <2>4. CASE UNCHANGED pc
      <3>1. j' # 0
        <4>1. j # 0 /\ j \in Nat /\ (j' = j \/ j' = j + 1)
          BY <1>8 DEF ResetAbort, WaitInv, FrameTypes, frames
        <4> QED
          BY <4>1
      <3> QED
        BY <2>2, <2>4, <3>1, Zenon DEF EmuMoved, WaitInv
    <2> QED
      BY <1>2, <2>2, <2>3, <2>4 DEF Waiters
  <1>9. CASE ResetStop
    <2>1. FrameTypes'
      BY <1>9, SMT DEF ResetStop, FrameTypes
    <2>2. QueueType'
      BY <1>9, StopPut, Zenon DEF ResetStop
    <2>3. AllTypes' /\ UNCHANGED change_sem
      BY <1>9, <2>1, <2>2, Zenon DEF ResetStop, sync
    <2>4. Goto(Emu, "resetwait") \/ Goto(Emu, "resetclear")
      BY <1>9, Zenon DEF ResetStop
    <2> QED
      BY <1>2, <2>3, <2>4 DEF Waiters
  <1>10. CASE ResetWait
    <2>1. SyncTypes'
      BY <1>10, Zenon DEF ResetWait, SyncTypes
    <2>2. AllTypes' /\ UNCHANGED change_sem /\ Goto(Emu, "resetclear")
      BY <1>10, <2>1, Zenon DEF ResetWait
    <2> QED
      BY <1>2, <2>2 DEF Waiters
  <1>11. CASE ResetClear
    <2>1. TableTypes' /\ SyncTypes'
      BY <1>11, ClearedTypes DEF ResetClear, SyncTypes
    <2>2. QueueType'
      BY <1>11, EmptySeq DEF ResetClear, QueueType
    <2>3. CountTypes' /\ IoreqTypes'
      BY <1>11 DEF ResetClear, CountTypes, IoreqTypes
    <2>4. AllTypes' /\ UNCHANGED change_sem /\ Goto(Emu, "idle")
      BY <1>11, <2>1, <2>2, <2>3, Zenon DEF ResetClear
    <2> QED
      BY <1>2, <2>4 DEF Waiters
  <1> QED
    BY <1>3, <1>4, <1>5, <1>6, <1>7, <1>8, <1>9, <1>10, <1>11, Zenon DEF EmuStep

HardfileInv ==
  AllTypes /\ WaitInv /\ change_sem \in {0, 1} /\ Cardinality(Working) = 1 - change_sem

LEMMA HardfileInvInit == HardfileInit => HardfileInv
  <1> SUFFICES ASSUME HardfileInit PROVE HardfileInv
    OBVIOUS
  <1> USE HardfileAssumption
  <1>1. TableTypes /\ SyncTypes /\ CountTypes /\ IoreqTypes
    <2>1. 0 \in 0..MaxOpens
      OBVIOUS
    <2>2. CountTypes
      BY <2>1, Zenon DEF HardfileInit, CountTypes
    <2> QED
      BY <2>2 DEF HardfileInit, TableTypes, SyncTypes, IoreqTypes
  <1>2. QueueType
    BY EmptySeq DEF HardfileInit, QueueType
  <1>3. FrameTypes
    <2>1. 1 \in Table /\ 0 \in 0..(Slots + 1)
      BY DEF Table
    <2> QED
      BY <2>1 DEF HardfileInit, FrameTypes
  <1>4. WaitInv
    BY TheActors DEF HardfileInit, WaitInv, Waiters
  <1>5. Working = {}
    <2>1. \A t \in Threads : pc[t] = "dead"
      BY TheActors, Zenon DEF HardfileInit
    <2> QED
      BY <2>1 DEF Working, Locked
  <1> QED
    BY <1>1, <1>2, <1>3, <1>4, <1>5, FS_EmptySet DEF HardfileInv, AllTypes, HardfileInit

LEMMA HardfileInvNext == HardfileInv /\ [HardfileNext]_hardfile_vars => HardfileInv'
  <1> SUFFICES ASSUME HardfileInv, [HardfileNext]_hardfile_vars PROVE HardfileInv'
    OBVIOUS
  <1>1. AllTypes /\ WaitInv /\ change_sem \in {0, 1} /\ Cardinality(Working) = 1 - change_sem
    BY DEF HardfileInv
  <1>2. IsFiniteSet(Working)
    <2>1. Working \in SUBSET Threads
      BY DEF Working
    <2> QED
      BY <2>1, HardfileAssumption, FS_Subset
  <1>3. Cardinality(Working) \in Nat
    BY <1>2, FS_CardinalityType
  <1>4. ASSUME \A t \in Threads : pc'[t] \in Locked <=> pc[t] \in Locked, UNCHANGED change_sem
        PROVE  change_sem' \in {0, 1} /\ Cardinality(Working') = 1 - change_sem'
    <2>1. Working' = Working
      BY <1>4 DEF Working
    <2> QED
      BY <1>1, <1>4, <2>1
  <1>5. ASSUME EmuMoved PROVE HardfileInv'
    BY <1>4, <1>5, Zenon DEF HardfileInv, EmuMoved, WaitInv
  <1>6. CASE Call \/ Close \/ Reset \/ EmuStep
    BY <1>1, <1>5, <1>6, CallMoves, EmuMoves, Zenon
  <1>7. ASSUME NEW l \in Calls, StartThread(l) PROVE HardfileInv'
    <2>1. /\ AllTypes' /\ UNCHANGED change_sem /\ DOMAIN pc' = Actors
          /\ \A t \in Threads : pc'[t] \in Locked <=> pc[t] \in Locked
          /\ (pc'[Emu] \in Waiters => sync_sem' \in Nat) /\ pc'[Emu] # "resetabort"
      BY <1>1, <1>7, StartMoves, Zenon
    <2> QED
      BY <1>4, <2>1, Zenon DEF HardfileInv, WaitInv
  <1>8. ASSUME NEW t \in Threads, ThreadStep(t) PROVE HardfileInv'
    <2>1. ThreadMoved(t) /\ (Stays(t) \/ Enters(t) \/ Leaves(t))
      BY <1>1, <1>8, ThreadMoves
    <2>2. AllTypes' /\ WaitInv'
      BY <1>1, <2>1, TheActors, Zenon DEF ThreadMoved, WaitInv
    <2>3. \A d \in Threads : d # t => pc'[d] = pc[d]
      BY <2>1, TheActors, Zenon DEF ThreadMoved
    <2>4. CASE Stays(t)
      BY <1>4, <2>2, <2>3, <2>4, Zenon DEF Stays, HardfileInv
    <2>5. CASE Enters(t)
      <3>1. Working' = Working \union {t} /\ t \notin Working
        BY <2>3, <2>5 DEF Enters, Working
      <3>2. Cardinality(Working') = Cardinality(Working) + 1
        BY <1>2, <3>1, FS_AddElement
      <3> QED
        BY <1>1, <2>2, <2>5, <3>2 DEF Enters, HardfileInv
    <2>6. CASE Leaves(t)
      <3>1. Working' = Working \ {t} /\ t \in Working
        BY <2>3, <2>6 DEF Leaves, Working
      <3>2. Cardinality(Working') = Cardinality(Working) - 1
        BY <1>2, <3>1, FS_RemoveElement
      <3>3. Working # {}
        BY <3>1
      <3>4. Cardinality(Working) # 0
        BY <1>2, <3>3, FS_EmptySet
      <3> QED
        BY <1>1, <2>2, <2>6, <3>2, <3>4 DEF Leaves, HardfileInv
    <2> QED
      BY <2>1, <2>4, <2>5, <2>6
  <1>9. CASE UNCHANGED hardfile_vars
    <2>1. AllTypes' /\ UNCHANGED <<pc, change_sem, sync_sem, j>>
      BY <1>1, <1>9, TableKept, QueueKept, SyncKept, CountKept, IoreqKept, FramesKept, Zenon
      DEF hardfile_vars, AllTypes, sync, frames
    <2> QED
      BY <1>1, <1>4, <2>1, Zenon DEF HardfileInv, WaitInv
  <1> QED
    BY <1>6, <1>7, <1>8, <1>9, Zenon DEF HardfileNext

\* Whatever threads of a unit of uaehf.device overlap (hardfile_thread, start_thread, and the resets
\* and closes that end them), one at a time works: change_sem is held from before a request is
\* looked at until after the last post, by no more than one.
THEOREM OneThreadWorks == HardfileSpec => []OneWorks
  <1>1. HardfileInv => OneWorks
    BY AllTypesAre, Zenon DEF HardfileInv, OneWorks, Working
  <1> QED
    BY <1>1, HardfileInvInit, HardfileInvNext, PTL DEF HardfileSpec

-----------------------------------------------------------------------------
(* What a request comes back with.  One of the emulator thread in beginio, *)
(* the pipe and the unit's thread has a request, while the unit has not    *)
(* been crowded: its thread is then the only one that has not ended.       *)

Beginning == {"begin", "beginwait", "claim", "fill", "type", "put", "post"}
Removing == {"remove", "removewait", "quick"}
Adding == {"claim", "fill", "type", "keep", "done"}
Returning == {"release", "free", "clear", "reply"}
Serving == Adding \union Returning \union {"lock", "io"}
Leaving == {"dead", "exitsync", "exitunlock"}

EmuHas(r) == pc[Emu] \in Beginning /\ request[Emu] = r
Posted(q, r) == \E i \in 1..Len(q) : q[i].request = r
ThreadHas(t, r) == pc[t] \in Serving /\ request[t] = r
Distinct(q) == \A i, k \in 1..Len(q) : i < k /\ q[i].request # None => q[i].request # q[k].request

\* A thread that has not told of itself is waited for; one that runs is known to run.
PhaseInv ==
  /\ \A t, d \in Threads : pc[t] # "dead" /\ pc[d] # "dead" => t = d
  /\ \A t \in Threads : pc[t] \notin Leaving \union {"start"} => thread_running
  /\ \A t \in Threads : pc[t] \in {"start", "started"} => pc[Emu] \in Waiters /\ sync_sem = 0
  /\ pc[Emu] = "resetclear" => ~thread_running

\* One of them has a request, and then it is the device's.
HoldInv ==
  /\ Distinct(requests)
  /\ \A r \in Requests :
      /\ EmuHas(r) \/ Posted(requests, r) => owner[r] = "device" /\ \A t \in Threads : ~ThreadHas(t, r)
      /\ EmuHas(r) => ~Posted(requests, r)
      /\ \A t \in Threads : ThreadHas(t, r) => owner[r] = "device"

\* Between a request's I/O and its reply nobody but an abort writes into it.
ServeInv ==
  \A t \in Threads :
    /\ pc[t] \in Serving \ {"lock"} => request[t] \in Requests
    /\ pc[t] \in Adding => command[request[t]] = "add"
    /\ pc[t] \in Returning => content[request[t]] \in {"done", "aborted"}

\* A request that is kept is in the table only, until it is removed from there.
Unheld(r) ==
  /\ command[r] = "add" /\ ~EmuHas(r) /\ ~Posted(requests, r)
  /\ \A t \in Threads : ~ThreadHas(t, r)
KeptInv ==
  /\ \A r \in Requests : content[r] = "kept" => Unheld(r)
  /\ pc[Emu] \in Removing => request[Emu] \in Requests /\ Unheld(request[Emu])

RequestInv == PhaseInv /\ HoldInv /\ ServeInv /\ KeptInv

\* The pipe's messages.
LEMMA PostedAppend ==
  ASSUME NEW M, NEW q \in Seq(M), NEW m \in M, m.request = None \/ ~Posted(q, m.request), Distinct(q)
  PROVE  /\ Distinct(Append(q, m))
         /\ \A r : Posted(Append(q, m), r) <=> Posted(q, r) \/ m.request = r
  <1>1. /\ Len(Append(q, m)) = Len(q) + 1 /\ Len(q) \in Nat /\ Append(q, m)[Len(q) + 1] = m
        /\ \A i \in 1..Len(q) : Append(q, m)[i] = q[i]
    BY AppendProperties
  <1>2. \A i \in 1..(Len(q) + 1) : i \in 1..Len(q) \/ i = Len(q) + 1
    BY <1>1
  <1>3. Distinct(Append(q, m))
    <2> SUFFICES ASSUME NEW i \in 1..(Len(q) + 1), NEW k \in 1..(Len(q) + 1), i < k,
                        Append(q, m)[i].request # None
                 PROVE  Append(q, m)[i].request # Append(q, m)[k].request
      BY <1>1 DEF Distinct
    <2>1. i \in 1..Len(q)
      BY <1>1
    <2>2. CASE k \in 1..Len(q)
      BY <1>1, <2>1, <2>2, Zenon DEF Distinct
    <2>3. CASE k = Len(q) + 1
      BY <1>1, <2>1, <2>3, Zenon DEF Posted
    <2> QED
      BY <1>2, <2>2, <2>3
  <1>4. ASSUME NEW r PROVE Posted(Append(q, m), r) <=> Posted(q, r) \/ m.request = r
    <2>1. Len(q) + 1 \in 1..(Len(q) + 1) /\ \A i \in 1..Len(q) : i \in 1..(Len(q) + 1)
      BY <1>1
    <2> QED
      BY <1>1, <1>2, <2>1, Zenon DEF Posted
  <1> QED
    BY <1>3, <1>4

LEMMA PostedTail ==
  ASSUME NEW M, NEW q \in Seq(M), q # <<>>, Distinct(q)
  PROVE  /\ Distinct(Tail(q))
         /\ \A r : Posted(Tail(q), r) => Posted(q, r)
         /\ Head(q).request # None => Posted(q, Head(q).request) /\ ~Posted(Tail(q), Head(q).request)
  <1>1. /\ Len(q) \in Nat \ {0} /\ Len(Tail(q)) = Len(q) - 1 /\ Head(q) = q[1]
        /\ \A i \in 1..(Len(q) - 1) : Tail(q)[i] = q[i + 1]
    BY HeadTailProperties, EmptySeq
  <1>2. /\ \A i \in 1..(Len(q) - 1) : i + 1 \in 1..Len(q) /\ 1 < i + 1
        /\ \A i, k \in 1..(Len(q) - 1) : i < k => i + 1 < k + 1
        /\ 1 \in 1..Len(q)
    BY <1>1
  <1>3. Distinct(Tail(q))
    <2> SUFFICES ASSUME NEW i \in 1..(Len(q) - 1), NEW k \in 1..(Len(q) - 1), i < k,
                        Tail(q)[i].request # None
                 PROVE  Tail(q)[i].request # Tail(q)[k].request
      BY <1>1, Zenon DEF Distinct
    <2>1. Tail(q)[i] = q[i + 1] /\ Tail(q)[k] = q[k + 1]
      BY <1>1, Zenon
    <2>2. i + 1 \in 1..Len(q) /\ k + 1 \in 1..Len(q) /\ i + 1 < k + 1
      BY <1>2, Zenon
    <2>3. q[i + 1].request # None => q[i + 1].request # q[k + 1].request
      BY <2>2, Zenon DEF Distinct
    <2> QED
      BY <2>1, <2>3, Zenon
  <1>4. \A r : Posted(Tail(q), r) => Posted(q, r)
    BY <1>1, <1>2, Zenon DEF Posted
  <1>5. ASSUME Head(q).request # None
        PROVE  Posted(q, Head(q).request) /\ ~Posted(Tail(q), Head(q).request)
    <2>1. Posted(q, Head(q).request)
      BY <1>1, <1>2, Zenon DEF Posted
    <2>2. ASSUME NEW i \in 1..(Len(q) - 1) PROVE Tail(q)[i].request # Head(q).request
      <3>1. i + 1 \in 1..Len(q) /\ 1 \in 1..Len(q) /\ 1 < i + 1
        BY <1>2, Zenon
      <3>2. q[1].request # None => q[1].request # q[i + 1].request
        BY <3>1, Zenon DEF Distinct
      <3>3. Tail(q)[i] = q[i + 1]
        BY <1>1, Zenon
      <3> QED
        BY <1>1, <1>5, <3>2, <3>3, Zenon
    <2> QED
      BY <1>1, <2>1, <2>2, Zenon DEF Posted
  <1> QED
    BY <1>3, <1>4, <1>5

LEMMA NonePosted ==
  ASSUME NEW q, q = <<>> PROVE Distinct(q) /\ \A r : ~Posted(q, r)
  BY EmptySeq DEF Distinct, Posted

-----------------------------------------------------------------------------
(* Steps that take no request.                                             *)

NothingTaken ==
  /\ Distinct(requests')
  /\ \A r \in Requests :
       /\ EmuHas(r)' => EmuHas(r)
       /\ Posted(requests', r) => Posted(requests, r)
       /\ \A t \in Threads : ThreadHas(t, r)' => ThreadHas(t, r)

\* An owner may change only when nobody has the request.
LEMMA HoldKept ==
  ASSUME HoldInv, NothingTaken,
         \A r \in Requests : owner'[r] # owner[r] =>
           ~EmuHas(r)' /\ ~Posted(requests', r) /\ \A t \in Threads : ~ThreadHas(t, r)'
  PROVE  HoldInv'
  BY Zenon DEF HoldInv, NothingTaken

LEMMA UnheldKept ==
  ASSUME NothingTaken, command' = command, NEW r \in Requests, Unheld(r) PROVE Unheld(r)'
  BY Zenon DEF NothingTaken, Unheld

LEMMA KeptKept ==
  ASSUME KeptInv, NothingTaken, command' = command,
         \A r \in Requests : content'[r] = "kept" => content[r] = "kept" \/ Unheld(r)',
         pc'[Emu] \in Removing => pc[Emu] \in Removing /\ request'[Emu] = request[Emu]
  PROVE  KeptInv'
  <1>1. ASSUME NEW r \in Requests, content'[r] = "kept" PROVE Unheld(r)'
    BY <1>1, UnheldKept, Zenon DEF KeptInv
  <1>2. ASSUME pc'[Emu] \in Removing PROVE request'[Emu] \in Requests /\ Unheld(request[Emu])'
    <2>1. request[Emu] \in Requests /\ Unheld(request[Emu])
      BY <1>2, Zenon DEF KeptInv
    <2> QED
      BY <1>2, <2>1, UnheldKept, Zenon
  <1> QED
    BY <1>1, <1>2, Zenon DEF KeptInv

\* The emulator thread goes on, and takes nothing new.
EmuGoes ==
  /\ \A t \in Threads : pc'[t] = pc[t] /\ request'[t] = request[t]
  /\ pc'[Emu] \in Beginning => pc[Emu] \in Beginning /\ request'[Emu] = request[Emu]
  /\ pc'[Emu] \in Removing => pc[Emu] \in Removing /\ request'[Emu] = request[Emu]
  /\ pc[Emu] \in Waiters /\ sync_sem = 0 => pc'[Emu] \in Waiters /\ sync_sem' = 0
  /\ pc'[Emu] = "resetclear" => ~thread_running
  /\ UNCHANGED <<thread_running, command>>

\* It may only write into a request that nobody is about to reply.
LEMMA EmuKeeps ==
  ASSUME RequestInv, EmuGoes, Distinct(requests'),
         \A r \in Requests : Posted(requests', r) => Posted(requests, r),
         \A r \in Requests : owner'[r] # owner[r] =>
           ~EmuHas(r)' /\ ~Posted(requests', r) /\ \A t \in Threads : ~ThreadHas(t, r)',
         \A r \in Requests : content'[r] # content[r] =>
           content'[r] \in {"done", "aborted"} \/ (content'[r] = "sent" /\ EmuHas(r))
  PROVE  RequestInv'
  <1>1. NothingTaken
    BY Zenon DEF EmuGoes, NothingTaken, EmuHas, ThreadHas
  <1>2. PhaseInv'
    BY Zenon DEF RequestInv, PhaseInv, EmuGoes
  <1>3. HoldInv'
    BY <1>1, HoldKept, Zenon DEF RequestInv
  <1>4. ServeInv'
    <2> SUFFICES ASSUME NEW t \in Threads
                 PROVE  /\ pc'[t] \in Serving \ {"lock"} => request'[t] \in Requests
                        /\ pc'[t] \in Adding => command'[request'[t]] = "add"
                        /\ pc'[t] \in Returning => content'[request'[t]] \in {"done", "aborted"}
      BY Zenon DEF ServeInv
    <2>1. pc'[t] = pc[t] /\ request'[t] = request[t] /\ command' = command
      BY Zenon DEF EmuGoes
    <2>2. ASSUME pc[t] \in Returning PROVE content'[request[t]] \in {"done", "aborted"}
      <3>1. request[t] \in Requests /\ ThreadHas(t, request[t]) /\ content[request[t]] \in {"done", "aborted"}
        BY <2>2 DEF RequestInv, ServeInv, ThreadHas, Serving, Returning, Adding
      <3>2. ~EmuHas(request[t])
        BY <3>1, Zenon DEF RequestInv, HoldInv
      <3> QED
        BY <3>1, <3>2, Zenon
    <2> QED
      BY <2>1, <2>2, Zenon DEF RequestInv, ServeInv
  <1>5. KeptInv'
    <2>1. \A r \in Requests : content'[r] = "kept" => content[r] = "kept"
      OBVIOUS
    <2> QED
      BY <1>1, <2>1, KeptKept, Zenon DEF RequestInv, EmuGoes
  <1> QED
    BY <1>2, <1>3, <1>4, <1>5 DEF RequestInv

\* The thread goes on, and takes nothing new.
ThreadGoes(t) ==
  /\ pc[t] # "dead" /\ \A b \in Actors : b # t => pc'[b] = pc[b] /\ request'[b] = request[b]
  /\ pc'[t] \in Serving => pc[t] \in Serving /\ request'[t] = request[t]
  /\ pc'[t] \notin Leaving \union {"start"} => thread_running'
  /\ pc'[t] \in {"start", "started"} => pc[t] \in {"start", "started"} /\ sync_sem' = sync_sem
  /\ pc[Emu] = "resetclear" /\ thread_running' => pc[t] \in {"start", "started"} \/ thread_running
  /\ UNCHANGED <<requests, command>>

LEMMA ThreadKeeps ==
  ASSUME RequestInv, NEW t \in Threads, ThreadGoes(t),
         \A r \in Requests : owner'[r] # owner[r] => r = request[t] /\ ThreadHas(t, r) /\ ~ThreadHas(t, r)',
         \A r \in Requests : content'[r] = "kept" =>
           content[r] = "kept" \/ (command[r] = "add" /\ ThreadHas(t, r) /\ ~ThreadHas(t, r)'),
         /\ pc'[t] \in Serving \ {"lock"} => request'[t] \in Requests
         /\ pc'[t] \in Adding => command'[request'[t]] = "add"
         /\ pc'[t] \in Returning => content'[request'[t]] \in {"done", "aborted"}
  PROVE  RequestInv'
  <1>1. Emu \in Actors /\ Emu # t /\ \A d \in Threads : d \in Actors
    BY TheActors, Zenon
  <1>2. \A d \in Threads : d # t => pc[d] = "dead" /\ pc'[d] = "dead"
    BY <1>1, Zenon DEF ThreadGoes, RequestInv, PhaseInv
  <1>3. pc'[Emu] = pc[Emu] /\ request'[Emu] = request[Emu]
    BY <1>1, Zenon DEF ThreadGoes
  <1>4. "dead" \notin Serving /\ "dead" \in Leaving
    BY DEF Serving, Adding, Returning, Leaving
  <1>5. \A d \in Threads, r \in Requests : d # t => ~ThreadHas(d, r)'
    BY <1>2, <1>4, Zenon DEF ThreadHas
  <1>6. NothingTaken
    <2>1. Distinct(requests')
      BY Zenon DEF RequestInv, HoldInv, ThreadGoes
    <2>2. \A r \in Requests : EmuHas(r)' => EmuHas(r)
      BY <1>3, Zenon DEF EmuHas
    <2>3. \A r \in Requests : ThreadHas(t, r)' => ThreadHas(t, r)
      BY Zenon DEF ThreadGoes, ThreadHas
    <2> QED
      BY <1>5, <2>1, <2>2, <2>3, Zenon DEF NothingTaken, ThreadGoes
  <1>7. ASSUME NEW r \in Requests, ThreadHas(t, r), ~ThreadHas(t, r)'
        PROVE  ~EmuHas(r)' /\ ~Posted(requests', r) /\ \A d \in Threads : ~ThreadHas(d, r)'
    <2>1. ~EmuHas(r) /\ ~Posted(requests, r)
      BY <1>7, Zenon DEF RequestInv, HoldInv
    <2> QED
      BY <1>5, <1>6, <1>7, <2>1, Zenon DEF NothingTaken
  <1>8. PhaseInv'
    <2>1. \A d, e \in Threads : pc'[d] # "dead" /\ pc'[e] # "dead" => d = e
      BY <1>2, Zenon
    <2>2. \A d \in Threads : pc'[d] \notin Leaving \union {"start"} => thread_running'
      <3>1. "dead" \in Leaving \union {"start"}
        BY <1>4
      <3> QED
        BY <1>2, <3>1, Zenon DEF ThreadGoes
    <2>3. \A d \in Threads : pc'[d] \in {"start", "started"} => pc'[Emu] \in Waiters /\ sync_sem' = 0
      <3>1. "dead" \notin {"start", "started"}
        OBVIOUS
      <3> QED
        BY <1>2, <1>3, <3>1, Zenon DEF ThreadGoes, RequestInv, PhaseInv
    <2>4. pc'[Emu] = "resetclear" => ~thread_running'
      <3>1. "resetclear" \notin Waiters
        BY DEF Waiters
      <3> QED
        BY <1>3, <3>1, Zenon DEF ThreadGoes, RequestInv, PhaseInv
    <2> QED
      BY <2>1, <2>2, <2>3, <2>4, Zenon DEF PhaseInv
  <1>9. HoldInv'
    BY <1>6, <1>7, HoldKept, Zenon DEF RequestInv
  <1>10. ServeInv'
    <2>1. ASSUME NEW d \in Threads, d # t
          PROVE  pc'[d] \notin Serving /\ pc'[d] \notin Adding /\ pc'[d] \notin Returning
      BY <1>2, <1>4, <2>1 DEF Serving
    <2> QED
      BY <2>1, Zenon DEF ServeInv
  <1>11. KeptInv'
    <2>1. command' = command
      BY Zenon DEF ThreadGoes
    <2>2. \A r \in Requests : content'[r] = "kept" => content[r] = "kept" \/ Unheld(r)'
      BY <1>7, <2>1, Zenon DEF Unheld
    <2> QED
      BY <1>3, <1>6, <2>1, <2>2, KeptKept, Zenon DEF RequestInv
  <1> QED
    BY <1>8, <1>9, <1>10, <1>11 DEF RequestInv

-----------------------------------------------------------------------------
(* The emulator thread's steps.                                            *)

LEMMA EmuOn ==
  ASSUME WaitInv, NEW l, Goto(Emu, l) \/ (UNCHANGED pc /\ l = pc[Emu]),
         pc[Emu] \notin Waiters \/ sync_sem # 0,
         l \in Beginning => pc[Emu] \in Beginning /\ request'[Emu] = request[Emu],
         l \in Removing => pc[Emu] \in Removing /\ request'[Emu] = request[Emu],
         l = "resetclear" => ~thread_running,
         \A t \in Threads : request'[t] = request[t], UNCHANGED <<thread_running, command>>
  PROVE  EmuGoes /\ pc'[Emu] = l
  <1>1. DOMAIN pc = Actors
    BY Zenon DEF WaitInv
  <1>2. pc'[Emu] = l /\ \A t \in Threads : pc'[t] = pc[t]
    BY <1>1, GotoIs, TheActors, Zenon
  <1> QED
    BY <1>2, Zenon DEF EmuGoes

LEMMA FramesThere ==
  ASSUME FrameTypes, NEW a \in Actors, NEW r, NEW b, Local(a, r, b)
  PROVE  request'[a] = r /\ \A d \in Actors : d # a => request'[d] = request[d]
  BY DEF FrameTypes, Local

LEMMA EmuQuiet ==
  ASSUME RequestInv, EmuGoes, UNCHANGED <<requests, owner, content>> PROVE RequestInv'
  <1>1. Distinct(requests')
    BY Zenon DEF RequestInv, HoldInv
  <1> QED
    BY <1>1, EmuKeeps, Zenon

\* Steps that write into no request, and leave the pipe alone.
LEMMA QuietSteps ==
  ASSUME RequestInv, AllTypes, WaitInv,
         CallOpen \/ CallAbortIo \/ Reset \/ Opened \/ TableStep(Emu) \/ Scan \/ ResetAbort \/ ResetWait
  PROVE  RequestInv'
  <1>1. FrameTypes /\ Emu \in Actors /\ \A t \in Threads : t \in Actors /\ t # Emu
    BY TheActors, Zenon DEF AllTypes
  <1>2. CASE CallOpen \/ Opened \/ Scan \/ ResetWait \/ Reset
    <2>1. /\ UNCHANGED <<requests, owner, content, request, command, thread_running>>
          /\ pc[Emu] \in {"idle", "opened", "scan", "resetwait"}
      BY <1>2, Zenon DEF CallOpen, Opened, Scan, ResetWait, Reset, ioreq, frames, sync
    <2>2. PICK l \in {"open", "idle", "release", "resetclear", "resetabort", "resetstop"} :
            Goto(Emu, l) /\ (l = "resetclear" => ~thread_running)
      BY <1>2, Zenon DEF CallOpen, Opened, Scan, ResetWait, Reset
    <2>3. pc[Emu] \notin Waiters /\ l \notin Beginning /\ l \notin Removing
      BY <2>1 DEF Waiters, Beginning, Removing
    <2> QED
      BY <2>1, <2>2, <2>3, EmuOn, EmuQuiet, Zenon
  <1>3. CASE CallAbortIo
    <2>1. PICK r \in Requests : Local(Emu, r, None)
      BY <1>3, Zenon DEF CallAbortIo
    <2>2. \A t \in Threads : request'[t] = request[t]
      BY <1>1, <2>1, FramesThere, Zenon
    <2>3. Goto(Emu, "abort") /\ pc[Emu] = "idle" /\ UNCHANGED <<requests, owner, content, command, thread_running>>
      BY <1>3, Zenon DEF CallAbortIo, ioreq, sync
    <2>4. /\ pc[Emu] \notin Waiters /\ "abort" \notin Beginning /\ "abort" \notin Removing
          /\ "abort" # "resetclear"
      BY <2>3 DEF Waiters, Beginning, Removing
    <2>5. EmuGoes
      BY <2>2, <2>3, <2>4, EmuOn, Zenon
    <2> QED
      BY <2>3, <2>5, EmuQuiet, Zenon
  <1>4. CASE ResetAbort
    <2>1. UNCHANGED <<requests, owner, content, command, thread_running>> /\ pc[Emu] = "resetabort"
      BY <1>4, Zenon DEF ResetAbort, ioreq, sync
    <2>2. \A t \in Threads : request'[t] = request[t]
      <3>1. request' = request \/ request' = [request EXCEPT ![Emu] = d_request[j]]
        BY <1>4, Zenon DEF ResetAbort
      <3> QED
        BY <1>1, <3>1 DEF FrameTypes
    <2>3. PICK l \in {"resetabort", "resetstop", "scan"} : Goto(Emu, l) \/ (UNCHANGED pc /\ l = pc[Emu])
      BY <1>4, <2>1, Zenon DEF ResetAbort
    <2>4. pc[Emu] \notin Waiters /\ l \notin Beginning /\ l \notin Removing /\ l # "resetclear"
      BY <2>1 DEF Waiters, Beginning, Removing
    <2> QED
      BY <2>1, <2>2, <2>3, <2>4, EmuOn, EmuQuiet, Zenon
  <1>5. CASE TableStep(Emu)
    <2>1. UNCHANGED <<requests, owner, content, request, command, thread_running>>
      BY <1>5, Zenon DEF TableStep, Reuse, Claim, FillIobuf, FillType, Find, Free, Clear, ioreq, frames, sync
    <2>2. PICK l \in {"type", "fill", "put", "free", "clear", "idle", "resetabort"} :
            /\ Goto(Emu, l) /\ pc[Emu] \in TableLabels
            /\ l \in {"type", "fill", "put"} => pc[Emu] \in {"claim", "fill", "type"}
      <3> USE DEF TableLabels
      <3>1. CASE Reuse(Emu)
        BY <3>1, Zenon DEF Reuse
      <3>2. CASE Claim(Emu)
        <4>1. pc[Emu] = "claim" /\ (Goto(Emu, "fill") \/ Goto(Emu, "put"))
          BY <3>2, Zenon DEF Claim, NotAdded
        <4> QED
          BY <4>1, Zenon
      <3>3. CASE FillIobuf(Emu)
        BY <3>3, Zenon DEF FillIobuf
      <3>4. CASE FillType(Emu)
        BY <3>4, Zenon DEF FillType, Added
      <3>5. CASE Find(Emu) \/ Free(Emu) \/ Clear(Emu)
        <4>1. /\ pc[Emu] \in {"release", "free", "clear"}
              /\ Goto(Emu, "free") \/ Goto(Emu, "clear") \/ Goto(Emu, Released(Emu))
          BY <3>5, Zenon DEF Find, Free, Clear
        <4>2. Released(Emu) \in {"idle", "resetabort"}
          BY Zenon DEF Released
        <4> QED
          BY <4>1, <4>2
      <3> QED
        BY <1>5, <3>1, <3>2, <3>3, <3>4, <3>5, Zenon DEF TableStep
    <2>3. /\ pc[Emu] \notin Waiters /\ l \notin Removing /\ l # "resetclear"
          /\ l \in Beginning => pc[Emu] \in Beginning
      BY <2>2 DEF Waiters, Beginning, Removing, TableLabels
    <2> QED
      BY <2>1, <2>2, <2>3, EmuOn, EmuQuiet, Zenon
  <1> QED
    BY <1>2, <1>3, <1>4, <1>5

\* Steps that write into a request.
LEMMA WritingSteps ==
  ASSUME RequestInv, AllTypes, WaitInv, WriteFlags \/ MarkAborted \/ RemChangeInt
  PROVE  RequestInv'
  <1>1. UNCHANGED <<requests, request, command, thread_running>>
    BY Zenon DEF WriteFlags, MarkAborted, RemChangeInt, frames, sync
  <1>2. Distinct(requests')
    BY <1>1, Zenon DEF RequestInv, HoldInv
  <1>3. DOMAIN content = Requests /\ DOMAIN owner = Requests
    BY Zenon DEF AllTypes, IoreqTypes
  <1>4. PICK l \in {"post", "scan", "release"} :
          Goto(Emu, l) /\ pc[Emu] \in {"put", "mark", "quick"} /\ (l = "post" => pc[Emu] = "put")
    BY Zenon DEF WriteFlags, MarkAborted, RemChangeInt
  <1>5. /\ pc[Emu] \notin Waiters /\ l \notin Removing /\ l # "resetclear"
        /\ l \in Beginning => pc[Emu] \in Beginning
    BY <1>4 DEF Waiters, Beginning, Removing
  <1>6. EmuGoes
    BY <1>1, <1>4, <1>5, EmuOn, Zenon
  <1>7. CASE WriteFlags
    <2>1. pc[Emu] \in Beginning /\ content' = [content EXCEPT ![request[Emu]] = "sent"] /\ owner' = owner
      BY <1>7 DEF WriteFlags, Beginning
    <2>2. \A r \in Requests : content'[r] # content[r] => content'[r] = "sent" /\ EmuHas(r)
      BY <1>3, <2>1 DEF EmuHas
    <2> QED
      BY <1>1, <1>2, <1>6, <2>1, <2>2, EmuKeeps, Zenon
  <1>8. CASE MarkAborted
    <2>1. content' = [content EXCEPT ![request[Emu]] = "aborted"] /\ owner' = owner
      BY <1>8, Zenon DEF MarkAborted
    <2>2. \A r \in Requests : content'[r] # content[r] => content'[r] \in {"done", "aborted"}
      BY <1>3, <2>1
    <2> QED
      BY <1>1, <1>2, <1>6, <2>1, <2>2, EmuKeeps, Zenon
  <1>9. CASE RemChangeInt
    <2>1. /\ content' = [content EXCEPT ![request[Emu]] = "done"]
          /\ owner' = [owner EXCEPT ![request[Emu]] = "program"] /\ pc[Emu] \in Removing
      BY <1>9 DEF RemChangeInt, Removing
    <2>2. Unheld(request[Emu])
      BY <2>1, Zenon DEF RequestInv, KeptInv
    <2>3. \A r \in Requests : content'[r] # content[r] => content'[r] \in {"done", "aborted"}
      BY <1>3, <2>1
    <2>4. \A r \in Requests : owner'[r] # owner[r] => r = request[Emu]
      BY <1>3, <2>1
    <2>5. /\ ~EmuHas(request[Emu])' /\ ~Posted(requests', request[Emu])
          /\ \A t \in Threads : ~ThreadHas(t, request[Emu])'
      BY <1>1, <1>6, <2>2, Zenon DEF EmuGoes, Unheld, EmuHas, ThreadHas
    <2> QED
      BY <1>1, <1>2, <1>6, <2>3, <2>4, <2>5, EmuKeeps, Zenon
  <1> QED
    BY <1>7, <1>8, <1>9

\* The steps that post the thread's end.
LEMMA EndingSteps ==
  ASSUME RequestInv, AllTypes, WaitInv, Close \/ ResetStop PROVE RequestInv'
  <1>1. UNCHANGED <<owner, content, request, command, thread_running>>
    BY Zenon DEF Close, ResetStop, ioreq, frames, sync
  <1>2. requests' = requests \/ requests' = Append(requests, Stop)
    BY Zenon DEF Close, ResetStop
  <1>3. PICK l : /\ Goto(Emu, l) \/ (UNCHANGED pc /\ l = pc[Emu])
                 /\ pc[Emu] \in {"idle", "resetstop"} /\ l \in {"idle", "resetwait", "resetclear"}
                 /\ l = "resetclear" => ~thread_running
    <2>1. CASE Close
      <3>1. UNCHANGED pc /\ pc[Emu] = "idle" /\ pc[Emu] # "resetclear"
        BY <2>1 DEF Close
      <3> QED
        BY <3>1
    <2>2. CASE ResetStop
      <3>1. pc[Emu] = "resetstop" /\ (Goto(Emu, "resetwait") \/ (~thread_running /\ Goto(Emu, "resetclear")))
        BY <2>2, Zenon DEF ResetStop
      <3> QED
        BY <3>1
    <2> QED
      BY <2>1, <2>2
  <1>4. pc[Emu] \notin Waiters /\ l \notin Beginning /\ l \notin Removing
    BY <1>3 DEF Waiters, Beginning, Removing
  <1>5. EmuGoes
    BY <1>1, <1>3, <1>4, EmuOn, Zenon
  <1>6. Distinct(requests') /\ \A r \in Requests : Posted(requests', r) => Posted(requests, r)
    <2> DEFINE M == [request : Requests \union {None}, iobuf : Bufs \union {None}]
    <2>1. Stop \in M /\ Stop.request = None /\ requests \in Seq(M) /\ \A r \in Requests : r # None
      BY HardfileAssumption DEF Stop, AllTypes, QueueType
    <2>2. Distinct(requests)
      BY Zenon DEF RequestInv, HoldInv
    <2> HIDE DEF M
    <2>3. /\ Distinct(Append(requests, Stop))
          /\ \A r : Posted(Append(requests, Stop), r) <=> Posted(requests, r) \/ Stop.request = r
      BY <2>1, <2>2, PostedAppend
    <2> QED
      BY <1>2, <2>1, <2>2, <2>3, Zenon
  <1> QED
    BY <1>1, <1>5, <1>6, EmuKeeps, Zenon

LEMMA EntryThere ==
  ASSUME NEW f, DOMAIN f = Requests, NEW r \in Requests, NEW v, NEW g, g = [f EXCEPT ![r] = v]
  PROVE  g[r] = v /\ \A x \in Requests : x # r => g[x] = f[x]
  OBVIOUS

\* The program gives a request to the device only when it has it back.
LEMMA BeginKeeps ==
  ASSUME RequestInv, AllTypes, WaitInv, CallBeginIo PROVE RequestInv'
  <1>1. IoreqTypes /\ FrameTypes /\ DOMAIN pc = Actors
    BY Zenon DEF AllTypes, WaitInv
  <1>2. PICK r \in Requests, b \in Bufs \ live, c \in {"io", "add"} :
          /\ owner[r] = "program" /\ owner' = [owner EXCEPT ![r] = "device"]
          /\ content' = [content EXCEPT ![r] = "old"] /\ command' = [command EXCEPT ![r] = c]
          /\ Local(Emu, r, b)
    BY Zenon DEF CallBeginIo
  <1>3. owner[r] # "device"
    BY <1>2
  <1>4. ~EmuHas(r) /\ ~Posted(requests, r) /\ \A t \in Threads : ~ThreadHas(t, r)
    BY <1>3, Zenon DEF RequestInv, HoldInv
  <1>5. /\ owner'[r] = "device" /\ content'[r] = "old"
        /\ \A x \in Requests : x # r => owner'[x] = owner[x] /\ content'[x] = content[x] /\ command'[x] = command[x]
    <2>1. DOMAIN command = Requests /\ DOMAIN owner = Requests /\ DOMAIN content = Requests
      BY <1>1, Zenon DEF IoreqTypes
    <2>2. owner'[r] = "device" /\ \A x \in Requests : x # r => owner'[x] = owner[x]
      BY <1>2, <2>1, EntryThere, Zenon
    <2>3. content'[r] = "old" /\ \A x \in Requests : x # r => content'[x] = content[x]
      BY <1>2, <2>1, EntryThere, Zenon
    <2>4. \A x \in Requests : x # r => command'[x] = command[x]
      BY <1>2, <2>1, EntryThere, Zenon
    <2> QED
      BY <2>2, <2>3, <2>4
  <1>6. pc[Emu] = "idle" /\ pc'[Emu] = "begin" /\ \A t \in Threads : pc'[t] = pc[t]
    BY <1>1, GotoIs, TheActors, Zenon DEF CallBeginIo
  <1>7. request'[Emu] = r /\ \A t \in Threads : request'[t] = request[t]
    BY <1>1, <1>2, FramesThere, TheActors, Zenon
  <1>8. UNCHANGED <<requests, thread_running, sync_sem>>
    BY Zenon DEF CallBeginIo, sync
  <1>9. /\ \A x \in Requests : EmuHas(x)' => x = r
        /\ \A t \in Threads : \A x : ThreadHas(t, x)' <=> ThreadHas(t, x)
    BY <1>6, <1>7, Zenon DEF EmuHas, ThreadHas
  <1>10. PhaseInv'
    <2>1. pc[Emu] \notin Waiters /\ pc'[Emu] # "resetclear"
      BY <1>6 DEF Waiters
    <2> QED
      BY <1>6, <1>8, <2>1, Zenon DEF RequestInv, PhaseInv
  <1>11. HoldInv'
    <2>1. Distinct(requests')
      BY <1>8, Zenon DEF RequestInv, HoldInv
    <2>2. ASSUME NEW x \in Requests
          PROVE  /\ EmuHas(x)' \/ Posted(requests', x) => owner'[x] = "device" /\ \A t \in Threads : ~ThreadHas(t, x)'
                 /\ EmuHas(x)' => ~Posted(requests', x)
                 /\ \A t \in Threads : ThreadHas(t, x)' => owner'[x] = "device"
      <3>1. CASE x = r
        BY <1>4, <1>5, <1>8, <1>9, <3>1, Zenon
      <3>2. CASE x # r
        BY <1>5, <1>8, <1>9, <3>2, Zenon DEF RequestInv, HoldInv
      <3> QED
        BY <3>1, <3>2
    <2> QED
      BY <2>1, <2>2, Zenon DEF HoldInv
  <1>12. ServeInv'
    <2> SUFFICES ASSUME NEW t \in Threads
                 PROVE  /\ pc'[t] \in Serving \ {"lock"} => request'[t] \in Requests
                        /\ pc'[t] \in Adding => command'[request'[t]] = "add"
                        /\ pc'[t] \in Returning => content'[request'[t]] \in {"done", "aborted"}
      BY Zenon DEF ServeInv
    <2>1. pc[t] \in Adding \union Returning => pc[t] \in Serving \ {"lock"}
      BY DEF Serving, Adding, Returning
    <2>2. pc[t] \in Serving \ {"lock"} => request[t] \in Requests /\ request[t] # r
      BY <1>4, Zenon DEF RequestInv, ServeInv, ThreadHas
    <2>3. pc[t] \in Serving \ {"lock"} =>
            command'[request[t]] = command[request[t]] /\ content'[request[t]] = content[request[t]]
      BY <1>5, <2>2, Zenon
    <2>4. pc'[t] = pc[t] /\ request'[t] = request[t]
      BY <1>6, <1>7, Zenon
    <2>5. /\ pc[t] \in Adding => command[request[t]] = "add"
          /\ pc[t] \in Returning => content[request[t]] \in {"done", "aborted"}
      BY Zenon DEF RequestInv, ServeInv
    <2>6. /\ pc[t] \in Adding => command'[request[t]] = "add"
          /\ pc[t] \in Returning => content'[request[t]] \in {"done", "aborted"}
      BY <2>1, <2>3, <2>5
    <2> QED
      BY <2>2, <2>4, <2>6, Zenon
  <1>13. KeptInv'
    <2>1. ASSUME NEW x \in Requests, content'[x] = "kept" PROVE Unheld(x)'
      <3>1. x # r
        BY <1>5, <2>1
      <3> QED
        BY <1>5, <1>8, <1>9, <2>1, <3>1, Zenon DEF RequestInv, KeptInv, Unheld
    <2>2. pc'[Emu] \notin Removing
      BY <1>6 DEF Removing
    <2> QED
      BY <2>1, <2>2, Zenon DEF KeptInv
  <1> QED
    BY <1>10, <1>11, <1>12, <1>13 DEF RequestInv

\* Only a request that is kept is removed.
LEMMA RemoveKeeps ==
  ASSUME RequestInv, AllTypes, WaitInv, CallRemChangeInt PROVE RequestInv'
  <1>1. FrameTypes /\ DOMAIN pc = Actors
    BY Zenon DEF AllTypes, WaitInv
  <1>2. PICK r \in Requests : content[r] = "kept" /\ Local(Emu, r, None)
    BY Zenon DEF CallRemChangeInt
  <1>3. Unheld(r)
    BY <1>2, Zenon DEF RequestInv, KeptInv
  <1>4. pc[Emu] = "idle" /\ pc'[Emu] = "remove" /\ \A t \in Threads : pc'[t] = pc[t]
    BY <1>1, GotoIs, TheActors, Zenon DEF CallRemChangeInt
  <1>5. request'[Emu] = r /\ \A t \in Threads : request'[t] = request[t]
    BY <1>1, <1>2, FramesThere, TheActors, Zenon
  <1>6. UNCHANGED <<requests, thread_running, sync_sem, command, owner, content>>
    BY Zenon DEF CallRemChangeInt, sync, ioreq
  <1>7. pc'[Emu] \notin Beginning /\ pc[Emu] \notin Waiters /\ pc'[Emu] # "resetclear"
    BY <1>4 DEF Beginning, Waiters
  <1>8. NothingTaken
    <2>1. Distinct(requests')
      BY <1>6, Zenon DEF RequestInv, HoldInv
    <2> QED
      BY <1>4, <1>5, <1>6, <1>7, <2>1, Zenon DEF NothingTaken, EmuHas, ThreadHas
  <1>9. PhaseInv'
    BY <1>4, <1>6, <1>7, Zenon DEF RequestInv, PhaseInv
  <1>10. HoldInv'
    BY <1>6, <1>8, HoldKept, Zenon DEF RequestInv
  <1>11. ServeInv'
    BY <1>4, <1>5, <1>6, Zenon DEF RequestInv, ServeInv
  <1>12. KeptInv'
    <2>1. \A x \in Requests : content'[x] = "kept" => Unheld(x)'
      BY <1>6, <1>8, UnheldKept, Zenon DEF RequestInv, KeptInv
    <2>2. request'[Emu] \in Requests /\ Unheld(request[Emu])'
      <3>1. Unheld(r)'
        BY <1>3, <1>6, <1>8, UnheldKept, Zenon
      <3> QED
        BY <1>5, <3>1, Zenon DEF Unheld, EmuHas, ThreadHas
    <2> QED
      BY <2>1, <2>2, Zenon DEF KeptInv
  <1> QED
    BY <1>9, <1>10, <1>11, <1>12 DEF RequestInv

\* It gives the request to the thread.
LEMMA PostKeeps ==
  ASSUME RequestInv, AllTypes, WaitInv, Post PROVE RequestInv'
  <1> DEFINE r == request[Emu]
  <1>1. FrameTypes /\ DOMAIN pc = Actors /\ r \in Requests \union {None} /\ None \notin Requests
    BY TheActors, HardfileAssumption, Zenon DEF AllTypes, WaitInv, FrameTypes
  <1>2. pc[Emu] = "post" /\ pc'[Emu] = "idle" /\ \A t \in Threads : pc'[t] = pc[t]
    BY <1>1, GotoIs, TheActors, Zenon DEF Post
  <1>3. \A t \in Threads : request'[t] = request[t]
    BY <1>1, FramesThere, TheActors, Zenon DEF Post
  <1>4. UNCHANGED <<thread_running, sync_sem, command, owner, content>>
    BY Zenon DEF Post, sync, ioreq
  <1>5. /\ pc[Emu] \in Beginning /\ pc[Emu] \notin Waiters /\ pc'[Emu] \notin Beginning
        /\ pc'[Emu] \notin Removing /\ pc'[Emu] # "resetclear"
    BY <1>2 DEF Beginning, Waiters, Removing
  <1>6. EmuHas(r)
    BY <1>5, Zenon DEF EmuHas
  <1>7. Distinct(requests') /\ \A x : Posted(requests', x) <=> Posted(requests, x) \/ r = x
    <2> DEFINE M == [request : Requests \union {None}, iobuf : Bufs \union {None}]
    <2>1. Message \in M /\ Message.request = r /\ requests \in Seq(M)
      BY TheActors DEF Message, AllTypes, QueueType, FrameTypes
    <2>2. Distinct(requests) /\ (r = None \/ ~Posted(requests, r))
      BY <1>1, <1>6, Zenon DEF RequestInv, HoldInv
    <2> HIDE DEF M
    <2> QED
      BY <2>1, <2>2, PostedAppend, Zenon DEF Post
  <1> HIDE DEF r
  <1>8. \A x : ~EmuHas(x)' /\ \A t \in Threads : ThreadHas(t, x)' <=> ThreadHas(t, x)
    BY <1>2, <1>3, <1>5, Zenon DEF EmuHas, ThreadHas
  <1>9. PhaseInv'
    BY <1>2, <1>4, <1>5, Zenon DEF RequestInv, PhaseInv
  <1>10. HoldInv'
    BY <1>4, <1>6, <1>7, <1>8, Zenon DEF RequestInv, HoldInv
  <1>11. ServeInv'
    BY <1>2, <1>3, <1>4, Zenon DEF RequestInv, ServeInv
  <1>12. KeptInv'
    BY <1>4, <1>5, <1>6, <1>7, <1>8, Zenon DEF RequestInv, KeptInv, Unheld
  <1> QED
    BY <1>9, <1>10, <1>11, <1>12 DEF RequestInv

\* Without a thread beginio gives its request back.
LEMMA StartedKeeps ==
  ASSUME RequestInv, AllTypes, WaitInv, NEW l \in Calls, Started(l) PROVE RequestInv'
  <1>1. l \in {"open", "begin", "abort", "remove"}
    BY DEF Calls, Then
  <1>2. /\ pc[Emu] = Waits[l] /\ sync_sem # 0
        /\ UNCHANGED <<requests, request, command, content, thread_running>>
    BY Zenon DEF Started, frames
  <1>3. /\ Then[l] \in Beginning => pc[Emu] \in Beginning
        /\ Then[l] \in Removing => pc[Emu] \in Removing
        /\ Then[l] # "resetclear" /\ "idle" # "resetclear"
        /\ "idle" \notin Beginning /\ "idle" \notin Removing
    BY <1>1, <1>2 DEF Then, Waits, Beginning, Removing
  <1>4. CASE thread_running
    <2>1. Goto(Emu, Then[l]) /\ owner' = owner
      BY <1>4, Zenon DEF Started
    <2>2. EmuGoes
      BY <1>2, <1>3, <2>1, EmuOn, Zenon
    <2> QED
      BY <1>2, <2>1, <2>2, EmuQuiet, Zenon
  <1>5. CASE ~thread_running
    <2>1. Refuse(l) /\ Goto(Emu, "idle")
      BY <1>5, Zenon DEF Started, Refuse
    <2>2. EmuGoes /\ pc'[Emu] = "idle"
      BY <1>2, <1>3, <2>1, EmuOn, Zenon
    <2>3. Distinct(requests')
      BY <1>2, Zenon DEF RequestInv, HoldInv
    <2>4. ASSUME NEW r \in Requests, owner'[r] # owner[r]
          PROVE  ~EmuHas(r)' /\ ~Posted(requests', r) /\ \A t \in Threads : ~ThreadHas(t, r)'
      <3>1. l \in {"begin", "remove"} /\ owner' = [owner EXCEPT ![request[Emu]] = "program"]
        BY <2>1, <2>4, Zenon DEF Refuse
      <3>2. r = request[Emu]
        BY <2>4, <3>1 DEF AllTypes, IoreqTypes
      <3>3. pc[Emu] \in Beginning \/ pc[Emu] \in Removing
        BY <1>2, <3>1 DEF Waits, Beginning, Removing
      <3>4. ~Posted(requests, r) /\ \A t \in Threads : ~ThreadHas(t, r)
        <4>1. CASE pc[Emu] \in Beginning
          BY <3>2, <4>1, Zenon DEF RequestInv, HoldInv, EmuHas
        <4>2. CASE pc[Emu] \in Removing
          BY <3>2, <4>2, Zenon DEF RequestInv, KeptInv, Unheld
        <4> QED
          BY <3>3, <4>1, <4>2
      <3> QED
        BY <1>2, <1>3, <2>2, <3>4, Zenon DEF EmuHas, ThreadHas, EmuGoes
    <2> QED
      BY <1>2, <2>2, <2>3, <2>4, EmuKeeps, Zenon
  <1> QED
    BY <1>4, <1>5

\* A new thread, which does not crowd the unit, finds every other ended.
LEMMA NewThreadKeeps ==
  ASSUME RequestInv, AllTypes, WaitInv, NEW l \in Calls, StartThread(l), ~crowded' PROVE RequestInv'
  <1>1. l \in {"open", "begin", "abort", "remove"} /\ pc[Emu] = l
    BY Zenon DEF Calls, Then, StartThread
  <1>2. UNCHANGED <<request, command, owner, content, thread_running>> /\ DOMAIN pc = Actors
    BY Zenon DEF StartThread, ioreq, WaitInv
  <1>3. CASE thread_running
    <2>1. Goto(Emu, Then[l]) /\ requests' = requests
      BY <1>3, Zenon DEF StartThread
    <2>2. /\ Then[l] \in Beginning => pc[Emu] \in Beginning
          /\ Then[l] \in Removing => pc[Emu] \in Removing
          /\ Then[l] # "resetclear" /\ pc[Emu] \notin Waiters
      BY <1>1 DEF Then, Waiters, Beginning, Removing
    <2>3. (\A t \in Threads : request'[t] = request[t]) /\ request'[Emu] = request[Emu]
      BY <1>2, Zenon
    <2>4. EmuGoes
      BY <1>2, <2>1, <2>2, <2>3, EmuOn, Zenon
    <2> QED
      BY <1>2, <2>1, <2>4, EmuQuiet, Zenon
  <1>4. CASE ~thread_running
    <2>1. PICK t \in Threads :
            /\ requests' = <<>> /\ sync_sem' = 0 /\ pc' = [pc EXCEPT ![t] = "start", ![Emu] = Waits[l]]
            /\ crowded' = (crowded \/ \E d \in Threads : pc[d] # "dead")
      BY <1>4, Zenon DEF StartThread
    <2>2. \A d \in Threads : pc[d] = "dead"
      BY <2>1
    <2>3. pc'[Emu] = Waits[l] /\ pc'[t] = "start" /\ \A d \in Threads : d # t => pc'[d] = "dead"
      BY <1>2, <2>1, <2>2, TheActors
    <2>4. /\ pc'[Emu] \in Beginning => pc[Emu] \in Beginning
          /\ pc'[Emu] \in Removing => pc[Emu] \in Removing
          /\ pc'[Emu] \in Waiters /\ pc'[Emu] # "resetclear"
      BY <1>1, <2>3 DEF Waits, Waiters, Beginning, Removing
    <2>5. \A d \in Threads : /\ pc'[d] \in {"start", "dead"} /\ pc'[d] \notin Serving
                             /\ pc'[d] \notin Adding /\ pc'[d] \notin Returning
                             /\ pc'[d] \in Leaving \union {"start"}
      BY <2>3 DEF Serving, Adding, Returning, Leaving
    <2>6. Distinct(requests') /\ \A r : ~Posted(requests', r)
      BY <2>1, NonePosted, Zenon
    <2>7. NothingTaken
      BY <1>2, <2>4, <2>5, <2>6, Zenon DEF NothingTaken, EmuHas, ThreadHas
    <2>8. PhaseInv'
      BY <2>1, <2>3, <2>4, <2>5, Zenon DEF PhaseInv
    <2>9. HoldInv'
      BY <1>2, <2>7, HoldKept, Zenon DEF RequestInv
    <2>10. ServeInv'
      BY <2>5, Zenon DEF ServeInv
    <2>11. KeptInv'
      BY <1>2, <2>4, <2>7, KeptKept, Zenon DEF RequestInv
    <2> QED
      BY <2>8, <2>9, <2>10, <2>11 DEF RequestInv
  <1> QED
    BY <1>3, <1>4

\* A reset that comes to clear everything has seen the thread leave.
LEMMA ClearKeeps ==
  ASSUME RequestInv, AllTypes, WaitInv, ResetClear PROVE RequestInv'
  <1>1. DOMAIN pc = Actors /\ pc[Emu] = "resetclear"
    BY Zenon DEF WaitInv, ResetClear
  <1>2. pc'[Emu] = "idle" /\ \A t \in Threads : pc'[t] = pc[t]
    BY <1>1, GotoIs, TheActors, Zenon DEF ResetClear
  <1>3. pc[Emu] \notin Waiters /\ "idle" \notin Beginning /\ "idle" \notin Removing /\ "idle" # "resetclear"
    BY <1>1 DEF Waiters, Beginning, Removing
  <1>4. \A t \in Threads : pc[t] \in Leaving /\ pc[t] \notin {"start", "started"}
    <2>1. ~thread_running
      BY <1>1, Zenon DEF RequestInv, PhaseInv
    <2>2. \A t \in Threads : pc[t] \notin {"start", "started"}
      BY <1>3, Zenon DEF RequestInv, PhaseInv
    <2> QED
      BY <2>1, <2>2, Zenon DEF RequestInv, PhaseInv
  <1>5. \A t \in Threads : pc'[t] \notin Serving /\ pc'[t] \notin Adding /\ pc'[t] \notin Returning
    BY <1>2, <1>4 DEF Leaving, Serving, Adding, Returning
  <1>6. \A r : ~EmuHas(r)' /\ ~Posted(requests', r) /\ \A t \in Threads : ~ThreadHas(t, r)'
    BY <1>2, <1>3, <1>5, NonePosted, Zenon DEF EmuHas, ThreadHas, ResetClear
  <1>7. PhaseInv'
    BY <1>2, <1>3, <1>4, Zenon DEF RequestInv, PhaseInv
  <1>8. HoldInv'
    <2>1. Distinct(requests')
      BY NonePosted, Zenon DEF ResetClear
    <2> QED
      BY <1>6, <2>1, Zenon DEF HoldInv
  <1>9. ServeInv'
    BY <1>5, Zenon DEF ServeInv
  <1>10. KeptInv'
    <2>1. \A r \in Requests : content'[r] = "old"
      BY Zenon DEF ResetClear
    <2>2. "old" # "kept"
      OBVIOUS
    <2> QED
      BY <1>2, <1>3, <2>1, <2>2, Zenon DEF KeptInv
  <1> QED
    BY <1>7, <1>8, <1>9, <1>10 DEF RequestInv

-----------------------------------------------------------------------------
(* The thread's steps.                                                     *)

\* The thread takes a request out of the pipe.
LEMMA ReadKeeps ==
  ASSUME RequestInv, AllTypes, WaitInv, NEW t \in Threads, Read(t) PROVE RequestInv'
  <1> DEFINE r == Head(requests).request
  <1>1. FrameTypes /\ DOMAIN pc = Actors /\ t \in Actors /\ t # Emu
    BY TheActors, Zenon DEF AllTypes, WaitInv
  <1>2. pc[t] = "read" /\ pc'[t] = "lock" /\ \A b \in Actors : b # t => pc'[b] = pc[b]
    BY <1>1, GotoIs, Zenon DEF Read
  <1>3. request'[t] = r /\ \A b \in Actors : b # t => request'[b] = request[b]
    BY <1>1, FramesThere, Zenon DEF Read
  <1>4. UNCHANGED <<thread_running, sync_sem, command, owner, content>>
    BY Zenon DEF Read, sync, ioreq
  <1>5. /\ Distinct(requests') /\ \A x : Posted(requests', x) => Posted(requests, x)
        /\ r # None => Posted(requests, r) /\ ~Posted(requests', r)
    <2>1. Distinct(requests)
      BY Zenon DEF RequestInv, HoldInv
    <2> QED
      BY <2>1, PostedTail, Zenon DEF Read, AllTypes, QueueType
  <1> HIDE DEF r
  <1>6. /\ pc[t] # "dead" /\ pc[t] \notin Leaving \union {"start"} /\ pc'[t] \notin {"start", "started"}
        /\ pc'[t] \notin Serving \ {"lock"} /\ pc'[t] \notin Adding /\ pc'[t] \notin Returning
    BY <1>2 DEF Leaving, Serving, Adding, Returning
  <1>7. thread_running
    BY <1>6, Zenon DEF RequestInv, PhaseInv
  <1>8. \A d \in Threads : d \in Actors /\ (d # t => pc[d] = "dead" /\ pc'[d] = "dead")
    BY <1>2, <1>6, TheActors, Zenon DEF RequestInv, PhaseInv
  <1>9. /\ "dead" \notin Serving /\ "dead" \notin Adding /\ "dead" \notin Returning /\ "dead" \in Leaving
        /\ "dead" \notin {"start", "started"}
    BY DEF Leaving, Serving, Adding, Returning
  <1>10. pc'[Emu] = pc[Emu] /\ request'[Emu] = request[Emu]
    BY <1>1, <1>2, <1>3, TheActors, Zenon
  <1>11. /\ \A x : EmuHas(x)' <=> EmuHas(x)
         /\ \A x \in Requests, d \in Threads : ThreadHas(d, x)' => d = t /\ x = r
    BY <1>3, <1>8, <1>9, <1>10, Zenon DEF EmuHas, ThreadHas
  <1>12. PhaseInv'
    <2>1. \A d, e \in Threads : pc'[d] # "dead" /\ pc'[e] # "dead" => d = e
      BY <1>8, Zenon
    <2>2. \A d \in Threads : pc'[d] \in {"start", "started"} => pc'[Emu] \in Waiters /\ sync_sem' = 0
      BY <1>6, <1>8, <1>9, Zenon
    <2> QED
      BY <1>4, <1>7, <1>10, <2>1, <2>2, Zenon DEF RequestInv, PhaseInv
  <1>13. HoldInv'
    <2>1. ASSUME NEW x \in Requests
          PROVE  /\ EmuHas(x)' \/ Posted(requests', x) => owner'[x] = "device" /\ \A d \in Threads : ~ThreadHas(d, x)'
                 /\ EmuHas(x)' => ~Posted(requests', x)
                 /\ \A d \in Threads : ThreadHas(d, x)' => owner'[x] = "device"
      <3>1. x # None
        BY HardfileAssumption
      <3>2. CASE x = r
        <4>1. Posted(requests, x) /\ ~Posted(requests', x)
          BY <1>5, <3>1, <3>2, Zenon
        <4>2. ~EmuHas(x) /\ owner[x] = "device"
          BY <4>1, Zenon DEF RequestInv, HoldInv
        <4> QED
          BY <1>4, <1>11, <4>1, <4>2, Zenon
      <3>3. CASE x # r
        BY <1>4, <1>5, <1>11, <3>3, Zenon DEF RequestInv, HoldInv
      <3> QED
        BY <3>2, <3>3
    <2> QED
      BY <1>5, <2>1, Zenon DEF HoldInv
  <1>14. ServeInv'
    BY <1>6, <1>8, <1>9, Zenon DEF ServeInv
  <1>15. KeptInv'
    <2>1. ASSUME NEW x \in Requests, Unheld(x) PROVE Unheld(x)'
      <3>1. x # r
        <4>1. x # None /\ ~Posted(requests, x)
          BY <2>1, HardfileAssumption DEF Unheld
        <4> QED
          BY <1>5, <4>1, Zenon
      <3> QED
        BY <1>4, <1>5, <1>11, <2>1, <3>1, Zenon DEF Unheld
    <2>2. ASSUME pc'[Emu] \in Removing PROVE request'[Emu] \in Requests /\ Unheld(request[Emu])'
      <3>1. request[Emu] \in Requests /\ Unheld(request[Emu])
        BY <1>10, <2>2, Zenon DEF RequestInv, KeptInv
      <3>2. PICK x \in Requests : x = request[Emu]
        BY <3>1, Zenon
      <3>3. Unheld(x)' /\ request'[Emu] = x
        BY <1>10, <2>1, <3>1, <3>2, Zenon
      <3> QED
        BY <3>3, Zenon DEF Unheld, EmuHas, ThreadHas
    <2> QED
      BY <1>4, <2>1, <2>2, Zenon DEF RequestInv, KeptInv
  <1> QED
    BY <1>12, <1>13, <1>14, <1>15 DEF RequestInv

\* What a thread goes on with that takes nothing out of the pipe.
LEMMA ThreadOn ==
  ASSUME RequestInv, WaitInv, NEW t \in Threads, NEW l, Goto(t, l), pc[t] # "dead", l \notin {"start", "started"},
         l \in Serving => pc[t] \in Serving /\ request'[t] = request[t],
         l \notin Leaving => pc[t] \notin Leaving \union {"start"}, thread_running' \in {thread_running, FALSE},
         l \notin Leaving => thread_running' = thread_running,
         \A b \in Actors : b # t => request'[b] = request[b],
         UNCHANGED <<requests, command>>
  PROVE  ThreadGoes(t) /\ pc'[t] = l
  <1>1. pc'[t] = l /\ \A b \in Actors : b # t => pc'[b] = pc[b]
    BY GotoIs, TheActors, Zenon DEF WaitInv
  <1>2. ASSUME l \notin Leaving PROVE thread_running'
    <2>1. pc[t] \notin Leaving \union {"start"} /\ thread_running' = thread_running
      BY <1>2
    <2>2. thread_running
      BY <2>1, Zenon DEF RequestInv, PhaseInv
    <2> QED
      BY <2>1, <2>2
  <1>3. thread_running' => thread_running
    BY Zenon
  <1> QED
    BY <1>1, <1>2, <1>3, Zenon DEF ThreadGoes

\* Steps that write into no request.
LEMMA ThreadQuiet ==
  ASSUME RequestInv, NEW t \in Threads, ThreadGoes(t), UNCHANGED <<owner, content>>,
         pc'[t] \in Serving \ {"lock"} => request'[t] \in Requests,
         pc'[t] \in Adding => command'[request'[t]] = "add",
         pc'[t] \in Returning => pc[t] \in Returning
  PROVE  RequestInv'
  <1>1. pc'[t] \in Returning => content'[request'[t]] \in {"done", "aborted"}
    <2>1. pc'[t] \in Returning => pc'[t] \in Serving
      BY DEF Serving
    <2> QED
      BY <2>1, Zenon DEF RequestInv, ServeInv, ThreadGoes
  <1> QED
    BY <1>1, ThreadKeeps, Zenon

\* A thread comes, waits for a request or for change_sem, and goes.
LEMMA ComingSteps ==
  ASSUME RequestInv, AllTypes, WaitInv, NEW t \in Threads,
         Start(t) \/ Report(t) \/ Lock(t) \/ Unlock(t) \/ Exit(t) \/ ExitSync(t) \/ ExitUnlock(t)
  PROVE  RequestInv'
  <1>1. FrameTypes /\ DOMAIN pc = Actors /\ t \in Actors
    BY TheActors, Zenon DEF AllTypes, WaitInv
  <1>2. UNCHANGED <<requests, command, owner, content>>
    BY Zenon DEF Start, Report, Lock, Unlock, Exit, ExitSync, ExitUnlock, ioreq
  <1>3. \A b \in Actors : b # t => request'[b] = request[b]
    <2>1. CASE Unlock(t)
      BY <1>1, <2>1, FramesThere, Zenon DEF Unlock
    <2>2. CASE ~Unlock(t)
      BY <2>2, Zenon DEF Start, Report, Lock, Exit, ExitSync, ExitUnlock, frames
    <2> QED
      BY <2>1, <2>2
  <1>4. CASE Start(t)
    <2>1. /\ pc[t] = "start" /\ Goto(t, "started") /\ thread_running' /\ UNCHANGED sync_sem
      BY <1>4, Zenon DEF Start
    <2>2. pc'[t] = "started" /\ \A b \in Actors : b # t => pc'[b] = pc[b]
      BY <1>1, <2>1, GotoIs, Zenon
    <2>3. /\ pc[t] # "dead" /\ pc[t] \in {"start", "started"}
          /\ pc'[t] \notin Serving /\ pc'[t] \notin Adding /\ pc'[t] \notin Returning
      BY <2>1, <2>2 DEF Serving, Adding, Returning
    <2>4. ThreadGoes(t)
      BY <1>2, <1>3, <2>1, <2>2, <2>3, Zenon DEF ThreadGoes
    <2> QED
      BY <1>2, <2>3, <2>4, ThreadQuiet, Zenon
  <1>5. CASE Lock(t)
    <2>1. UNCHANGED <<request, thread_running>>
      BY <1>5, Zenon DEF Lock, frames
    <2>2. PICK l \in {"exit", "io"} : pc[t] = "lock" /\ Goto(t, l) /\ (l = "io" => request[t] # None)
      BY <1>5, Zenon DEF Lock
    <2>3. /\ pc[t] # "dead" /\ l \notin {"start", "started"} /\ pc[t] \in Serving
          /\ pc[t] \notin Leaving \union {"start"} /\ l \notin Leaving /\ l \notin Adding /\ l \notin Returning
          /\ l \in Serving => l = "io"
      BY <2>2 DEF Serving, Adding, Returning, Leaving
    <2>4. ThreadGoes(t) /\ pc'[t] = l
      BY <1>2, <1>3, <2>1, <2>2, <2>3, ThreadOn, Zenon
    <2>5. l = "io" => request'[t] \in Requests
      BY <1>1, <2>1, <2>2 DEF FrameTypes
    <2> QED
      BY <1>2, <2>3, <2>4, <2>5, ThreadQuiet, Zenon
  <1>6. CASE Report(t) \/ Unlock(t) \/ Exit(t) \/ ExitSync(t) \/ ExitUnlock(t)
    <2>1. PICK l \in {"read", "exitsync", "exitunlock", "dead"} :
            /\ pc[t] \in {"started", "unlock", "exit", "exitsync", "exitunlock"} /\ Goto(t, l)
            /\ l = "read" => pc[t] \in {"started", "unlock"} /\ thread_running' = thread_running
      BY <1>6, Zenon DEF Report, Unlock, Exit, ExitSync, ExitUnlock
    <2>2. thread_running' \in {thread_running, FALSE}
      BY <1>6, Zenon DEF Report, Unlock, Exit, ExitSync, ExitUnlock
    <2>3. /\ pc[t] # "dead" /\ l \notin {"start", "started"}
          /\ l \notin Serving /\ l \notin Adding /\ l \notin Returning
          /\ l \notin Leaving => pc[t] \notin Leaving \union {"start"} /\ thread_running' = thread_running
      BY <2>1 DEF Serving, Adding, Returning, Leaving
    <2>4. ThreadGoes(t) /\ pc'[t] = l
      BY <1>2, <1>3, <2>1, <2>2, <2>3, ThreadOn, Zenon
    <2> QED
      BY <1>2, <2>3, <2>4, ThreadQuiet, Zenon
  <1> QED
    BY <1>4, <1>5, <1>6

\* A thread works on its request, and replies it or keeps it.
LEMMA ServingSteps ==
  ASSUME RequestInv, AllTypes, WaitInv, NEW t \in Threads,
         AddChangeInt(t) \/ DoIo(t) \/ Keep(t) \/ ReplyMsg(t) \/ TableStep(t)
  PROVE  RequestInv'
  <1>1. DOMAIN owner = Requests /\ DOMAIN content = Requests /\ t # Emu
    BY TheActors, Zenon DEF AllTypes, IoreqTypes
  <1>2. UNCHANGED <<requests, request, command, thread_running>>
    BY Zenon DEF AddChangeInt, DoIo, Keep, ReplyMsg, TableStep, Reuse, Claim, FillIobuf, FillType, Find, Free,
       Clear, ioreq, frames, sync
  <1>3. PICK l \in {"claim", "release", "unlock", "type", "fill", "keep", "done", "free", "clear", "reply"} :
          /\ Goto(t, l)
          /\ \/ l \in {"type", "fill", "keep", "done"} /\ pc[t] \in {"claim", "fill", "type"} /\ TableStep(t)
             \/ l \in {"free", "clear", "reply"} /\ pc[t] \in {"release", "free", "clear"} /\ TableStep(t)
             \/ l = "claim" /\ pc[t] = "io" /\ AddChangeInt(t)
             \/ l = "release" /\ pc[t] \in {"io", "done"} /\ DoIo(t)
             \/ l = "unlock" /\ pc[t] = "keep" /\ Keep(t)
             \/ l = "unlock" /\ pc[t] = "reply" /\ ReplyMsg(t)
    <2>1. CASE Reuse(t) \/ FillIobuf(t) \/ FillType(t)
      BY <1>1, <2>1, Zenon DEF Reuse, FillIobuf, FillType, Added, TableStep
    <2>2. CASE Claim(t)
      <3>1. pc[t] = "claim" /\ (Goto(t, "fill") \/ Goto(t, "done"))
        BY <1>1, <2>2, Zenon DEF Claim, NotAdded
      <3> QED
        BY <2>2, <3>1, Zenon DEF TableStep
    <2>3. CASE Find(t) \/ Free(t) \/ Clear(t)
      <3>1. pc[t] \in {"release", "free", "clear"} /\ (Goto(t, "free") \/ Goto(t, "clear") \/ Goto(t, "reply"))
        BY <1>1, <2>3, Zenon DEF Find, Free, Clear, Released
      <3> QED
        BY <2>3, <3>1, Zenon DEF TableStep
    <2>4. CASE AddChangeInt(t) \/ DoIo(t) \/ Keep(t) \/ ReplyMsg(t)
      BY <2>4, Zenon DEF AddChangeInt, DoIo, Keep, ReplyMsg
    <2> QED
      BY <2>1, <2>2, <2>3, <2>4, Zenon DEF TableStep
  <1>4. /\ pc[t] # "dead" /\ l \notin {"start", "started"} /\ pc[t] \in Serving \ {"lock"} /\ pc[t] \in Serving
        /\ pc[t] \notin Leaving \union {"start"} /\ l # "lock"
    BY <1>3 DEF Serving, Adding, Returning, Leaving
  <1>5. ThreadGoes(t) /\ pc'[t] = l
    BY <1>2, <1>3, <1>4, ThreadOn, Zenon
  <1>6. request[t] \in Requests /\ ThreadHas(t, request[t])
    BY <1>4, Zenon DEF RequestInv, ServeInv, ThreadHas
  <1>7. CASE TableStep(t)
    <2>1. UNCHANGED <<owner, content>>
      BY <1>7, Zenon DEF TableStep, Reuse, Claim, FillIobuf, FillType, Find, Free, Clear, ioreq
    <2>2. \/ l \in Adding /\ l \notin Returning /\ pc[t] \in Adding
          \/ l \in Returning /\ l \notin Adding /\ pc[t] \in Returning
      BY <1>3, <1>7 DEF Adding, Returning, AddChangeInt, DoIo, Keep, ReplyMsg, TableStep, Reuse, Claim, FillIobuf,
         FillType, Find, Free, Clear
    <2>3. l \in Adding => command'[request'[t]] = "add"
      BY <1>2, <2>2, Zenon DEF RequestInv, ServeInv
    <2> QED
      BY <1>2, <1>5, <1>6, <2>1, <2>2, <2>3, ThreadQuiet, Zenon
  <1>8. CASE AddChangeInt(t)
    <2>1. UNCHANGED <<owner, content>> /\ command[request[t]] = "add" /\ Goto(t, "claim")
      BY <1>8, Zenon DEF AddChangeInt, ioreq
    <2>2. pc'[t] = "claim"
      BY <2>1, GotoIs, TheActors, Zenon DEF WaitInv
    <2>3. pc'[t] \notin Returning
      BY <2>2 DEF Returning
    <2> QED
      BY <1>2, <1>5, <1>6, <2>1, <2>3, ThreadQuiet, Zenon
  <1>9. CASE DoIo(t)
    <2>1. owner' = owner /\ content' = [content EXCEPT ![request[t]] = "done"] /\ Goto(t, "release")
      BY <1>9, Zenon DEF DoIo
    <2>2. content'[request[t]] = "done" /\ \A r \in Requests : r # request[t] => content'[r] = content[r]
      BY <1>1, <1>6, <2>1, EntryThere, Zenon
    <2>3. pc'[t] = "release"
      BY <2>1, GotoIs, TheActors, Zenon DEF WaitInv
    <2>4. pc'[t] \notin Adding
      BY <2>3 DEF Adding
    <2>5. \A r \in Requests : content'[r] = "kept" => content[r] = "kept"
      BY <2>2
    <2>6. content'[request'[t]] \in {"done", "aborted"} /\ request'[t] \in Requests
      BY <1>2, <1>6, <2>2, Zenon
    <2> QED
      BY <1>5, <2>1, <2>4, <2>5, <2>6, ThreadKeeps, Zenon
  <1>10. CASE Keep(t) \/ ReplyMsg(t)
    <2>1. pc'[t] = "unlock"
      BY <1>10, GotoIs, TheActors, Zenon DEF WaitInv, Keep, ReplyMsg
    <2>2. pc'[t] \notin Serving /\ pc'[t] \notin Adding /\ pc'[t] \notin Returning
      BY <2>1 DEF Serving, Adding, Returning
    <2>3. \A r \in Requests : ~ThreadHas(t, r)'
      BY <2>2, Zenon DEF ThreadHas
    <2>4. CASE Keep(t)
      <3>1. /\ pc[t] \in Adding /\ owner' = owner
            /\ content' = [content EXCEPT ![request[t]] = "kept"]
        BY <2>4 DEF Keep, Adding
      <3>2. \A r \in Requests : content'[r] = "kept" => content[r] = "kept" \/ r = request[t]
        BY <1>1, <3>1
      <3>3. command[request[t]] = "add"
        BY <3>1, Zenon DEF RequestInv, ServeInv
      <3> QED
        BY <1>5, <1>6, <2>2, <2>3, <3>1, <3>2, <3>3, ThreadKeeps, Zenon
    <2>5. CASE ReplyMsg(t)
      <3>1. owner' = [owner EXCEPT ![request[t]] = "program"] /\ content' = content
        BY <2>5, Zenon DEF ReplyMsg
      <3>2. \A r \in Requests : owner'[r] # owner[r] => r = request[t]
        BY <1>1, <3>1
      <3> QED
        BY <1>5, <1>6, <2>2, <2>3, <3>1, <3>2, ThreadKeeps, Zenon
    <2> QED
      BY <1>10, <2>4, <2>5
  <1> QED
    BY <1>7, <1>8, <1>9, <1>10

-----------------------------------------------------------------------------
(* The invariant, and the action property.                                 *)

KeepInv == HardfileInv /\ (~crowded => RequestInv)

LEMMA KeepInvInit == HardfileInit => KeepInv
  <1> SUFFICES ASSUME HardfileInit PROVE KeepInv
    OBVIOUS
  <1>1. pc[Emu] = "idle" /\ (\A t \in Threads : pc[t] = "dead") /\ requests = <<>>
    BY TheActors, Zenon DEF HardfileInit
  <1>2. /\ "idle" \notin Beginning /\ "idle" \notin Removing /\ "idle" # "resetclear"
        /\ "dead" \notin Serving /\ "dead" \notin Adding /\ "dead" \notin Returning /\ "dead" \in Leaving
        /\ "dead" \notin {"start", "started"}
    BY DEF Beginning, Removing, Serving, Adding, Returning, Leaving
  <1>3. Distinct(requests) /\ \A r : ~Posted(requests, r)
    BY <1>1, NonePosted, Zenon
  <1>4. \A r \in Requests : content[r] = "old" /\ "old" # "kept"
    BY DEF HardfileInit
  <1>5. PhaseInv /\ HoldInv /\ ServeInv /\ KeptInv
    BY <1>1, <1>2, <1>3, <1>4, Zenon DEF PhaseInv, HoldInv, ServeInv, KeptInv, EmuHas, ThreadHas
  <1> QED
    BY <1>5, HardfileInvInit DEF KeepInv, RequestInv

LEMMA KeepInvNext == KeepInv /\ [HardfileNext]_hardfile_vars => KeepInv'
  <1> SUFFICES ASSUME KeepInv, [HardfileNext]_hardfile_vars, ~crowded' PROVE RequestInv'
    BY HardfileInvNext DEF KeepInv
  <1>1. AllTypes /\ WaitInv
    BY Zenon DEF KeepInv, HardfileInv
  <1>2. ~crowded
    BY Zenon DEF HardfileNext, StartThread, hardfile_vars
  <1>3. RequestInv
    BY <1>2, Zenon DEF KeepInv
  <1>4. ASSUME NEW l \in Calls, StartThread(l) PROVE RequestInv'
    BY <1>1, <1>3, <1>4, NewThreadKeeps, Zenon
  <1>5. CASE Call \/ Close \/ Reset
    BY <1>1, <1>3, <1>5, QuietSteps, BeginKeeps, RemoveKeeps, EndingSteps, Zenon DEF Call
  <1>6. CASE EmuStep
    BY <1>1, <1>3, <1>6, QuietSteps, WritingSteps, EndingSteps, StartedKeeps, PostKeeps, ClearKeeps, Zenon DEF EmuStep
  <1>7. ASSUME NEW t \in Threads, ThreadStep(t) PROVE RequestInv'
    BY <1>1, <1>3, <1>7, ReadKeeps, ComingSteps, ServingSteps, Zenon DEF ThreadStep
  <1>8. CASE UNCHANGED hardfile_vars
    <2>1. UNCHANGED <<requests, owner, content, command, request, pc, thread_running, sync_sem>>
      BY <1>8, Zenon DEF hardfile_vars, sync, ioreq, frames
    <2>2. EmuGoes
      BY <1>3, <2>1, Zenon DEF EmuGoes, RequestInv, PhaseInv
    <2> QED
      BY <1>3, <2>1, <2>2, EmuQuiet, Zenon
  <1> QED
    BY <1>4, <1>5, <1>6, <1>7, <1>8, Zenon DEF HardfileNext

\* A request that is not a CMD_ADDCHANGEINT's.
KeptAt(r) ==
  /\ owner[r] = "device" /\ owner'[r] = "program" =>
       content[r] \in {"done", "aborted"} \/ pc[Emu] \in {"beginwait", "resetclear"}
  /\ content'[r] # content[r] => owner'[r] = "device" \/ pc[Emu] \in {"mark", "resetclear"}

LEMMA KeptEmu ==
  ASSUME RequestInv, AllTypes, NEW r \in Requests, command[r] = "io",
         Call \/ Close \/ Reset \/ EmuStep
  PROVE  KeptAt(r)
  <1>1. DOMAIN owner = Requests /\ DOMAIN content = Requests
    BY Zenon DEF AllTypes, IoreqTypes
  <1>2. pc[Emu] \in Removing => r # request[Emu]
    <2>1. "io" # "add"
      OBVIOUS
    <2> QED
      BY <2>1, Zenon DEF RequestInv, KeptInv, Unheld
  <1>3. CASE CallBeginIo
    <2>1. PICK x \in Requests : /\ owner' = [owner EXCEPT ![x] = "device"]
                                /\ content' = [content EXCEPT ![x] = "old"]
      BY <1>3, Zenon DEF CallBeginIo
    <2>2. /\ owner'[x] = "device" /\ "device" # "program"
          /\ \A y \in Requests : y # x => owner'[y] = owner[y] /\ content'[y] = content[y]
      BY <1>1, <2>1
    <2> QED
      BY <2>2 DEF KeptAt
  <1>4. CASE ResetClear
    BY <1>4, Zenon DEF ResetClear, KeptAt
  <1>5. ASSUME NEW l \in Calls, Started(l) PROVE KeptAt(r)
    <2>1. content' = content /\ pc[Emu] = Waits[l]
      BY <1>5, Zenon DEF Started
    <2>2. owner' = owner \/ (l \in {"begin", "remove"} /\ owner' = [owner EXCEPT ![request[Emu]] = "program"])
      BY <1>5, Zenon DEF Started, Refuse
    <2>3. CASE owner'[r] = owner[r]
      BY <2>1, <2>3 DEF KeptAt
    <2>4. CASE owner'[r] # owner[r]
      <3>1. l \in {"begin", "remove"} /\ r = request[Emu]
        BY <1>1, <2>2, <2>4
      <3>2. pc[Emu] \notin Removing
        BY <1>2, <3>1
      <3>3. pc[Emu] = "beginwait"
        BY <2>1, <3>1, <3>2 DEF Waits, Removing
      <3> QED
        BY <2>1, <3>3 DEF KeptAt
    <2> QED
      BY <2>3, <2>4
  <1>6. CASE WriteFlags
    <2>1. pc[Emu] \in Beginning /\ content' = [content EXCEPT ![request[Emu]] = "sent"] /\ owner' = owner
      BY <1>6 DEF WriteFlags, Beginning
    <2>2. content'[r] # content[r] => EmuHas(r)
      BY <1>1, <2>1 DEF EmuHas
    <2>3. EmuHas(r) => owner[r] = "device"
      BY Zenon DEF RequestInv, HoldInv
    <2> QED
      BY <2>1, <2>2, <2>3 DEF KeptAt
  <1>7. CASE RemChangeInt
    <2>1. /\ content' = [content EXCEPT ![request[Emu]] = "done"] /\ pc[Emu] \in Removing
          /\ owner' = [owner EXCEPT ![request[Emu]] = "program"]
      BY <1>7 DEF RemChangeInt, Removing
    <2>2. content'[r] = content[r] /\ owner'[r] = owner[r]
      BY <1>1, <1>2, <2>1
    <2> QED
      BY <2>2 DEF KeptAt
  <1>8. CASE MarkAborted
    <2>1. pc[Emu] = "mark" /\ owner' = owner
      BY <1>8, Zenon DEF MarkAborted
    <2> QED
      BY <2>1 DEF KeptAt
  <1>9. CASE \/ CallOpen \/ CallAbortIo \/ CallRemChangeInt \/ Close \/ Reset \/ Opened \/ TableStep(Emu)
             \/ Post \/ Scan \/ ResetAbort \/ ResetStop \/ ResetWait
    <2>1. UNCHANGED <<owner, content>>
      BY <1>9, Zenon DEF CallOpen, CallAbortIo, CallRemChangeInt, Close, Reset, Opened, Post, Scan, ResetAbort,
         ResetStop, ResetWait, TableStep, Reuse, Claim, FillIobuf, FillType, Find, Free, Clear, ioreq
    <2> QED
      BY <2>1 DEF KeptAt
  <1> QED
    BY <1>3, <1>4, <1>5, <1>6, <1>7, <1>8, <1>9, Zenon DEF Call, EmuStep

LEMMA KeptThread ==
  ASSUME RequestInv, AllTypes, NEW r \in Requests, NEW t \in Threads, ThreadStep(t) PROVE KeptAt(r)
  <1>1. DOMAIN owner = Requests /\ DOMAIN content = Requests
    BY Zenon DEF AllTypes, IoreqTypes
  <1>2. CASE DoIo(t) \/ Keep(t)
    <2>1. /\ owner' = owner /\ pc[t] \in Serving
          /\ \E v : content' = [content EXCEPT ![request[t]] = v]
      BY <1>2 DEF DoIo, Keep, Serving, Adding
    <2>2. content'[r] # content[r] => ThreadHas(t, r)
      BY <1>1, <2>1 DEF ThreadHas
    <2>3. ThreadHas(t, r) => owner[r] = "device"
      BY Zenon DEF RequestInv, HoldInv
    <2> QED
      BY <2>1, <2>2, <2>3 DEF KeptAt
  <1>3. CASE ReplyMsg(t)
    <2>1. content' = content /\ owner' = [owner EXCEPT ![request[t]] = "program"] /\ pc[t] \in Returning
      BY <1>3 DEF ReplyMsg, Returning
    <2>2. content[request[t]] \in {"done", "aborted"}
      BY <2>1, Zenon DEF RequestInv, ServeInv
    <2>3. owner'[r] # owner[r] => r = request[t]
      BY <1>1, <2>1
    <2> QED
      BY <2>1, <2>2, <2>3 DEF KeptAt
  <1>4. CASE ~(DoIo(t) \/ Keep(t) \/ ReplyMsg(t))
    <2>1. UNCHANGED <<owner, content>>
      BY <1>4, Zenon DEF ThreadStep, Start, Report, Read, Lock, AddChangeInt, Unlock, Exit, ExitSync, ExitUnlock,
         TableStep, Reuse, Claim, FillIobuf, FillType, Find, Free, Clear, ioreq
    <2> QED
      BY <2>1 DEF KeptAt
  <1> QED
    BY <1>2, <1>3, <1>4

\* A request to uaehf.device comes back done or aborted, and nobody but an abort writes into it while
\* it is the program's, however beginio, abortio, the thread's I/O, closes and resets interleave
\* (hardfile_beginio, hardfile_abortio, hardfile_thread): as long as the unit has not been crowded.
\* For then one of beginio, the pipe and the thread has it, and the one that replies it has done it.
THEOREM ResultsKept == HardfileSpec => ResultKept
  <1>1. ASSUME KeepInv, HardfileNext, NEW r \in Requests, command[r] = "io", ~crowded PROVE KeptAt(r)
    <2>1. RequestInv /\ AllTypes
      BY <1>1, Zenon DEF KeepInv, HardfileInv
    <2>2. ASSUME NEW l \in Calls, StartThread(l) PROVE KeptAt(r)
      <3>1. UNCHANGED <<owner, content>>
        BY <2>2, Zenon DEF StartThread, ioreq
      <3> QED
        BY <3>1 DEF KeptAt
    <2> QED
      BY <1>1, <2>1, <2>2, KeptEmu, KeptThread, Zenon DEF HardfileNext
  <1>2. KeepInv /\ [HardfileNext]_hardfile_vars =>
          [\A r \in Requests : command[r] = "io" /\ ~crowded =>
             /\ owner[r] = "device" /\ owner'[r] = "program" =>
                  content[r] \in {"done", "aborted"} \/ pc[Emu] \in {"beginwait", "resetclear"}
             /\ content'[r] # content[r] => owner'[r] = "device" \/ pc[Emu] \in {"mark", "resetclear"}]_hardfile_vars
    BY <1>1, Zenon DEF KeptAt
  <1> QED
    BY <1>2, KeepInvInit, KeepInvNext, PTL DEF HardfileSpec, ResultKept
=============================================================================
