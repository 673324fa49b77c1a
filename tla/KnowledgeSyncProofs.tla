-------------------------- MODULE KnowledgeSyncProofs --------------------------
(***************************************************************************)
(* Proofs about KnowledgeSync for any number of workers, versions, copies, *)
(* retries and faults.  SyncInv is the inductive invariant.                *)
(***************************************************************************)
EXTENDS KnowledgeSync, TLAPS

Records == [version : Versions, attempt : Nat]
WorkerStates == [pc : PCs, topic : Topics, version : Nat, attempt : Nat,
                 content : Contents \cup {None}]

SourceTyped == source \in [type : SourceTypes, version : 0..MaxVersion,
                           status : {"pending", "syncing", "failed"}]

SyncType ==
    /\ SourceTyped
    /\ outbox \in [Versions -> {"none", "pending", "published"}]
    /\ copies \in [Versions -> Nat]
    /\ queue \in [Topics -> Seq(Records)]
    /\ owner \in [Topics -> Workers]
    /\ worker \in [Workers -> WorkerStates]

(* The rows of one version are written together and once.                  *)
HandInv ==
    /\ documents \in [Versions -> Seq(Contents \cup {None})]
    /\ parses \in [Versions -> Seq(Contents \cup {None})]
    /\ OneHandoffPerVersion

(* No record is ahead of the source.                                       *)
LimboInv == \A e \in limbo : e[2] \in Records /\ e[2].version <= source.version
AheadInv ==
    /\ \A v \in Versions : v > source.version => outbox[v] = "none" /\ copies[v] = 0
    /\ \A t \in Topics : \A i \in 1..Len(queue[t]) : queue[t][i].version <= source.version
    /\ \A w \in Workers : ~At(w, "idle") => worker[w].version \in Versions
                                            /\ worker[w].version <= source.version
    /\ LimboInv

(* The owner of a partition works on the record at its head.               *)
HeadInv ==
    \A t \in Topics : ~At(owner[t], "idle") /\ worker[owner[t]].topic = t =>
        Len(queue[t]) > 0 /\ queue[t][1].version = worker[owner[t]].version

(* A dead letter follows the recorded failure.                             *)
MarkInv ==
    \A w \in Workers : At(w, "dlq") /\ worker[w].version = source.version =>
        source.status = "failed" \/ HandedOff(source.version)

(* The head of t is about to be committed by its owner.                    *)
Taken(t) == At(owner[t], "commit") /\ worker[owner[t]].topic = t

Remains(v) ==
    \E t \in Topics : \E i \in 1..Len(queue[t]) :
        queue[t][i].version = v /\ ~(i = 1 /\ Taken(t))

(* SyncNeverLost, without counting on a record that is about to be         *)
(* committed, and with the outbox counting only until the first copy.      *)
Accounted ==
    LET v == source.version
    IN  v > 0 => \/ outbox[v] = "pending" /\ copies[v] = 0
                 \/ Remains(v)
                 \/ HandedOff(v)
                 \/ source.status = "failed" /\ v \in dlq

SyncInv == SyncType /\ HandInv /\ AheadInv /\ HeadInv /\ MarkInv /\ Accounted

USE DEF Versions, Topics

LEMMA VersionBound == MaxVersion \in Nat
BY SyncAssumption

USE VersionBound

(* A handler of w goes on to label l with the same record, or ends.        *)
Advance(w, l) ==
    /\ worker' \in [Workers -> WorkerStates]
    /\ ~At(w, "idle") /\ worker'[w].pc = l
    /\ l # "idle" => worker'[w].topic = worker[w].topic /\ worker'[w].version = worker[w].version
    /\ \A x \in Workers : x # w => worker'[x] = worker[x]

-----------------------------------------------------------------------------
LEMMA Singleton ==
    ASSUME NEW S, NEW c \in S PROVE <<c>> \in Seq(S) /\ Len(<<c>>) = 1 /\ <<c>> # <<>>
OBVIOUS

LEMMA TailFacts ==
    ASSUME NEW S, NEW q \in Seq(S), Len(q) > 0
    PROVE  /\ Tail(q) \in Seq(S) /\ Len(Tail(q)) = Len(q) - 1
           /\ \A i \in 1..(Len(q) - 1) : Tail(q)[i] = q[i + 1]
OBVIOUS

(* The versions of a busy worker and of the source can be compared.        *)
LEMMA VersionsTyped ==
    ASSUME SyncInv, NEW w \in Workers
    PROVE  worker[w].version \in Nat /\ source.version \in Nat
BY DEF SyncInv, SyncType, SourceTyped, WorkerStates

LEMMA RecordUpdates ==
    ASSUME NEW r \in WorkerStates, NEW l \in PCs
    PROVE  /\ [r EXCEPT !.pc = l] \in WorkerStates
           /\ [r EXCEPT !.pc = l, !.content = None] \in WorkerStates
           /\ \A c \in Contents : [r EXCEPT !.pc = l, !.content = c] \in WorkerStates
BY Zenon DEF WorkerStates

LEMMA FinishAdvances ==
    ASSUME SyncType, NEW w \in Workers, NEW l \in PCs, l # "idle", ~At(w, "idle"), Finish(w, l)
    PROVE  Advance(w, l)
<1>1. worker' = [worker EXCEPT ![w] = [worker[w] EXCEPT !.pc = l, !.content = None]]
  BY Zenon DEF SyncType, WorkerStates, Finish
<1>2. [worker[w] EXCEPT !.pc = l, !.content = None] \in WorkerStates
  BY RecordUpdates, Zenon DEF SyncType
<1> QED
  BY <1>1, <1>2 DEF SyncType, WorkerStates, Advance

LEMMA RewindAdvances ==
    ASSUME SyncType, NEW w \in Workers, ~At(w, "idle"), Rewind(w)
    PROVE  Advance(w, "idle")
BY DEF SyncType, WorkerStates, Rewind, Idle, Advance, PCs

(* A failure leads to the retry topic or to the failure update.            *)
LEMMA FailAdvances ==
    ASSUME SyncType, NEW w \in Workers, ~At(w, "idle"), NEW b \in BOOLEAN, FailTo(w, b)
    PROVE  Advance(w, "retry") \/ Advance(w, "mark")
BY FinishAdvances DEF FailTo, PCs

LEMMA GotoAdvances ==
    ASSUME SyncType, NEW w \in Workers, NEW l \in PCs, l # "idle", ~At(w, "idle"),
           worker' = [worker EXCEPT ![w].pc = l]
    PROVE  Advance(w, l)
<1>1. [worker[w] EXCEPT !.pc = l] \in WorkerStates
  BY RecordUpdates, Zenon DEF SyncType
<1> QED
  BY <1>1 DEF SyncType, WorkerStates, Advance

LEMMA ContentAdvances ==
    ASSUME SyncType, NEW w \in Workers, NEW l \in PCs, NEW c \in Contents, l # "idle",
           ~At(w, "idle"), worker' = [worker EXCEPT ![w].pc = l, ![w].content = c]
    PROVE  Advance(w, l)
<1>1. [worker[w] EXCEPT !.pc = l, !.content = c] \in WorkerStates
  BY RecordUpdates, Zenon DEF SyncType
<1>2. worker' = [worker EXCEPT ![w] = [worker[w] EXCEPT !.pc = l, !.content = c]]
  BY Zenon DEF SyncType, WorkerStates
<1> QED
  BY <1>1, <1>2 DEF SyncType, WorkerStates, Advance

(* A step of one handler that neither queues nor commits a record keeps    *)
(* the invariant, provided that rows are only added, and that it goes on   *)
(* to commit only what is superseded or handed off.                        *)
LEMMA HandlerKeeps ==
    ASSUME SyncInv, NEW w \in Workers, NEW l \in PCs, Advance(w, l),
           UNCHANGED <<outbox, copies, queue, owner>>,
           SourceTyped', source'.version = source.version,
           HandInv', \A v \in Versions : HandedOff(v) => HandedOff(v)',
           dlq \subseteq dlq', LimboInv',
           source.status = "failed" => source'.status = "failed" \/ HandedOff(source.version)',
           l = "commit" /\ worker[w].version = source.version =>
               HandedOff(source.version)' \/ (source'.status = "failed" /\ source.version \in dlq'),
           l = "dlq" /\ worker[w].version = source.version =>
               source'.status = "failed" \/ HandedOff(source.version)'
    PROVE  SyncInv'
<1>1. SyncType'
  BY DEF SyncInv, SyncType, Advance
<1>2. AheadInv'
  <2>1. \A x \in Workers : ~At(x, "idle")' => worker'[x].version \in Versions
                                              /\ worker'[x].version <= source'.version
    BY DEF SyncInv, AheadInv, Advance, At
  <2> QED
    BY <2>1 DEF SyncInv, AheadInv
<1>3. HeadInv'
  <2> SUFFICES ASSUME NEW t \in Topics, worker'[owner[t]].pc # "idle", worker'[owner[t]].topic = t
               PROVE  Len(queue[t]) > 0 /\ queue[t][1].version = worker'[owner[t]].version
    BY DEF HeadInv, At
  <2>1. owner[t] \in Workers
    BY DEF SyncInv, SyncType
  <2>2. worker[owner[t]].pc # "idle" /\ worker[owner[t]].topic = t
        /\ worker'[owner[t]].version = worker[owner[t]].version
    BY <2>1 DEF Advance, At
  <2> QED
    BY <2>2 DEF SyncInv, HeadInv, At
<1>4. MarkInv'
  <2> SUFFICES ASSUME NEW x \in Workers, worker'[x].pc = "dlq", worker'[x].version = source.version
               PROVE  source'.status = "failed" \/ HandedOff(source.version)'
    BY DEF MarkInv, At, HandedOff
  <2>1. source.version \in Versions /\ worker[x].version = source.version
    BY DEF SyncInv, AheadInv, Advance, At
  <2>2. CASE x = w
    BY <2>1, <2>2 DEF Advance
  <2>3. CASE x # w
    <3>1. source.status = "failed" \/ HandedOff(source.version)
      BY <2>1, <2>3 DEF Advance, At, SyncInv, MarkInv
    <3> QED
      BY <2>1, <3>1 DEF HandedOff
  <2> QED
    BY <2>2, <2>3
<1>5. Accounted'
  <2> SUFFICES ASSUME source.version > 0,
                      ~(outbox[source.version] = "pending" /\ copies[source.version] = 0),
                      ~HandedOff(source.version)',
                      ~(source'.status = "failed" /\ source.version \in dlq')
               PROVE  Remains(source.version)'
    BY DEF Accounted, HandedOff, Remains, Taken, At
  <2>1. source.version \in Versions
    BY DEF SyncInv, SyncType, SourceTyped
  <2>2. Remains(source.version)
    BY <2>1 DEF SyncInv, Accounted, HandedOff
  <2>a. PICK t \in Topics : \E i \in 1..Len(queue[t]) :
               queue[t][i].version = source.version /\ ~(i = 1 /\ Taken(t))
    BY <2>2 DEF Remains
  <2>3. PICK i \in 1..Len(queue[t]) :
               queue[t][i].version = source.version /\ ~(i = 1 /\ Taken(t))
    BY <2>a
  <2>4. ~(i = 1 /\ Taken(t)')
    <3> SUFFICES ASSUME i = 1, Taken(t)' PROVE FALSE
      OBVIOUS
    <3>1. owner[t] = w /\ l = "commit" /\ worker[w].topic = t
      BY <2>3 DEF Taken, Advance, At, SyncInv, SyncType
    <3>2. queue[t][1].version = worker[w].version
      BY <3>1 DEF SyncInv, HeadInv, Advance
    <3> QED
      BY <2>3, <3>1, <3>2
  <2> QED
    BY <2>3, <2>4 DEF Remains, Taken, At
<1> QED
  BY <1>1, <1>2, <1>3, <1>4, <1>5 DEF SyncInv

(* The same for a step that writes no row.                                 *)
LEMMA QuietKeeps ==
    ASSUME SyncInv, NEW w \in Workers, NEW l \in PCs, Advance(w, l), l # "dlq",
           UNCHANGED <<source, outbox, copies, documents, parses, queue, dlq, owner>>,
           LimboInv',
           l = "commit" /\ worker[w].version = source.version => HandedOff(source.version)
    PROVE  SyncInv'
<1>1. SourceTyped' /\ HandInv'
  BY Zenon DEF SyncInv, SyncType, SourceTyped, HandInv, OneHandoffPerVersion
<1>2. \A v : HandedOff(v)' <=> HandedOff(v)
  BY DEF HandedOff
<1>3. HandedOff(source.version)' <=> HandedOff(source.version)
  BY DEF HandedOff
<1> QED
  BY <1>1, <1>2, <1>3, HandlerKeeps

(* The topics after record r was appended to t: nothing moved, nothing     *)
(* else is new.                                                            *)
Appended(t, r) ==
    /\ queue' \in [Topics -> Seq(Records)]
    /\ Len(queue'[t]) = Len(queue[t]) + 1 /\ queue'[t][Len(queue[t]) + 1] = r
    /\ \A u \in Topics : \A i \in 1..Len(queue[u]) :
          i \in 1..Len(queue'[u]) /\ queue'[u][i] = queue[u][i]
    /\ \A u \in Topics : \A i \in 1..Len(queue'[u]) :
          i \in 1..Len(queue[u]) \/ queue'[u][i] = r

LEMMA AppendFacts ==
    ASSUME SyncType, NEW t \in Topics, NEW r \in Records,
           queue' = [queue EXCEPT ![t] = Append(@, r)]
    PROVE  Appended(t, r)
<1>1. queue[t] \in Seq(Records) /\ Len(queue[t]) \in Nat
  BY DEF SyncType
<1>2. queue'[t] = Append(queue[t], r) /\ queue'[t] \in Seq(Records)
  BY <1>1 DEF SyncType
<1>3. \A u \in Topics : u # t => queue'[u] = queue[u]
  BY DEF SyncType
<1>4. queue' \in [Topics -> Seq(Records)]
  BY <1>2, <1>3 DEF SyncType
<1>5. Len(queue'[t]) = Len(queue[t]) + 1 /\ queue'[t][Len(queue[t]) + 1] = r
      /\ \A i \in 1..Len(queue[t]) : queue'[t][i] = queue[t][i]
  BY <1>1, <1>2
<1>6. \A u \in Topics : \A i \in 1..Len(queue[u]) :
         i \in 1..Len(queue'[u]) /\ queue'[u][i] = queue[u][i]
  BY <1>1, <1>3, <1>5
<1>7. \A u \in Topics : \A i \in 1..Len(queue'[u]) :
         i \in 1..Len(queue[u]) \/ queue'[u][i] = r
  BY <1>1, <1>3, <1>5
<1> QED
  BY <1>4, <1>5, <1>6, <1>7 DEF Appended

(* A record that arrives in a topic, by itself or published by a handler   *)
(* that goes on to commit the record it replaces, keeps the invariant: the *)
(* new record is not the one some owner is about to commit.                *)
LEMMA AppendKeeps ==
    ASSUME SyncInv, NEW t \in Topics, NEW r \in Records, r.version <= source.version,
           queue' = [queue EXCEPT ![t] = Append(@, r)],
           UNCHANGED <<source, outbox, documents, parses, dlq, owner>>, LimboInv',
           copies' \in [Versions -> Nat],
           \A v \in Versions : v # r.version => copies'[v] = copies[v],
           worker' = worker \/ \E w \in Workers : Advance(w, "commit")
                                                  /\ worker[w].version = r.version
    PROVE  SyncInv'
<1>0. SyncType /\ r.version \in Versions
  BY DEF SyncInv, Records
<1>1. Appended(t, r)
  BY <1>0, AppendFacts, Zenon
<1>c. queue' \in [Topics -> Seq(Records)]
  BY <1>1 DEF Appended
<1>d. \A u \in Topics : \A i \in 1..Len(queue[u]) :
         i \in 1..Len(queue'[u]) /\ queue'[u][i] = queue[u][i]
  BY <1>1 DEF Appended
<1>a. \A u \in Topics : Len(queue[u]) \in Nat /\ Len(queue'[u]) \in Nat
  BY <1>0, <1>c DEF SyncType
<1>b. source.version \in 0..MaxVersion
  BY <1>0 DEF SyncType, SourceTyped
<1>2. worker' \in [Workers -> WorkerStates]
  BY <1>0 DEF SyncType, Advance
<1>3. \A x \in Workers : worker'[x] # worker[x] =>
          /\ worker[x].pc # "idle" /\ worker'[x].pc = "commit"
          /\ worker'[x].topic = worker[x].topic
          /\ worker'[x].version = worker[x].version /\ worker[x].version = r.version
  BY DEF Advance, At
<1>4. SyncType' /\ HandInv'
  BY <1>c, <1>2, Zenon DEF SyncInv, SyncType, SourceTyped, HandInv, OneHandoffPerVersion
<1>5. AheadInv'
  <2>0. \A v \in Versions : v > source.version => outbox[v] = "none" /\ copies[v] = 0
    BY DEF SyncInv, AheadInv
  <2>1. \A v \in Versions : v > source.version => outbox[v] = "none" /\ copies'[v] = 0
    BY <1>0, <1>b, <2>0
  <2>2. \A u \in Topics : \A i \in 1..Len(queue'[u]) : queue'[u][i].version <= source.version
    <3> SUFFICES ASSUME NEW u \in Topics, NEW i \in 1..Len(queue'[u])
                 PROVE  queue'[u][i].version <= source.version
      OBVIOUS
    <3>1. (i \in 1..Len(queue[u]) /\ queue'[u][i] = queue[u][i]) \/ queue'[u][i] = r
      BY <1>1 DEF Appended
    <3>2. i \in 1..Len(queue[u]) => queue[u][i].version <= source.version
      BY DEF SyncInv, AheadInv
    <3> QED
      BY <3>1, <3>2
  <2>3. \A x \in Workers : worker'[x].pc # "idle" => worker'[x].version \in Versions
                                                   /\ worker'[x].version <= source.version
    BY <1>3 DEF SyncInv, AheadInv, At
  <2> QED
    BY <2>1, <2>2, <2>3 DEF AheadInv, At
<1>6. HeadInv'
  <2> SUFFICES ASSUME NEW u \in Topics, worker'[owner[u]].pc # "idle", worker'[owner[u]].topic = u
               PROVE  Len(queue'[u]) > 0 /\ queue'[u][1].version = worker'[owner[u]].version
    BY DEF HeadInv, At
  <2>1. owner[u] \in Workers
    BY <1>0 DEF SyncType
  <2>2. worker[owner[u]].pc # "idle" /\ worker[owner[u]].topic = u
        /\ worker'[owner[u]].version = worker[owner[u]].version
    BY <2>1, <1>3
  <2>3. Len(queue[u]) > 0 /\ queue[u][1].version = worker[owner[u]].version
    BY <2>2 DEF SyncInv, HeadInv, At
  <2>4. 1 \in 1..Len(queue[u])
    BY <2>3, <1>a
  <2>5. 1 \in 1..Len(queue'[u]) /\ queue'[u][1] = queue[u][1]
    BY <1>d, <2>4
  <2> QED
    BY <1>a, <2>2, <2>3, <2>5
<1>7. MarkInv'
  BY <1>3 DEF SyncInv, MarkInv, At, HandedOff
<1>8. Accounted'
  <2>1. CASE r.version = source.version
    <3>1. ~(Len(queue[t]) + 1 = 1 /\ Taken(t)')
      <4> SUFFICES ASSUME Len(queue[t]) = 0, Taken(t)' PROVE FALSE
        BY <1>a
      <4>1. owner[t] \in Workers
        BY <1>0 DEF SyncType
      <4>2. worker[owner[t]].pc # "idle" /\ worker[owner[t]].topic = t
        BY <4>1, <1>3 DEF Taken, At
      <4> QED
        BY <4>2 DEF SyncInv, HeadInv, At
    <3>2. Len(queue[t]) + 1 \in 1..Len(queue'[t])
      BY <1>1, <1>a DEF Appended
    <3>a. queue'[t][Len(queue[t]) + 1].version = source.version
      BY <1>1, <2>1 DEF Appended
    <3>b. \E i \in 1..Len(queue'[t]) : queue'[t][i].version = source.version
                                       /\ ~(i = 1 /\ Taken(t)')
      BY <3>1, <3>2, <3>a, Zenon
    <3>3. Remains(source.version)'
      BY <3>b DEF Remains, Taken, At
    <3> QED
      BY <3>3 DEF Accounted, Remains, Taken, At
  <2>2. CASE r.version # source.version
    <3> SUFFICES ASSUME source.version > 0,
                        ~(outbox[source.version] = "pending" /\ copies[source.version] = 0),
                        ~HandedOff(source.version),
                        ~(source.status = "failed" /\ source.version \in dlq)
                 PROVE  Remains(source.version)'
      <4>1. source.version > 0 => copies'[source.version] = copies[source.version]
        BY <1>b, <2>2
      <4>2. HandedOff(source.version)' <=> HandedOff(source.version)
        BY DEF HandedOff
      <4> QED
        BY <4>1, <4>2, Zenon DEF Accounted, HandedOff, Remains, Taken, At
    <3>1. PICK u \in Topics : \E i \in 1..Len(queue[u]) :
                 queue[u][i].version = source.version /\ ~(i = 1 /\ Taken(u))
      BY DEF SyncInv, Accounted, Remains
    <3>2. PICK i \in 1..Len(queue[u]) :
                 queue[u][i].version = source.version /\ ~(i = 1 /\ Taken(u))
      BY <3>1
    <3>3. ~(i = 1 /\ Taken(u)')
      <4> SUFFICES ASSUME i = 1, Taken(u)' PROVE FALSE
        OBVIOUS
      <4>1. owner[u] \in Workers
        BY <1>0 DEF SyncType
      <4>2. worker[owner[u]].pc # "idle" /\ worker[owner[u]].topic = u
            /\ worker[owner[u]].version = r.version
        BY <3>2, <4>1, <1>3 DEF Taken, At
      <4>3. queue[u][1].version = r.version
        BY <4>2, Zenon DEF SyncInv, HeadInv, At
      <4> QED
        BY <3>2, <4>3, <2>2
    <3>4. i \in 1..Len(queue'[u]) /\ queue'[u][i] = queue[u][i]
      BY <1>d, <3>2, Zenon
    <3>5. \E j \in 1..Len(queue'[u]) : queue'[u][j].version = source.version
                                       /\ ~(j = 1 /\ Taken(u)')
      BY <3>2, <3>3, <3>4
    <3> QED
      BY <3>5 DEF Remains, Taken, At
  <2> QED
    BY <2>1, <2>2
<1> QED
  BY <1>4, <1>5, <1>6, <1>7, <1>8 DEF SyncInv

-----------------------------------------------------------------------------
LEMMA LimboKept == ASSUME SyncInv, UNCHANGED <<source, limbo>> PROVE LimboInv'
BY DEF SyncInv, AheadInv, LimboInv

(* The record a handler would publish is no newer than the source.         *)
LEMMA PublishedRecord ==
    ASSUME SyncInv, NEW w \in Workers, ~At(w, "idle")
    PROVE  /\ NextAttempt(w) \in Records /\ NextAttempt(w).version = worker[w].version
           /\ DeadLetter(w) \in Records /\ DeadLetter(w).version = worker[w].version
           /\ worker[w].version \in Versions /\ worker[w].version <= source.version
BY DEF SyncInv, SyncType, AheadInv, WorkerStates, Records, NextAttempt, DeadLetter, Record

LEMMA InitKeeps == Init => SyncInv
<1> SUFFICES ASSUME Init PROVE SyncInv
  OBVIOUS
<1>1. SyncType
  BY DEF Init, SyncType, SourceTyped, Idle, WorkerStates, PCs
<1>2. HandInv
  BY DEF Init, HandInv, OneHandoffPerVersion
<1>3. source.version = 0
  BY DEF Init
<1>4. \A w \in Workers : At(w, "idle")
  BY DEF Init, Idle, At
<1>5. AheadInv
  BY <1>4 DEF Init, AheadInv, LimboInv
<1>6. HeadInv
  BY <1>1, <1>4 DEF HeadInv, SyncType
<1>7. MarkInv /\ Accounted
  BY <1>3, <1>4 DEF MarkInv, Accounted, At
<1> QED
  BY <1>1, <1>2, <1>5, <1>6, <1>7 DEF SyncInv

LEMMA StartKeeps == SyncInv /\ start_source_sync => SyncInv'
<1> SUFFICES ASSUME SyncInv, start_source_sync PROVE SyncInv'
  OBVIOUS
<1> USE DEF start_source_sync, broker
<1>1. /\ source.version \in 0..MaxVersion
      /\ source'.version = source.version + 1 /\ source'.version \in Versions
      /\ SourceTyped'
  <2>1. source.version \in 0..MaxVersion
    BY DEF SyncInv, SyncType, SourceTyped
  <2>2. source.version + 1 \in 1..MaxVersion /\ source.version + 1 \in 0..MaxVersion
    BY <2>1
  <2>3. source' = [type |-> source.type, version |-> source.version + 1, status |-> "syncing"]
    BY Zenon DEF SyncInv, SyncType, SourceTyped
  <2>4. source.type \in SourceTypes
    BY DEF SyncInv, SyncType, SourceTyped
  <2> QED
    BY <2>1, <2>2, <2>3, <2>4 DEF SourceTyped
<1>2. SyncType'
  BY <1>1 DEF SyncInv, SyncType
<1>3. HandInv'
  BY DEF SyncInv, HandInv, OneHandoffPerVersion
<1>4. LimboInv'
  <2> SUFFICES ASSUME NEW e \in limbo
               PROVE  e[2] \in Records /\ e[2].version <= source'.version
    BY DEF LimboInv
  <2> QED
    BY <1>1 DEF SyncInv, AheadInv, LimboInv, Records
<1>5. AheadInv'
  <2>1. \A v \in Versions : v > source'.version => outbox'[v] = "none" /\ copies[v] = 0
    BY <1>1 DEF SyncInv, SyncType, AheadInv
  <2>2. \A t \in Topics : \A i \in 1..Len(queue[t]) : queue[t][i].version <= source'.version
    <3> SUFFICES ASSUME NEW t \in Topics, NEW i \in 1..Len(queue[t])
                 PROVE  queue[t][i].version <= source'.version
      OBVIOUS
    <3>1. queue[t][i] \in Records
      BY DEF SyncInv, SyncType
    <3>2. queue[t][i].version \in Nat /\ queue[t][i].version <= source.version
      BY <3>1 DEF SyncInv, AheadInv, Records
    <3> QED
      BY <1>1, <3>2
  <2>3. \A w \in Workers : ~At(w, "idle") => worker[w].version \in Versions
                                              /\ worker[w].version <= source'.version
    BY <1>1 DEF SyncInv, AheadInv
  <2> QED
    BY <1>4, <2>1, <2>2, <2>3 DEF AheadInv, At
<1>6. HeadInv'
  BY DEF SyncInv, HeadInv, At
<1>7. MarkInv'
  BY <1>1 DEF SyncInv, AheadInv, MarkInv, At
<1>8. Accounted'
  BY <1>1 DEF SyncInv, SyncType, AheadInv, Accounted
<1> QED
  BY <1>2, <1>3, <1>5, <1>6, <1>7, <1>8 DEF SyncInv

LEMMA DeliverKeeps == ASSUME SyncInv, NEW v \in Versions, Deliver(v) PROVE SyncInv'
<1> DEFINE r == Record(v, 0)
<1>1. r \in Records /\ r.version = v
  BY DEF Records, Record
<1>2. v <= source.version
  <2>1. source.version \in Nat /\ v \in Nat
    BY DEF SyncInv, SyncType, SourceTyped
  <2>2. ~(outbox[v] = "none" /\ copies[v] = 0)
    BY DEF Deliver
  <2> QED
    BY <2>1, <2>2 DEF SyncInv, AheadInv
<1>3. LimboInv'
  BY LimboKept DEF Deliver, rows
<1>4. copies' \in [Versions -> Nat] /\ \A x \in Versions : x # v => copies'[x] = copies[x]
  BY DEF Deliver, SyncInv, SyncType
<1>5. queue' = [queue EXCEPT !["sync"] = Append(@, r)]
      /\ UNCHANGED <<source, outbox, documents, parses, dlq, owner, worker>>
  BY DEF Deliver, rows
<1> QED
  BY <1>1, <1>2, <1>3, <1>4, <1>5, AppendKeeps, Zenon

LEMMA SettleKeeps == ASSUME SyncInv, NEW v \in Versions, Settle(v) PROVE SyncInv'
<1> USE DEF Settle, broker
<1>1. SyncType' /\ HandInv'
  BY Zenon DEF SyncInv, SyncType, SourceTyped, HandInv, OneHandoffPerVersion
<1>2. AheadInv'
  <2>1. \A x \in Versions : x > source.version => outbox'[x] = "none" /\ copies[x] = 0
    BY DEF SyncInv, SyncType, AheadInv
  <2> QED
    BY <2>1 DEF SyncInv, AheadInv, LimboInv, At
<1>3. HeadInv' /\ MarkInv'
  BY DEF SyncInv, HeadInv, MarkInv, At, HandedOff
<1>4. Accounted'
  <2>1. source.version > 0 => source.version \in Versions
    BY DEF SyncInv, SyncType, SourceTyped
  <2>2. copies[v] # 0
    BY DEF SyncInv, SyncType
  <2> QED
    BY <2>1, <2>2 DEF SyncInv, SyncType, Accounted, Remains, Taken, At, HandedOff
<1> QED
  BY <1>1, <1>2, <1>3, <1>4 DEF SyncInv

LEMMA PollKeeps ==
    ASSUME SyncInv, NEW w \in Workers, NEW t \in Topics, poll(w, t) PROVE SyncInv'
<1> DEFINE r == Head(queue[t])
           s == [Idle EXCEPT !.pc = "load", !.topic = t, !.version = r.version, !.attempt = r.attempt]
<1>0. UNCHANGED <<source, outbox, copies, documents, parses, queue, dlq, owner, limbo>>
  BY DEF poll, Stay, rows, broker
<1>1. queue[t] \in Seq(Records) /\ queue[t] # <<>> /\ owner[t] = w
  BY DEF poll, SyncInv, SyncType
<1>2. Len(queue[t]) > 0 /\ 1 \in 1..Len(queue[t]) /\ r = queue[t][1] /\ r \in Records
  BY <1>1
<1>3. /\ r.version \in Versions /\ r.version \in Nat /\ r.attempt \in Nat
      /\ r.version <= source.version
  BY <1>2 DEF Records, SyncInv, AheadInv
<1>4. s \in WorkerStates /\ s.pc = "load" /\ s.topic = t /\ s.version = r.version
  BY <1>3, Zenon DEF Idle, WorkerStates, PCs
<1>5. worker' = [worker EXCEPT ![w] = s]
  BY DEF poll
<1> HIDE DEF s, r
<1>6. worker' \in [Workers -> WorkerStates] /\ worker'[w] = s
      /\ \A x \in Workers : x # w => worker'[x] = worker[x]
  BY <1>4, <1>5 DEF SyncInv, SyncType
<1>7. SyncType' /\ HandInv'
  BY <1>0, <1>6 DEF SyncInv, SyncType, SourceTyped, HandInv, OneHandoffPerVersion
<1>8. AheadInv'
  <2>1. \A x \in Workers : worker'[x].pc # "idle" => worker'[x].version \in Versions
                                                   /\ worker'[x].version <= source.version
    BY <1>3, <1>4, <1>6 DEF SyncInv, AheadInv, At
  <2> QED
    BY <1>0, <2>1, Zenon DEF SyncInv, AheadInv, LimboInv, At
<1>9. HeadInv'
  <2> SUFFICES ASSUME NEW u \in Topics, worker'[owner[u]].pc # "idle", worker'[owner[u]].topic = u
               PROVE  Len(queue[u]) > 0 /\ queue[u][1].version = worker'[owner[u]].version
    BY <1>0 DEF HeadInv, At
  <2>1. owner[u] \in Workers
    BY DEF SyncInv, SyncType
  <2>2. CASE owner[u] = w
    BY <2>2, <1>2, <1>4, <1>6
  <2>3. CASE owner[u] # w
    BY <2>1, <2>3, <1>6 DEF SyncInv, HeadInv, At
  <2> QED
    BY <2>2, <2>3
<1>10. MarkInv'
  BY <1>0, <1>4, <1>6 DEF SyncInv, MarkInv, At, HandedOff
<1>11. Accounted'
  <2>1. \A u \in Topics : Taken(u)' => Taken(u)
    BY <1>0, <1>4, <1>6 DEF SyncInv, SyncType, Taken, At
  <2>2. Remains(source.version) => Remains(source.version)'
    BY <1>0, <2>1 DEF Remains
  <2> QED
    BY <1>0, <2>2 DEF SyncInv, Accounted, HandedOff, Remains, Taken, At
<1> QED
  BY <1>7, <1>8, <1>9, <1>10, <1>11 DEF SyncInv

-----------------------------------------------------------------------------
(* A handler that fails, or stops, without writing a row.                  *)
LEMMA FailKeeps ==
    ASSUME SyncInv, NEW w \in Workers, ~At(w, "idle"), NEW b \in BOOLEAN, FailTo(w, b),
           UNCHANGED <<rows, copies, broker>>
    PROVE  SyncInv'
<1>1. UNCHANGED <<source, outbox, copies, documents, parses, queue, dlq, owner, limbo>>
  BY DEF rows, broker
<1>2. LimboInv'
  BY <1>1, LimboKept
<1>3. Advance(w, "retry") \/ Advance(w, "mark")
  BY FailAdvances DEF SyncInv
<1>4. "retry" \in PCs /\ "mark" \in PCs
  BY DEF PCs
<1>5. CASE Advance(w, "retry")
  BY <1>1, <1>2, <1>4, <1>5, QuietKeeps
<1>6. CASE Advance(w, "mark")
  BY <1>1, <1>2, <1>4, <1>6, QuietKeeps
<1> QED
  BY <1>3, <1>5, <1>6

LEMMA GotoKeeps ==
    ASSUME SyncInv, NEW w \in Workers, NEW l \in PCs, Advance(w, l), l # "dlq",
           l = "commit" /\ worker[w].version = source.version => HandedOff(source.version),
           UNCHANGED <<rows, copies, broker>>
    PROVE  SyncInv'
<1>1. UNCHANGED <<source, outbox, copies, documents, parses, queue, dlq, owner, limbo>>
  BY DEF rows, broker
<1>2. LimboInv'
  BY <1>1, LimboKept
<1> QED
  BY <1>1, <1>2, QuietKeeps

(* The transaction adds both rows of the version, or finds them.           *)
LEMMA PersistFacts ==
    ASSUME SyncInv, NEW w \in Workers, ~At(w, "idle"), worker[w].version = source.version,
           PersistRows(w)
    PROVE  /\ SourceTyped' /\ source'.version = source.version
           /\ HandInv' /\ HandedOff(source.version)'
           /\ \A v \in Versions : HandedOff(v) => HandedOff(v)'
<1> DEFINE v == worker[w].version
           c == worker[w].content
<1>1. v \in Versions /\ c \in Contents \cup {None}
  BY DEF SyncInv, SyncType, AheadInv, WorkerStates
<1>2. documents' = [documents EXCEPT ![v] = IF @ = <<>> THEN <<c>> ELSE @]
      /\ parses' = [parses EXCEPT ![v] = IF @ = <<>> THEN <<c>> ELSE @]
  BY DEF PersistRows
<1>3. documents \in [Versions -> Seq(Contents \cup {None})]
      /\ parses \in [Versions -> Seq(Contents \cup {None})]
      /\ \A x \in Versions : Len(documents[x]) <= 1 /\ parses[x] = documents[x]
  BY DEF SyncInv, HandInv, OneHandoffPerVersion
<1>4. SourceTyped' /\ source'.version = source.version
  <2>1. source' = [type |-> source.type, version |-> source.version, status |-> "syncing"]
    BY Zenon DEF PersistRows, SyncInv, SyncType, SourceTyped
  <2> QED
    BY <2>1 DEF SyncInv, SyncType, SourceTyped
<1> HIDE DEF v, c
<1>5. <<c>> \in Seq(Contents \cup {None}) /\ Len(<<c>>) = 1 /\ <<c>> # <<>>
  BY <1>1, Singleton, Zenon
<1>6. \A x \in Versions : x # v => documents'[x] = documents[x] /\ parses'[x] = parses[x]
  BY <1>2, <1>3
<1>7. /\ documents'[v] = IF documents[v] = <<>> THEN <<c>> ELSE documents[v]
      /\ parses'[v] = documents'[v]
  BY <1>1, <1>2, <1>3
<1>8. documents'[v] \in Seq(Contents \cup {None}) /\ Len(documents'[v]) <= 1 /\ documents'[v] # <<>>
  <2>1. CASE documents[v] = <<>>
    <3>1. documents'[v] = <<c>>
      BY <1>7, <2>1
    <3> QED
      BY <1>5, <3>1
  <2>2. CASE documents[v] # <<>>
    <3>1. documents'[v] = documents[v]
      BY <1>7, <2>2
    <3> QED
      BY <1>1, <1>3, <2>2, <3>1
  <2> QED
    BY <2>1, <2>2
<1>9. HandInv'
  <2>1. documents' \in [Versions -> Seq(Contents \cup {None})]
        /\ parses' \in [Versions -> Seq(Contents \cup {None})]
    BY <1>1, <1>2, <1>3, <1>5, Zenon
  <2>2. \A x \in Versions : Len(documents'[x]) <= 1 /\ parses'[x] = documents'[x]
    BY <1>3, <1>6, <1>7, <1>8, Zenon
  <2> QED
    BY <2>1, <2>2 DEF HandInv, OneHandoffPerVersion
<1>10. \A x \in Versions : HandedOff(x) => HandedOff(x)'
  BY <1>6, <1>7, <1>8 DEF HandedOff
<1>11. v = source.version
  BY DEF v
<1>12. HandedOff(source.version)'
  BY <1>4, <1>7, <1>8, <1>11, Zenon DEF HandedOff
<1> QED
  BY <1>4, <1>9, <1>10, <1>12

LEMMA PersistKeeps ==
    ASSUME SyncInv, NEW w \in Workers, persist_document_and_parse_event(w) PROVE SyncInv'
<1>0. ~At(w, "idle") /\ SyncType
  BY DEF persist_document_and_parse_event, At, SyncInv
<1>1. UNCHANGED <<copies, broker>> /\ UNCHANGED <<copies, queue, dlq, owner, limbo>>
  BY Zenon DEF persist_document_and_parse_event, broker
<1>2. CASE worker[w].version < source.version /\ Finish(w, "commit") /\ UNCHANGED rows
  <2>1. Advance(w, "commit") /\ "commit" \in PCs
    BY <1>0, <1>2, FinishAdvances DEF PCs
  <2>2. worker[w].version # source.version
    BY <1>2, VersionsTyped
  <2> QED
    BY <1>1, <1>2, <2>1, <2>2, GotoKeeps
<1>3. CASE FailTo(w, FALSE) /\ UNCHANGED rows
  BY <1>0, <1>1, <1>3, FailKeeps, Zenon
<1>4. CASE worker[w].version = source.version /\ PersistRows(w)
           /\ (Finish(w, "commit") \/ FailTo(w, TRUE))
  <2>1. /\ SourceTyped' /\ source'.version = source.version
        /\ HandInv' /\ HandedOff(source.version)'
        /\ \A v \in Versions : HandedOff(v) => HandedOff(v)'
    BY <1>0, <1>4, PersistFacts, Zenon
  <2>2. PICK l \in PCs : Advance(w, l) /\ l # "idle"
    BY <1>0, <1>4, FinishAdvances, FailAdvances, Zenon DEF PCs
  <2>3. UNCHANGED outbox
    BY <1>4 DEF PersistRows
  <2>4. LimboInv'
    BY <1>1, <2>1, Zenon DEF SyncInv, AheadInv, LimboInv
  <2> QED
    BY <1>1, <2>1, <2>2, <2>3, <2>4, HandlerKeeps, Zenon
<1> QED
  BY <1>2, <1>3, <1>4, Zenon DEF persist_document_and_parse_event

LEMMA SyncStepKeeps == ASSUME SyncInv, NEW w \in Workers, SyncStep(w) PROVE SyncInv'
<1>0. SyncType
  BY DEF SyncInv
<1>1. CASE load_source(w)
  <2>0. ~At(w, "idle") /\ UNCHANGED <<rows, copies, broker>>
    BY <1>1 DEF load_source, Stay, At
  <2>1. CASE worker[w].version < source.version /\ Finish(w, "commit")
    <3>1. Advance(w, "commit") /\ "commit" \in PCs
      BY <1>0, <2>0, <2>1, FinishAdvances DEF PCs
    <3>2. worker[w].version # source.version
      BY <2>1, VersionsTyped
    <3> QED
      BY <2>0, <3>1, <3>2, GotoKeeps
  <2>2. CASE FailTo(w, FALSE)
    BY <2>0, <2>2, FailKeeps, Zenon
  <2>3. CASE worker' = [worker EXCEPT ![w].pc = "handoff"]
    <3>1. Advance(w, "handoff") /\ "handoff" \in PCs
      BY <1>0, <2>0, <2>3, GotoAdvances, Zenon DEF PCs
    <3> QED
      BY <2>0, <3>1, GotoKeeps
  <2> QED
    BY <1>1, <2>1, <2>2, <2>3, Zenon DEF load_source
<1>2. CASE completed_handoff_exists(w)
  <2>0. ~At(w, "idle") /\ UNCHANGED <<rows, copies, broker>>
    BY <1>2 DEF completed_handoff_exists, Stay, At
  <2>1. CASE HandedOff(worker[w].version) /\ Finish(w, "commit")
    <3>1. Advance(w, "commit") /\ "commit" \in PCs
      BY <1>0, <2>0, <2>1, FinishAdvances DEF PCs
    <3>2. worker[w].version = source.version => HandedOff(source.version)
      BY <2>1 DEF HandedOff
    <3> QED
      BY <2>0, <3>1, <3>2, GotoKeeps
  <2>2. CASE worker' = [worker EXCEPT ![w].pc = "fetch"]
    <3>1. Advance(w, "fetch") /\ "fetch" \in PCs
      BY <1>0, <2>0, <2>2, GotoAdvances, Zenon DEF PCs
    <3> QED
      BY <2>0, <3>1, GotoKeeps
  <2> QED
    BY <1>2, <2>1, <2>2 DEF completed_handoff_exists
<1>3. CASE fetch_content(w)
  <2>0. ~At(w, "idle") /\ UNCHANGED <<rows, copies, broker>>
    BY <1>3 DEF fetch_content, Stay, At
  <2>1. CASE \E b \in BOOLEAN : FailTo(w, b)
    BY <2>0, <2>1, FailKeeps
  <2>2. CASE \E c \in Contents, l \in {"put", "persist"} :
                worker' = [worker EXCEPT ![w].pc = l, ![w].content = c]
    <3>1. PICK c \in Contents, l \in {"put", "persist"} :
                worker' = [worker EXCEPT ![w].pc = l, ![w].content = c]
      BY <2>2, Zenon
    <3>2. l \in PCs /\ l \notin {"idle", "dlq", "commit"}
      BY DEF PCs
    <3>3. Advance(w, l)
      BY <1>0, <2>0, <3>1, <3>2, ContentAdvances, Zenon
    <3> QED
      BY <2>0, <3>2, <3>3, GotoKeeps
  <2>3. Fetchable \subseteq Contents
    BY SyncAssumption DEF Fetchable
  <2> QED
    BY <1>3, <2>1, <2>2, <2>3, Zenon DEF fetch_content
<1>4. CASE put_bytes(w)
  <2>1. Advance(w, "persist") /\ "persist" \in PCs
    BY <1>0, <1>4, GotoAdvances, Zenon DEF put_bytes, PCs, At
  <2> QED
    BY <1>4, <2>1, GotoKeeps DEF put_bytes
<1>5. CASE put_raises(w)
  BY <1>5, FailKeeps, Zenon DEF put_raises, At
<1>6. CASE persist_document_and_parse_event(w)
  BY <1>6, PersistKeeps
<1>7. CASE DatabaseUnavailable(w)
  BY <1>7, FailKeeps, Zenon DEF DatabaseUnavailable, Stay, At
<1> QED
  BY <1>1, <1>2, <1>3, <1>4, <1>5, <1>6, <1>7 DEF SyncStep

-----------------------------------------------------------------------------
(* The failure update touches only the status, and only of its version.    *)
LEMMA FailureFacts ==
    ASSUME SyncInv, NEW w \in Workers, FailureRow(w)
    PROVE  /\ SourceTyped' /\ source'.version = source.version
           /\ source.status = "failed" => source'.status = "failed"
           /\ worker[w].version = source.version => source'.status = "failed"
<1>1. source \in [type : SourceTypes, version : 0..MaxVersion,
                  status : {"pending", "syncing", "failed"}]
  BY DEF SyncInv, SyncType, SourceTyped
<1>2. CASE source.version = worker[w].version
  <2>1. source' = [type |-> source.type, version |-> source.version, status |-> "failed"]
    BY <1>1, <1>2 DEF FailureRow
  <2> QED
    BY <1>1, <2>1 DEF SourceTyped
<1>3. CASE source.version # worker[w].version
  BY <1>1, <1>3 DEF FailureRow, SourceTyped
<1> QED
  BY <1>2, <1>3

LEMMA MarkKeeps ==
    ASSUME SyncInv, NEW w \in Workers, NEW l \in PCs, Advance(w, l), l # "commit",
           FailureRow(w), UNCHANGED <<outbox, documents, parses, copies, broker>>
    PROVE  SyncInv'
<1>1. UNCHANGED <<outbox, copies, documents, parses, queue, dlq, owner, limbo>>
  BY DEF broker
<1>2. /\ SourceTyped' /\ source'.version = source.version
      /\ source.status = "failed" => source'.status = "failed"
      /\ worker[w].version = source.version => source'.status = "failed"
  BY FailureFacts, Zenon
<1>3. HandInv' /\ \A v \in Versions : HandedOff(v) => HandedOff(v)'
  BY <1>1 DEF SyncInv, HandInv, OneHandoffPerVersion, HandedOff
<1>4. LimboInv'
  BY <1>1, <1>2 DEF SyncInv, AheadInv, LimboInv
<1> QED
  BY <1>1, <1>2, <1>3, <1>4, HandlerKeeps

LEMMA MarkRaisesKeeps == ASSUME SyncInv, NEW w \in Workers, MarkRaises(w) PROVE SyncInv'
<1>1. ~At(w, "idle") /\ SyncType
  BY DEF MarkRaises, At, SyncInv
<1>2. PICK l \in PCs : Advance(w, l) /\ l \in {"retry", "idle"}
  BY <1>1, FinishAdvances, RewindAdvances, Zenon DEF MarkRaises, PCs
<1>3. CASE UNCHANGED source
  BY <1>2, <1>3, GotoKeeps DEF MarkRaises, rows
<1>4. CASE FailureRow(w)
  BY <1>2, <1>4, MarkKeeps, Zenon DEF MarkRaises
<1> QED
  BY <1>3, <1>4 DEF MarkRaises

LEMMA PublishRetryKeeps == ASSUME SyncInv, NEW w \in Workers, publish_retry(w) PROVE SyncInv'
<1>1. ~At(w, "idle") /\ SyncType
  BY DEF publish_retry, At, SyncInv
<1>2. Advance(w, "commit")
  BY <1>1, FinishAdvances DEF publish_retry, PCs
<1>3. NextAttempt(w) \in Records /\ NextAttempt(w).version = worker[w].version
      /\ worker[w].version <= source.version
  BY <1>1, PublishedRecord, Zenon
<1>4. queue' = [queue EXCEPT !["retry"] = Append(@, NextAttempt(w))]
      /\ UNCHANGED <<source, outbox, documents, parses, copies, dlq, owner, limbo>>
  BY DEF publish_retry, rows
<1>5. LimboInv'
  BY <1>4, LimboKept
<1>6. copies' \in [Versions -> Nat]
  BY <1>1, <1>4 DEF SyncType
<1> QED
  BY <1>2, <1>3, <1>4, <1>5, <1>6, AppendKeeps, Zenon

LEMMA PublishDlqKeeps == ASSUME SyncInv, NEW w \in Workers, publish_dlq(w) PROVE SyncInv'
<1>1. ~At(w, "idle") /\ SyncType
  BY DEF publish_dlq, At, SyncInv
<1>2. Advance(w, "commit") /\ "commit" \in PCs
  BY <1>1, FinishAdvances DEF publish_dlq, PCs
<1>3. UNCHANGED <<source, outbox, documents, parses, copies, queue, owner, limbo>>
      /\ dlq' = dlq \cup {worker[w].version}
  BY DEF publish_dlq, rows
<1>4. LimboInv'
  BY <1>3, LimboKept
<1>5. SourceTyped' /\ HandInv'
  BY <1>3, Zenon DEF SyncInv, SyncType, SourceTyped, HandInv, OneHandoffPerVersion
<1>6. \A v : HandedOff(v)' <=> HandedOff(v)
  BY <1>3 DEF HandedOff
<1>7. HandedOff(source.version)' <=> HandedOff(source.version)
  BY <1>3 DEF HandedOff
<1>8. worker[w].version = source.version => source.status = "failed" \/ HandedOff(source.version)
  BY DEF publish_dlq, SyncInv, MarkInv
<1> QED
  BY <1>2, <1>3, <1>4, <1>5, <1>6, <1>7, <1>8, HandlerKeeps

(* An unacknowledged record is the handler's own.                          *)
LEMMA RewindKeeps ==
    ASSUME SyncInv, NEW w \in Workers, ~At(w, "idle"), Rewind(w),
           UNCHANGED <<rows, copies, queue, dlq, owner>>,
           \A e \in limbo' : e \in limbo \/ e[2] = NextAttempt(w) \/ e[2] = DeadLetter(w)
    PROVE  SyncInv'
<1>1. UNCHANGED <<source, outbox, copies, documents, parses, queue, dlq, owner>>
  BY DEF rows
<1>2. Advance(w, "idle") /\ "idle" \in PCs
  BY RewindAdvances DEF SyncInv, PCs
<1>3. LimboInv'
  <2> SUFFICES ASSUME NEW e \in limbo'
               PROVE  e[2] \in Records /\ e[2].version <= source.version
    BY <1>1, Zenon DEF LimboInv
  <2>1. CASE e \in limbo
    BY <2>1, Zenon DEF SyncInv, AheadInv, LimboInv
  <2>2. CASE e[2] = NextAttempt(w) \/ e[2] = DeadLetter(w)
    BY <2>2, PublishedRecord, Zenon
  <2> QED
    BY <2>1, <2>2, Zenon
<1> QED
  BY <1>1, <1>2, <1>3, QuietKeeps, Zenon

(* A commit removes only the head its owner has dealt with.                *)
LEMMA CommitKeeps == ASSUME SyncInv, NEW w \in Workers, commit(w) PROVE SyncInv'
<1>0. ~At(w, "idle") /\ SyncType /\ Rewind(w) /\ worker[w].pc = "commit"
  BY DEF commit, At, SyncInv
<1>a. PICK t \in Topics : t = worker[w].topic
  BY <1>0 DEF SyncType, WorkerStates
<1>1. UNCHANGED <<source, outbox, copies, documents, parses, dlq, owner, limbo>>
  BY DEF commit, rows
<1>2. CASE owner[t] # w
  BY <1>0, <1>a, <1>2, RewindKeeps DEF commit
<1>3. CASE owner[t] = w
  <2>0. queue[t] \in Seq(Records) /\ Len(queue[t]) \in Nat /\ Len(queue[t]) > 0
    <3>1. queue[t] \in Seq(Records) /\ Len(queue[t]) \in Nat
      BY <1>0 DEF SyncType
    <3>2. Len(queue[t]) > 0
      BY <1>0, <1>a, <1>3 DEF SyncInv, HeadInv
    <3> QED
      BY <3>1, <3>2
  <2>1. queue' = [queue EXCEPT ![t] = Tail(@)]
    BY <1>a, <1>3 DEF commit
  <2>2. Tail(queue[t]) \in Seq(Records) /\ Len(Tail(queue[t])) = Len(queue[t]) - 1
        /\ \A i \in 1..(Len(queue[t]) - 1) : Tail(queue[t])[i] = queue[t][i + 1]
    BY <2>0, TailFacts
  <2>3. queue'[t] = Tail(queue[t]) /\ \A u \in Topics : u # t => queue'[u] = queue[u]
    BY <1>0, <2>0, <2>1 DEF SyncType
  <2>4. queue' \in [Topics -> Seq(Records)]
    BY <1>0, <2>0, <2>1, <2>2 DEF SyncType
  <2>5. worker' \in [Workers -> WorkerStates] /\ worker'[w].pc = "idle"
        /\ \A x \in Workers : x # w => worker'[x] = worker[x]
    BY <1>0, RewindAdvances DEF Advance
  <2>6. SyncType' /\ HandInv'
    BY <1>1, <2>4, <2>5 DEF SyncInv, SyncType, SourceTyped, HandInv, OneHandoffPerVersion
  <2>7. AheadInv'
    <3>1. \A u \in Topics : \A i \in 1..Len(queue'[u]) : queue'[u][i].version <= source.version
      <4> SUFFICES ASSUME NEW u \in Topics, NEW i \in 1..Len(queue'[u])
                   PROVE  queue'[u][i].version <= source.version
        OBVIOUS
      <4>1. CASE u = t
        <5>1. i \in 1..(Len(queue[t]) - 1) /\ queue'[u][i] = Tail(queue[t])[i]
          BY <2>2, <2>3, <4>1, Zenon
        <5>2. i + 1 \in 1..Len(queue[t]) /\ queue'[u][i] = queue[t][i + 1]
          BY <2>0, <2>2, <5>1
        <5> QED
          BY <2>0, <5>2, Zenon DEF SyncInv, AheadInv
      <4>2. CASE u # t
        BY <2>3, <4>2 DEF SyncInv, AheadInv
      <4> QED
        BY <4>1, <4>2
    <3>2. \A x \in Workers : worker'[x].pc # "idle" => worker'[x].version \in Versions
                                                     /\ worker'[x].version <= source.version
      BY <2>5 DEF SyncInv, AheadInv, At
    <3> QED
      BY <1>1, <3>1, <3>2, Zenon DEF SyncInv, AheadInv, LimboInv, At
  <2>8. HeadInv'
    <3> SUFFICES ASSUME NEW u \in Topics, worker'[owner[u]].pc # "idle", worker'[owner[u]].topic = u
                 PROVE  Len(queue'[u]) > 0 /\ queue'[u][1].version = worker'[owner[u]].version
      BY <1>1 DEF HeadInv, At
    <3>1. owner[u] \in Workers /\ owner[u] # w
      BY <1>0, <2>5 DEF SyncType
    <3>2. u # t
      BY <1>3, <3>1
    <3> QED
      BY <2>3, <2>5, <3>1, <3>2, Zenon DEF SyncInv, HeadInv, At
  <2>9. MarkInv'
    BY <1>1, <2>5 DEF SyncInv, MarkInv, At, HandedOff
  <2>10. Accounted'
    <3> SUFFICES ASSUME source.version > 0,
                        ~(outbox[source.version] = "pending" /\ copies[source.version] = 0),
                        ~HandedOff(source.version),
                        ~(source.status = "failed" /\ source.version \in dlq)
                 PROVE  Remains(source.version)'
      BY <1>1, Zenon DEF Accounted, HandedOff, Remains, Taken, At
    <3>1. PICK u \in Topics : \E i \in 1..Len(queue[u]) :
                 queue[u][i].version = source.version /\ ~(i = 1 /\ Taken(u))
      BY Zenon DEF SyncInv, Accounted, Remains
    <3>2. PICK i \in 1..Len(queue[u]) :
                 queue[u][i].version = source.version /\ ~(i = 1 /\ Taken(u))
      BY <3>1
    <3>3. CASE u = t
      <4>1. Taken(t)
        BY <1>0, <1>a, <1>3 DEF Taken, At
      <4>2. Len(queue[t]) \in Nat /\ i \in 2..Len(queue[t])
        BY <2>0, <3>2, <3>3, <4>1
      <4>3. i - 1 \in 1..(Len(queue[t]) - 1) /\ (i - 1) + 1 = i
        BY <4>2
      <4>4. i - 1 \in 1..Len(queue'[t]) /\ queue'[t][i - 1] = queue[t][i]
        BY <2>2, <2>3, <4>3
      <4>5. ~Taken(t)'
        BY <1>1, <1>3, <2>5 DEF Taken, At
      <4> QED
        BY <1>1, <2>0, <3>2, <3>3, <4>4, <4>5 DEF Remains, Taken, At
    <3>4. CASE u # t
      <4>1. Taken(u)' => Taken(u)
        BY <1>0, <1>1, <2>5 DEF Taken, At, SyncType
      <4> QED
        BY <1>1, <2>3, <3>2, <3>4, <4>1, Zenon DEF Remains, Taken, At
    <3> QED
      BY <3>3, <3>4
  <2> QED
    BY <2>6, <2>7, <2>8, <2>9, <2>10 DEF SyncInv
<1> QED
  BY <1>2, <1>3

(* Only consumers that hold no record are assigned partitions.             *)
LEMMA RebalanceKeeps == SyncInv /\ Rebalance => SyncInv'
<1> SUFFICES ASSUME SyncInv, Rebalance PROVE SyncInv'
  OBVIOUS
<1>1. UNCHANGED <<source, outbox, copies, documents, parses, queue, dlq, limbo, worker>>
  BY DEF Rebalance, rows
<1>2. owner' \in [Topics -> Workers] /\ \A t \in Topics : worker[owner'[t]].pc = "idle"
  BY DEF Rebalance, At
<1>3. SyncType' /\ HandInv'
  BY <1>1, <1>2 DEF SyncInv, SyncType, SourceTyped, HandInv, OneHandoffPerVersion
<1>4. AheadInv' /\ MarkInv'
  BY <1>1 DEF SyncInv, AheadInv, LimboInv, MarkInv, At, HandedOff
<1>5. HeadInv'
  BY <1>1, <1>2 DEF HeadInv, At
<1>6. \A t \in Topics : ~Taken(t)'
  BY <1>1, <1>2 DEF Taken, At
<1>7. Remains(source.version) => Remains(source.version)'
  BY <1>1, <1>6 DEF Remains
<1>8. Accounted'
  BY <1>1, <1>7, Zenon DEF SyncInv, Accounted, HandedOff, Remains, Taken, At
<1> QED
  BY <1>3, <1>4, <1>5, <1>8 DEF SyncInv

(* A step that leaves everything the invariant reads as it is, but for the *)
(* loss or arrival of dead letters.                                        *)
LEMMA DeadLetterKeeps ==
    ASSUME SyncInv, UNCHANGED <<rows, copies, queue, owner, worker>>,
           dlq \subseteq dlq', limbo' \subseteq limbo
    PROVE  SyncInv'
<1>1. UNCHANGED <<source, outbox, copies, documents, parses, queue, owner, worker>>
  BY DEF rows
<1>2. SyncType' /\ HandInv'
  BY <1>1 DEF SyncInv, SyncType, SourceTyped, HandInv, OneHandoffPerVersion
<1>3. AheadInv' /\ MarkInv' /\ HeadInv'
  BY <1>1, Zenon DEF SyncInv, AheadInv, LimboInv, MarkInv, HeadInv, At, HandedOff
<1>4. Accounted'
  BY <1>1, Zenon DEF SyncInv, Accounted, HandedOff, Remains, Taken, At
<1> QED
  BY <1>2, <1>3, <1>4 DEF SyncInv

LEMMA LateRecordKeeps ==
    ASSUME SyncInv, NEW entry \in limbo, LateRecord(entry[1], entry[2]) PROVE SyncInv'
<1> DEFINE r == entry[2]
<1>1. r \in Records /\ r.version <= source.version
  BY DEF SyncInv, AheadInv, LimboInv
<1>2. UNCHANGED <<rows, copies, owner, worker>> /\ limbo' \subseteq limbo
  BY DEF LateRecord
<1>3. CASE UNCHANGED queue /\ dlq \subseteq dlq'
  BY <1>2, <1>3, DeadLetterKeeps
<1>4. CASE queue' = [queue EXCEPT !["retry"] = Append(@, r)] /\ UNCHANGED dlq
  <2>1. UNCHANGED <<source, outbox, documents, parses, copies, owner, worker>>
    BY <1>2 DEF rows
  <2>2. LimboInv'
    BY <1>2, <2>1 DEF SyncInv, AheadInv, LimboInv
  <2>3. copies' \in [Versions -> Nat]
    BY <2>1 DEF SyncInv, SyncType
  <2> QED
    BY <1>1, <1>4, <2>1, <2>2, <2>3, AppendKeeps, Zenon
<1> QED
  BY <1>3, <1>4 DEF LateRecord

LEMMA NextKeeps == SyncInv /\ [Next]_vars => SyncInv'
<1> SUFFICES ASSUME SyncInv, [Next]_vars PROVE SyncInv'
  OBVIOUS
<1>1. CASE UNCHANGED vars
  BY <1>1, DeadLetterKeeps DEF vars, broker
<1>2. CASE start_source_sync
  BY <1>2, StartKeeps
<1>3. CASE Rebalance
  BY <1>3, RebalanceKeeps
<1>4. CASE Quiescent
  BY <1>1, <1>4 DEF Quiescent
<1>5. CASE \E v \in Versions : Deliver(v) \/ Settle(v)
  BY <1>5, DeliverKeeps, SettleKeeps
<1>6. ASSUME NEW w \in Workers, NEW t \in Topics, poll(w, t) PROVE SyncInv'
  BY <1>6, PollKeeps
<1>7. ASSUME NEW w \in Workers, HandlerStep(w) PROVE SyncInv'
  <2>1. CASE SyncStep(w)
    BY <2>1, SyncStepKeeps
  <2>2. CASE MarkFailed(w)
    <3>1. Advance(w, "dlq") /\ "dlq" \in PCs
      BY <2>2, FinishAdvances DEF MarkFailed, At, PCs, SyncInv
    <3> QED
      BY <2>2, <3>1, MarkKeeps DEF MarkFailed
  <2>3. CASE MarkRaises(w)
    BY <2>3, MarkRaisesKeeps
  <2>4. CASE publish_retry(w)
    BY <2>4, PublishRetryKeeps
  <2>5. CASE publish_dlq(w)
    BY <2>5, PublishDlqKeeps
  <2>6. CASE PublishRaises(w)
    <3>1. \A e \in limbo' : e \in limbo \/ e[2] = NextAttempt(w) \/ e[2] = DeadLetter(w)
      BY <2>6 DEF PublishRaises, Unacknowledged
    <3> QED
      BY <2>6, <3>1, RewindKeeps DEF PublishRaises, At
  <2>7. CASE commit(w)
    BY <2>7, CommitKeeps
  <2> QED
    BY <1>7, <2>1, <2>2, <2>3, <2>4, <2>5, <2>6, <2>7 DEF HandlerStep
<1>8. ASSUME NEW w \in Workers, Crash(w) PROVE SyncInv'
  <2>1. \A e \in limbo' : e \in limbo \/ e[2] = NextAttempt(w) \/ e[2] = DeadLetter(w)
    BY <1>8 DEF Crash, Unacknowledged
  <2> QED
    BY <1>8, <2>1, RewindKeeps DEF Crash
<1>9. CASE \E put \in latePut : PutLands(put[1], put[2])
  BY <1>9, DeadLetterKeeps DEF PutLands, broker
<1>10. CASE \E entry \in limbo : LateRecord(entry[1], entry[2])
  BY <1>10, LateRecordKeeps
<1> QED
  BY <1>1, <1>2, <1>3, <1>4, <1>5, <1>6, <1>7, <1>8, <1>9, <1>10 DEF Next

-----------------------------------------------------------------------------
(* The last requested version is never silently dropped, for any number of *)
(* workers, copies, retries, crashes and rebalances: commits of the        *)
(* consumer never remove the only record that stands for it.               *)
THEOREM NeverLost == Spec => []SyncNeverLost
<1>1. SyncInv => SyncNeverLost
  <2>1. ASSUME SyncInv, Remains(source.version) PROVE Unconsumed(source.version)
    <3>1. \A t \in Topics : DOMAIN queue[t] = 1..Len(queue[t])
      BY <2>1 DEF SyncInv, SyncType
    <3> QED
      BY <2>1, <3>1 DEF Remains, Unconsumed
  <2> QED
    BY <2>1 DEF SyncInv, Accounted, SyncNeverLost
<1> QED
  BY <1>1, InitKeeps, NextKeeps, PTL DEF Spec

(* Duplicate and concurrent deliveries of persist_document_and_parse_event *)
(* leave at most one document and one parse event per version, together.   *)
THEOREM OneHandoff == Spec => []OneHandoffPerVersion
<1>1. SyncInv => OneHandoffPerVersion
  BY DEF SyncInv, HandInv
<1> QED
  BY <1>1, InitKeeps, NextKeeps, PTL DEF Spec

-----------------------------------------------------------------------------
(* Failures are current.  A version is sent once the outbox delivered a    *)
(* copy of its command.                                                    *)
Sent(v) == copies[v] > 0

(* Whatever is queued, worked on, in limbo or marked failed was sent.      *)
SentInv ==
    /\ \A t \in Topics : \A i \in 1..Len(queue[t]) : Sent(queue[t][i].version)
    /\ \A w \in Workers : ~At(w, "idle") => Sent(worker[w].version)
    /\ \A e \in limbo : Sent(e[2].version)
    /\ source.status = "failed" => source.version \in Versions /\ Sent(source.version)

(* What a step of w's handler may do with versions: go on or stop, publish *)
(* its own, and mark its own as failed.                                    *)
OwnVersion(w) ==
    /\ UNCHANGED copies
    /\ ~At(w, "idle") /\ \E l \in PCs : Advance(w, l)
    /\ \A t \in Topics : \A i \in 1..Len(queue'[t]) :
          \/ queue'[t][i].version = worker[w].version
          \/ \E j \in 1..Len(queue[t]) : queue'[t][i] = queue[t][j]
    /\ \A e \in limbo' : e \in limbo \/ e[2].version = worker[w].version
    /\ source'.version = source.version
    /\ source'.status = "failed" => source.status = "failed" \/ worker[w].version = source.version

LEMMA OwnVersionSent == ASSUME SyncInv, SentInv, NEW w \in Workers, OwnVersion(w) PROVE SentInv'
<1>1. PICK s \in Versions : s = worker[w].version /\ Sent(s)
  BY Zenon DEF SentInv, OwnVersion, SyncInv, AheadInv
<1>2. \A v : Sent(v)' <=> Sent(v)
  BY DEF OwnVersion, Sent
<1>3. \A t \in Topics : \A i \in 1..Len(queue'[t]) : Sent(queue'[t][i].version)
  BY <1>1, Zenon DEF SentInv, OwnVersion
<1>4. \A x \in Workers : worker'[x].pc # "idle" => Sent(worker'[x].version)
  BY <1>1, Zenon DEF SentInv, OwnVersion, Advance, At
<1>5. \A e \in limbo' : Sent(e[2].version)
  BY <1>1, Zenon DEF SentInv, OwnVersion
<1>6. source'.status = "failed" => source'.version \in Versions /\ Sent(source'.version)
  BY <1>1 DEF SentInv, OwnVersion
<1>7. copies' = copies
  BY DEF OwnVersion
<1> QED
  BY <1>3, <1>4, <1>5, <1>6, <1>7 DEF SentInv, Sent, At

(* A handler that leaves the topics, limbo and copies alone.               *)
LEMMA RowsOwn ==
    ASSUME NEW w \in Workers, NEW l \in PCs, Advance(w, l), UNCHANGED <<copies, queue, limbo>>,
           source'.version = source.version,
           source'.status = "failed" => source.status = "failed" \/ worker[w].version = source.version
    PROVE  OwnVersion(w)
<1>1. \A t \in Topics : \A i \in 1..Len(queue'[t]) : \E j \in 1..Len(queue[t]) : queue'[t][i] = queue[t][j]
  OBVIOUS
<1> QED
  BY <1>1, Zenon DEF OwnVersion, Advance

(* Steps of the job.                                                       *)
LEMMA SyncStepOwn == ASSUME SyncInv, NEW w \in Workers, SyncStep(w) PROVE OwnVersion(w)
<1>0. SyncType
  BY DEF SyncInv
<1>1. ~At(w, "idle") /\ UNCHANGED <<copies, queue, limbo>>
  BY Zenon DEF SyncStep, load_source, completed_handoff_exists, fetch_content, put_bytes, put_raises,
         persist_document_and_parse_event, DatabaseUnavailable, Stay, At, broker
<1>2. \E l \in PCs : Advance(w, l)
  <2>1. CASE \E b \in BOOLEAN : FailTo(w, b)
    BY <1>0, <1>1, <2>1, FailAdvances DEF PCs
  <2>2. CASE \E l \in PCs \ {"idle"} : Finish(w, l) \/ worker' = [worker EXCEPT ![w].pc = l]
    BY <1>0, <1>1, <2>2, FinishAdvances, GotoAdvances
  <2>3. CASE \E c \in Contents, l \in {"put", "persist"} :
                worker' = [worker EXCEPT ![w].pc = l, ![w].content = c]
    BY <1>0, <1>1, <2>3, ContentAdvances, Zenon DEF PCs
  <2>4. CASE load_source(w)
    BY <2>1, <2>2, <2>4, Zenon DEF load_source, PCs
  <2>5. CASE completed_handoff_exists(w)
    BY <2>2, <2>5 DEF completed_handoff_exists, PCs
  <2>6. CASE fetch_content(w)
    <3>1. Fetchable \subseteq Contents
      BY SyncAssumption DEF Fetchable
    <3> QED
      BY <2>1, <2>3, <2>6, <3>1, Zenon DEF fetch_content
  <2>7. CASE put_bytes(w) \/ put_raises(w)
    BY <2>1, <2>2, <2>7, Zenon DEF put_bytes, put_raises, PCs
  <2>8. CASE persist_document_and_parse_event(w)
    BY <2>1, <2>2, <2>8, Zenon DEF persist_document_and_parse_event, PCs
  <2>9. CASE DatabaseUnavailable(w)
    BY <2>1, <2>9, Zenon DEF DatabaseUnavailable
  <2> QED
    BY <2>4, <2>5, <2>6, <2>7, <2>8, <2>9 DEF SyncStep
<1>3. source'.version = source.version /\ (source'.status = "failed" => source.status = "failed")
  <2>1. CASE source' = source
    BY <2>1
  <2>2. CASE source' = [source EXCEPT !.status = "syncing"]
    BY <1>0, <2>2 DEF SyncType, SourceTyped
  <2> QED
    BY <2>1, <2>2, Zenon DEF SyncStep, load_source, completed_handoff_exists, fetch_content, put_bytes,
         put_raises, persist_document_and_parse_event, PersistRows, DatabaseUnavailable, Stay, rows
<1> QED
  BY <1>1, <1>2, <1>3, RowsOwn, Zenon

(* The failure update.                                                     *)
LEMMA FailureOwn ==
    ASSUME SyncInv, NEW w \in Workers, FailureRow(w) \/ UNCHANGED source
    PROVE  /\ source'.version = source.version
           /\ source'.status = "failed" => source.status = "failed" \/ worker[w].version = source.version
<1>1. CASE UNCHANGED source
  BY <1>1
<1>2. CASE FailureRow(w)
  <2>1. source'.version = source.version
    BY <1>2, FailureFacts
  <2>2. source.version # worker[w].version => source' = source
    BY <1>2 DEF FailureRow
  <2> QED
    BY <2>1, <2>2
<1> QED
  BY <1>1, <1>2

LEMMA MarkOwn ==
    ASSUME SyncInv, NEW w \in Workers, MarkFailed(w) \/ MarkRaises(w) \/ publish_dlq(w) PROVE OwnVersion(w)
<1>1. ~At(w, "idle") /\ SyncType
  BY DEF MarkFailed, MarkRaises, publish_dlq, At, SyncInv
<1>2. \E l \in PCs : Advance(w, l)
  <2>1. Rewind(w) => Advance(w, "idle") /\ "idle" \in PCs
    BY <1>1, RewindAdvances DEF PCs
  <2>2. \A l \in {"dlq", "retry", "commit"} : Finish(w, l) => Advance(w, l) /\ l \in PCs
    BY <1>1, FinishAdvances DEF PCs
  <2> QED
    BY <2>1, <2>2, Zenon DEF MarkFailed, MarkRaises, publish_dlq
<1>3. UNCHANGED <<copies, queue, limbo>>
  BY Zenon DEF MarkFailed, MarkRaises, publish_dlq, broker
<1>4. FailureRow(w) \/ UNCHANGED source
  BY Zenon DEF MarkFailed, MarkRaises, publish_dlq, rows
<1> QED
  BY <1>2, <1>3, <1>4, FailureOwn, RowsOwn, Zenon

LEMMA RetryOwn == ASSUME SyncInv, NEW w \in Workers, publish_retry(w) PROVE OwnVersion(w)
<1>1. ~At(w, "idle") /\ SyncType
  BY DEF publish_retry, At, SyncInv
<1>2. Advance(w, "commit") /\ "commit" \in PCs
  BY <1>1, FinishAdvances DEF publish_retry, PCs
<1>3. PICK r \in Records : r = NextAttempt(w) /\ r.version = worker[w].version
  BY <1>1, PublishedRecord
<1>4. Appended("retry", r)
  BY <1>1, <1>3, AppendFacts, Zenon DEF publish_retry
<1>5. \A t \in Topics : \A i \in 1..Len(queue'[t]) :
         \/ queue'[t][i].version = worker[w].version
         \/ \E j \in 1..Len(queue[t]) : queue'[t][i] = queue[t][j]
  BY <1>3, <1>4 DEF Appended
<1> QED
  BY <1>1, <1>2, <1>5, Zenon DEF OwnVersion, publish_retry, rows

LEMMA RewindOwn ==
    ASSUME SyncInv, NEW w \in Workers, ~At(w, "idle"), Rewind(w), UNCHANGED <<source, copies>>,
           \A e \in limbo' : e \in limbo \/ e[2] = NextAttempt(w) \/ e[2] = DeadLetter(w),
           \A t \in Topics : \A i \in 1..Len(queue'[t]) : \E j \in 1..Len(queue[t]) : queue'[t][i] = queue[t][j]
    PROVE  OwnVersion(w)
<1>1. Advance(w, "idle") /\ "idle" \in PCs
  BY RewindAdvances, Zenon DEF SyncInv, PCs
<1>2. \A e \in limbo' : e \in limbo \/ e[2].version = worker[w].version
  BY PublishedRecord, Zenon
<1> QED
  BY <1>1, <1>2, Zenon DEF OwnVersion

LEMMA CommitOwn == ASSUME SyncInv, NEW w \in Workers, commit(w) PROVE OwnVersion(w)
<1>0. ~At(w, "idle") /\ SyncType /\ Rewind(w) /\ worker[w].pc = "commit"
  BY DEF commit, At, SyncInv
<1>1. PICK t \in Topics : t = worker[w].topic
  BY <1>0 DEF SyncType, WorkerStates
<1>2. UNCHANGED <<source, copies, limbo>>
  BY DEF commit, rows
<1>3. \A u \in Topics : \A i \in 1..Len(queue'[u]) : \E j \in 1..Len(queue[u]) : queue'[u][i] = queue[u][j]
  <2>1. CASE owner[t] # w
    BY <1>1, <2>1, Zenon DEF commit
  <2>2. CASE owner[t] = w
    <3>1. queue[t] \in Seq(Records) /\ Len(queue[t]) \in Nat /\ Len(queue[t]) > 0
      BY <1>0, <1>1, <2>2 DEF SyncType, SyncInv, HeadInv
    <3>2. queue' = [queue EXCEPT ![t] = Tail(@)]
      BY <1>1, <2>2 DEF commit
    <3>3. PICK q, n : q = Tail(queue[t]) /\ n = Len(queue[t])
      BY Zenon
    <3>4. Len(q) = n - 1 /\ \A i \in 1..(n - 1) : q[i] = queue[t][i + 1]
      BY <3>1, <3>3, TailFacts
    <3>5. queue'[t] = q /\ \A u \in Topics : u # t => queue'[u] = queue[u]
      BY <1>0, <3>2, <3>3 DEF SyncType
    <3>6. ASSUME NEW i \in 1..(n - 1) PROVE i + 1 \in 1..n /\ q[i] = queue[t][i + 1]
      BY <3>1, <3>3, <3>4
    <3>7. \A i \in 1..Len(queue'[t]) : \E j \in 1..Len(queue[t]) : queue'[t][i] = queue[t][j]
      BY <3>3, <3>4, <3>5, <3>6
    <3> QED
      BY <3>5, <3>7, Zenon
  <2> QED
    BY <2>1, <2>2
<1> QED
  BY <1>0, <1>2, <1>3, RewindOwn, Zenon

LEMMA HandlerOwn ==
    ASSUME SyncInv, NEW w \in Workers, HandlerStep(w) \/ Crash(w) PROVE OwnVersion(w)
<1>1. CASE PublishRaises(w) \/ Crash(w)
  <2>1. \A e \in limbo' : e \in limbo \/ e[2] = NextAttempt(w) \/ e[2] = DeadLetter(w)
    <3>1. CASE UNCHANGED limbo
      BY <3>1
    <3>2. CASE \E t \in {"retry", "dlq"}, r \in {NextAttempt(w), DeadLetter(w)} : Unacknowledged(t, r)
      BY <3>2 DEF Unacknowledged
    <3>3. PublishRaises(w) => UNCHANGED limbo \/ Unacknowledged("retry", NextAttempt(w))
                                              \/ Unacknowledged("dlq", DeadLetter(w))
      BY Zenon DEF PublishRaises
    <3>4. Crash(w) => UNCHANGED limbo \/ Unacknowledged("retry", NextAttempt(w))
                                      \/ Unacknowledged("dlq", DeadLetter(w))
      BY DEF Crash
    <3> QED
      BY <1>1, <3>1, <3>2, <3>3, <3>4
  <2>2. ~At(w, "idle") /\ Rewind(w) /\ UNCHANGED <<source, copies, queue>>
    BY <1>1, Zenon DEF PublishRaises, Crash, At, rows
  <2>3. \A t \in Topics : \A i \in 1..Len(queue'[t]) : \E j \in 1..Len(queue[t]) : queue'[t][i] = queue[t][j]
    BY <2>2
  <2> QED
    BY <2>1, <2>2, <2>3, RewindOwn, Zenon
<1> QED
  BY <1>1, SyncStepOwn, MarkOwn, RetryOwn, CommitOwn DEF HandlerStep

(* Without a handler's step, a record enters a topic only from the outbox  *)
(* or from limbo.                                                          *)
LEMMA QueueSent ==
    ASSUME SyncInv, SentInv, NEW t \in Topics, NEW r \in Records,
           queue' = [queue EXCEPT ![t] = Append(@, r)], copies' \in [Versions -> Nat],
           \A v \in Versions : copies[v] > 0 => copies'[v] > 0, copies'[r.version] > 0,
           UNCHANGED <<source, worker>>, limbo' \subseteq limbo
    PROVE  SentInv'
<1>1. Appended(t, r)
  BY AppendFacts, Zenon DEF SyncInv
<1>2. \A u \in Topics : queue[u] \in Seq(Records)
  BY DEF SyncInv, SyncType
<1>3. ASSUME NEW u \in Topics, NEW i \in 1..Len(queue'[u]) PROVE copies'[queue'[u][i].version] > 0
  <2>1. CASE queue'[u][i] = r
    BY <2>1
  <2>2. CASE i \in 1..Len(queue[u]) /\ queue'[u][i] = queue[u][i]
    <3>1. queue[u][i] \in Records /\ Sent(queue[u][i].version)
      BY <1>2, <2>2 DEF SentInv
    <3> QED
      BY <2>2, <3>1 DEF Sent, Records
  <2> QED
    BY <1>1, <2>1, <2>2, Zenon DEF Appended
<1>4. \A w \in Workers : worker'[w].pc # "idle" => copies'[worker'[w].version] > 0
  BY Zenon DEF SentInv, Sent, SyncInv, AheadInv, At
<1>5. \A e \in limbo' : copies'[e[2].version] > 0
  BY Zenon DEF SentInv, Sent, SyncInv, AheadInv, LimboInv, Records
<1>6. source'.status = "failed" => source'.version \in Versions /\ copies'[source'.version] > 0
  BY DEF SentInv, Sent
<1> QED
  BY <1>3, <1>4, <1>5, <1>6, Zenon DEF SentInv, Sent, At

LEMMA PollSent ==
    ASSUME SyncInv, SentInv, NEW w \in Workers, NEW t \in Topics, poll(w, t) PROVE SentInv'
<1>1. UNCHANGED <<source, copies, queue, limbo>>
  BY DEF poll, Stay, rows, broker
<1>2. PICK q : q = queue[t] /\ q \in Seq(Records) /\ q # <<>>
  BY DEF poll, SyncInv, SyncType
<1>3. Len(q) \in Nat /\ Len(q) > 0 /\ Head(q) = q[1]
  BY <1>2
<1>4. Sent(Head(q).version)
  <2>1. 1 \in 1..Len(q)
    BY <1>3
  <2>2. Sent(q[1].version)
    BY <1>2, <2>1 DEF SentInv
  <2> QED
    BY <1>3, <2>2
<1>5. PICK s : s = [Idle EXCEPT !.pc = "load", !.topic = t, !.version = Head(q).version,
                                !.attempt = Head(q).attempt]
  OBVIOUS
<1>6. worker' = [worker EXCEPT ![w] = s] /\ s.version = Head(q).version
  BY <1>2, <1>5 DEF poll, Idle
<1>7. \A x \in Workers : x # w => worker'[x] = worker[x]
  BY <1>6 DEF SyncInv, SyncType
<1>8. worker'[w] = s
  BY <1>6 DEF SyncInv, SyncType
<1>9. \A x \in Workers : worker'[x].pc # "idle" => Sent(worker'[x].version)
  BY <1>4, <1>6, <1>7, <1>8 DEF SentInv, At
<1> QED
  BY <1>1, <1>9, Zenon DEF SentInv, Sent, At

LEMMA DeliverSent == ASSUME SyncInv, SentInv, NEW v \in Versions, Deliver(v) PROVE SentInv'
<1>0. Record(v, 0) \in Records /\ Record(v, 0).version = v
  BY DEF Records, Record
<1>1. PICK r \in Records : r = Record(v, 0) /\ r.version = v
  BY <1>0
<1>2. /\ queue' = [queue EXCEPT !["sync"] = Append(@, r)] /\ copies' = [copies EXCEPT ![v] = @ + 1]
      /\ UNCHANGED <<source, worker, limbo>>
  BY <1>1 DEF Deliver, rows
<1>3. copies \in [Versions -> Nat]
  BY DEF SyncInv, SyncType
<1>4. /\ copies' \in [Versions -> Nat] /\ copies'[r.version] > 0
      /\ \A x \in Versions : copies[x] > 0 => copies'[x] > 0
  BY <1>1, <1>2, <1>3
<1> QED
  BY <1>2, <1>4, QueueSent, Zenon

LEMMA LateRecordSent ==
    ASSUME SyncInv, SentInv, NEW entry \in limbo, LateRecord(entry[1], entry[2]) PROVE SentInv'
<1>1. PICK r \in Records : r = entry[2] /\ Sent(r.version)
  BY Zenon DEF SentInv, SyncInv, AheadInv, LimboInv
<1>2. UNCHANGED <<source, copies, worker>> /\ limbo' \subseteq limbo
  BY DEF LateRecord, rows
<1>3. CASE UNCHANGED queue
  BY <1>2, <1>3, Zenon DEF SentInv, Sent, At
<1>4. CASE queue' = [queue EXCEPT !["retry"] = Append(@, r)]
  BY <1>1, <1>2, <1>4, QueueSent, Zenon DEF Sent, SyncInv, SyncType
<1> QED
  BY <1>1, <1>3, <1>4 DEF LateRecord

LEMMA SentKept == SyncInv /\ SentInv /\ [Next]_vars => SentInv'
<1> SUFFICES ASSUME SyncInv, SentInv, [Next]_vars PROVE SentInv'
  OBVIOUS
<1>1. CASE UNCHANGED <<copies, queue, limbo, worker>> /\ (UNCHANGED source \/ source'.status = "syncing")
  BY <1>1, Zenon DEF SentInv, Sent, At
<1>2. CASE start_source_sync
  <2>1. source'.status = "syncing"
    BY <1>2 DEF start_source_sync, SyncInv, SyncType, SourceTyped
  <2> QED
    BY <1>1, <1>2, <2>1 DEF start_source_sync, broker
<1>3. CASE Rebalance \/ Quiescent \/ UNCHANGED vars \/ \E v \in Versions : Settle(v)
  BY <1>1, <1>3, Zenon DEF Rebalance, Quiescent, Settle, vars, rows, broker
<1>4. CASE \E put \in latePut : PutLands(put[1], put[2])
  BY <1>1, <1>4 DEF PutLands, rows, broker
<1>5. ASSUME NEW w \in Workers, HandlerStep(w) \/ Crash(w) PROVE SentInv'
  BY <1>5, HandlerOwn, OwnVersionSent
<1> QED
  BY <1>2, <1>3, <1>4, <1>5, DeliverSent, PollSent, LateRecordSent DEF Next

(* A failed source failed at its current version, for any number of        *)
(* workers, copies and retries: the failure update of MarkFailed compares  *)
(* sync_version, and no worker holds a version the outbox has not sent.    *)
THEOREM FailuresAreCurrent == Spec => []FailureIsCurrent
<1>1. Init => SentInv
  BY DEF Init, SentInv, Idle, At
<1>2. SentInv => FailureIsCurrent
  BY DEF SentInv, Sent, FailureIsCurrent
<1> QED
  BY <1>1, <1>2, InitKeeps, NextKeeps, SentKept, PTL DEF Spec

-----------------------------------------------------------------------------
(* The raw object.  With one worker and no PUT that lands late, what the   *)
(* worker is about to put agrees with the document, if there is one, and   *)
(* what it is about to persist is what it has put.                         *)
Agrees(v, c) == documents[v] = <<>> \/ Head(documents[v]) = c

RawInv ==
    /\ latePut = {} /\ raw \in [Versions -> Contents \cup {None}]
    /\ source.type = "url" =>
          /\ \A v \in Versions : Agrees(v, raw[v])
          /\ \A w \in Workers : At(w, "put") => Agrees(worker[w].version, worker[w].content)
          /\ \A w \in Workers : At(w, "persist") => raw[worker[w].version] = worker[w].content

Alone == (\A x, y \in Workers : x = y) /\ ~LatePuts

(* A document's only hash is its first.                                    *)
LEMMA HeadOne == \A c : Head(<<c>>) = c
OBVIOUS

(* A step that writes neither documents nor objects, and leads no worker   *)
(* to a PUT or to the persistence.                                         *)
LEMMA RawUntouched ==
    ASSUME RawInv, UNCHANGED <<documents, raw, latePut>>, source'.type = source.type,
           \A w \in Workers : worker'[w] = worker[w] \/ worker'[w].pc \notin {"put", "persist"}
    PROVE  RawInv'
<1>1. \A v, c : Agrees(v, c)' <=> Agrees(v, c)
  BY DEF Agrees
<1>2. \A w \in Workers : worker'[w].pc \in {"put", "persist"} => worker'[w] = worker[w]
  OBVIOUS
<1>3. source.type = "url" =>
         /\ \A v \in Versions : Agrees(v, raw[v])
         /\ \A w \in Workers : worker'[w].pc = "put" => Agrees(worker'[w].version, worker'[w].content)
         /\ \A w \in Workers : worker'[w].pc = "persist" => raw[worker'[w].version] = worker'[w].content
  BY <1>2, Zenon DEF RawInv, At
<1> QED
  BY <1>3, Zenon DEF RawInv, At, Agrees

(* A handler that goes on elsewhere.                                       *)
LEMMA RawElsewhere ==
    ASSUME RawInv, NEW w \in Workers, NEW l \in PCs, Advance(w, l), l \notin {"put", "persist"},
           UNCHANGED <<documents, raw, latePut>>, source'.type = source.type
    PROVE  RawInv'
BY RawUntouched, Zenon DEF Advance

(* The object of v becomes c, the bytes of the only worker, which goes on  *)
(* to persist them or elsewhere.                                           *)
LEMMA RawPut ==
    ASSUME Alone, SyncInv, RawInv, NEW w \in Workers, At(w, "put"), NEW l \in PCs, Advance(w, l), l # "put",
           raw' = [raw EXCEPT ![worker[w].version] = worker[w].content],
           l = "persist" => worker'[w].content = worker[w].content,
           UNCHANGED <<source, documents, latePut>>
    PROVE  RawInv'
<1>1. PICK v, c : v = worker[w].version /\ c = worker[w].content
  OBVIOUS
<1>2. v \in Versions /\ c \in Contents \cup {None}
  BY <1>1, Zenon DEF SyncInv, SyncType, AheadInv, WorkerStates, At
<1>3. raw' \in [Versions -> Contents \cup {None}] /\ raw'[v] = c /\ \A x \in Versions : x # v => raw'[x] = raw[x]
  BY <1>1, <1>2, Zenon DEF RawInv
<1>4. \A x \in Workers : x = w
  BY DEF Alone
<1>5. worker'[w].pc = l /\ (l = "persist" => worker'[w].version = v /\ worker'[w].content = c)
  BY <1>1, Zenon DEF Advance
<1>6. CASE source.type = "url"
  <2>1. Agrees(v, c)
    BY <1>1, <1>6, Zenon DEF RawInv
  <2>2. \A x \in Versions : Agrees(x, raw'[x])
    BY <1>3, <1>6, <2>1, Zenon DEF RawInv
  <2>3. \A x \in Versions : Agrees(x, raw[x])'
    BY <2>2, Zenon DEF Agrees
  <2>4. \A x \in Workers : worker'[x].pc = "persist" => raw'[worker'[x].version] = worker'[x].content
    BY <1>3, <1>4, <1>5, Zenon
  <2>5. \A x \in Workers : worker'[x].pc # "put"
    BY <1>4, <1>5, Zenon
  <2> QED
    BY <1>3, <2>3, <2>4, <2>5, Zenon DEF RawInv, At
<1>7. CASE source.type # "url"
  BY <1>3, <1>7, Zenon DEF RawInv
<1> QED
  BY <1>6, <1>7, Zenon

(* A fetch goes on with bytes that agree with the document it found.       *)
LEMMA RawFetch ==
    ASSUME Alone, SyncInv, RawInv, NEW w \in Workers, ~At(w, "idle"), NEW c \in Contents,
           documents[worker[w].version] = <<>> \/ Head(documents[worker[w].version]) = c,
           worker' = [worker EXCEPT ![w].pc = IF source.type = "url" THEN "put" ELSE "persist",
                                    ![w].content = c],
           UNCHANGED <<source, documents, raw, latePut>>
    PROVE  RawInv'
<1>1. PICK v, l : v = worker[w].version /\ l = IF source.type = "url" THEN "put" ELSE "persist"
  OBVIOUS
<1>2. worker \in [Workers -> WorkerStates]
  BY DEF SyncInv, SyncType
<1>3. worker'[w].pc = l /\ worker'[w].content = c /\ worker'[w].version = v
  BY <1>1, <1>2 DEF WorkerStates
<1>4. \A x \in Workers : x = w
  BY DEF Alone
<1>5. Agrees(v, c)
  BY <1>1 DEF Agrees
<1>6. CASE source.type = "url"
  <2>1. \A x \in Workers : worker'[x].pc = "put" /\ Agrees(worker'[x].version, worker'[x].content)
    BY <1>1, <1>3, <1>4, <1>5, <1>6, Zenon
  <2>2. \A x \in Versions : Agrees(x, raw[x])
    BY <1>6 DEF RawInv
  <2> QED
    BY <2>1, <2>2, Zenon DEF RawInv, At, Agrees
<1>7. CASE source.type # "url"
  BY <1>7 DEF RawInv
<1> QED
  BY <1>6, <1>7

(* The document is created from the bytes that were put, or is there.      *)
LEMMA RawPersist ==
    ASSUME Alone, SyncInv, RawInv, NEW w \in Workers, At(w, "persist"), PersistRows(w),
           Agrees(worker[w].version, worker[w].content), NEW l \in PCs, Advance(w, l),
           l \notin {"put", "persist"}, UNCHANGED <<raw, latePut>>
    PROVE  RawInv'
<1>1. PICK v, c : v = worker[w].version /\ c = worker[w].content
  OBVIOUS
<1>2. v \in Versions /\ documents \in [Versions -> Seq(Contents \cup {None})]
  BY <1>1, Zenon DEF SyncInv, SyncType, AheadInv, HandInv, At
<1>3. documents' = [documents EXCEPT ![v] = IF @ = <<>> THEN <<c>> ELSE @]
  BY <1>1 DEF PersistRows
<1>4. /\ documents'[v] = <<c>> \/ documents'[v] = documents[v]
      /\ \A x \in Versions : x # v => documents'[x] = documents[x]
  BY <1>2, <1>3
<1>5. source'.type = source.type
  BY DEF PersistRows, SyncInv, SyncType, SourceTyped
<1>6. \A x \in Workers : worker'[x].pc \notin {"put", "persist"}
  BY Zenon DEF Alone, Advance
<1>7. CASE source.type = "url"
  <2>1. raw[v] = c /\ Agrees(v, raw[v])
    BY <1>1, <1>2, <1>7, Zenon DEF RawInv
  <2>2. Agrees(v, raw[v])'
    <3>1. CASE documents'[v] = <<c>>
      BY <2>1, <3>1, HeadOne, Zenon DEF Agrees
    <3>2. CASE documents'[v] = documents[v]
      BY <2>1, <3>2 DEF Agrees
    <3> QED
      BY <1>4, <3>1, <3>2, Zenon
  <2>3. \A x \in Versions : x # v => Agrees(x, raw[x])'
    BY <1>4, <1>7, Zenon DEF RawInv, Agrees
  <2> QED
    BY <1>6, <2>2, <2>3, Zenon DEF RawInv, At
<1>8. CASE source.type # "url"
  BY <1>5, <1>8, Zenon DEF RawInv
<1> QED
  BY <1>7, <1>8

LEMMA RawFail ==
    ASSUME SyncInv, RawInv, NEW w \in Workers, ~At(w, "idle"), NEW b \in BOOLEAN, FailTo(w, b),
           UNCHANGED <<documents, raw, latePut>>, source'.type = source.type
    PROVE  RawInv'
<1>1. PICK l \in PCs : Advance(w, l) /\ l \in {"retry", "mark"}
  BY FailAdvances DEF SyncInv, PCs
<1> QED
  BY <1>1, RawElsewhere, Zenon

LEMMA RawSyncStep == ASSUME Alone, SyncInv, RawInv, NEW w \in Workers, SyncStep(w) PROVE RawInv'
<1>0. SyncType
  BY DEF SyncInv
<1>1. CASE load_source(w) \/ completed_handoff_exists(w) \/ DatabaseUnavailable(w)
  <2>1. ~At(w, "idle") /\ UNCHANGED <<source, documents, raw, latePut>>
    BY <1>1, Zenon DEF load_source, completed_handoff_exists, DatabaseUnavailable, Stay, At, rows, store
  <2>2. CASE \E b \in BOOLEAN : FailTo(w, b)
    BY <2>1, <2>2, RawFail
  <2>3. CASE \E l \in {"commit", "handoff", "fetch"} : Finish(w, l) \/ worker' = [worker EXCEPT ![w].pc = l]
    <3>1. PICK l \in PCs : Advance(w, l) /\ l \in {"commit", "handoff", "fetch"}
      BY <1>0, <2>1, <2>3, FinishAdvances, GotoAdvances DEF PCs
    <3> QED
      BY <2>1, <3>1, RawElsewhere
  <2> QED
    BY <1>1, <2>2, <2>3, Zenon DEF load_source, completed_handoff_exists, DatabaseUnavailable
<1>2. CASE fetch_content(w)
  <2>1. ~At(w, "idle") /\ UNCHANGED <<source, documents, raw, latePut>>
    BY <1>2 DEF fetch_content, Stay, At, rows, store
  <2>2. CASE \E b \in BOOLEAN : FailTo(w, b)
    BY <2>1, <2>2, RawFail
  <2>3. CASE \E c \in Contents :
                /\ documents[worker[w].version] = <<>> \/ Head(documents[worker[w].version]) = c
                /\ worker' = [worker EXCEPT ![w].pc = IF source.type = "url" THEN "put" ELSE "persist",
                                            ![w].content = c]
    BY <2>1, <2>3, RawFetch, Zenon
  <2>4. Fetchable \subseteq Contents
    BY SyncAssumption DEF Fetchable
  <2> QED
    BY <1>2, <2>2, <2>3, <2>4, Zenon DEF fetch_content
<1>3. CASE put_bytes(w)
  <2>1. Advance(w, "persist") /\ "persist" \in PCs
    BY <1>0, <1>3, GotoAdvances, Zenon DEF put_bytes, PCs, At
  <2>2. worker'[w].content = worker[w].content
    BY <1>0, <1>3 DEF put_bytes, SyncType, WorkerStates
  <2> QED
    BY <1>3, <2>1, <2>2, RawPut, Zenon DEF put_bytes, rows
<1>4. CASE put_raises(w)
  <2>1. /\ At(w, "put") /\ ~At(w, "idle") /\ FailTo(w, TRUE) /\ UNCHANGED <<source, documents, latePut>>
        /\ UNCHANGED raw \/ raw' = [raw EXCEPT ![worker[w].version] = worker[w].content]
    BY <1>4, Zenon DEF put_raises, Alone, At, rows, store
  <2>2. CASE UNCHANGED raw
    BY <2>1, <2>2, RawFail, Zenon
  <2>3. CASE raw' = [raw EXCEPT ![worker[w].version] = worker[w].content]
    <3>1. PICK l \in PCs : Advance(w, l) /\ l \in {"retry", "mark"}
      BY <1>0, <2>1, FailAdvances, Zenon DEF PCs
    <3> QED
      BY <2>1, <2>3, <3>1, RawPut, Zenon
  <2> QED
    BY <2>1, <2>2, <2>3
<1>5. CASE persist_document_and_parse_event(w)
  <2>1. At(w, "persist") /\ ~At(w, "idle") /\ UNCHANGED <<raw, latePut>>
    BY <1>5, Zenon DEF persist_document_and_parse_event, At, store
  <2>2. PICK l \in PCs : Advance(w, l) /\ l \in {"commit", "retry", "mark"}
    BY <1>0, <1>5, <2>1, FinishAdvances, FailAdvances, Zenon DEF persist_document_and_parse_event, PCs
  <2>3. CASE UNCHANGED rows
    BY <2>1, <2>2, <2>3, RawElsewhere DEF rows
  <2>4. CASE PersistRows(w) /\ Agrees(worker[w].version, worker[w].content)
    BY <2>1, <2>2, <2>4, RawPersist
  <2> QED
    BY <1>5, <2>3, <2>4, Zenon DEF persist_document_and_parse_event, Agrees
<1> QED
  BY <1>1, <1>2, <1>3, <1>4, <1>5 DEF SyncStep

LEMMA RawHandler ==
    ASSUME Alone, SyncInv, RawInv, NEW w \in Workers, HandlerStep(w) \/ Crash(w) PROVE RawInv'
<1>1. CASE SyncStep(w)
  BY <1>1, RawSyncStep
<1>2. CASE MarkFailed(w) \/ MarkRaises(w) \/ publish_retry(w) \/ publish_dlq(w) \/ PublishRaises(w)
           \/ commit(w) \/ Crash(w)
  <2>1. ~At(w, "idle") /\ UNCHANGED <<documents, raw, latePut>>
    BY <1>2, Zenon DEF MarkFailed, MarkRaises, publish_retry, publish_dlq, PublishRaises, commit, Crash, At,
                rows, store, Alone
  <2>2. source'.type = source.type
    <3>1. CASE FailureRow(w)
      BY <3>1 DEF FailureRow, SyncInv, SyncType, SourceTyped
    <3>2. CASE UNCHANGED source
      BY <3>2
    <3> QED
      BY <1>2, <3>1, <3>2, Zenon DEF MarkFailed, MarkRaises, publish_retry, publish_dlq, PublishRaises, commit,
                              Crash, rows
  <2>3. PICK l \in PCs : Advance(w, l) /\ l \in {"retry", "dlq", "commit", "idle"}
    BY <1>2, <2>1, FinishAdvances, RewindAdvances, Zenon
       DEF MarkFailed, MarkRaises, publish_retry, publish_dlq, PublishRaises, commit, Crash, PCs, SyncInv
  <2> QED
    BY <2>1, <2>2, <2>3, RawElsewhere
<1> QED
  BY <1>1, <1>2 DEF HandlerStep

LEMMA RawKept == Alone /\ SyncInv /\ RawInv /\ [Next]_vars => RawInv'
<1> SUFFICES ASSUME Alone, SyncInv, RawInv, [Next]_vars PROVE RawInv'
  OBVIOUS
<1>1. CASE UNCHANGED <<documents, raw, latePut, worker>> /\ source'.type = source.type
  BY <1>1, RawUntouched
<1>2. CASE start_source_sync
  <2>1. source'.type = source.type
    BY <1>2 DEF start_source_sync, SyncInv, SyncType, SourceTyped
  <2> QED
    BY <1>1, <1>2, <2>1 DEF start_source_sync, store
<1>3. CASE Rebalance \/ Quiescent \/ UNCHANGED vars \/ \E v \in Versions : Deliver(v) \/ Settle(v)
  BY <1>1, <1>3, Zenon DEF Rebalance, Quiescent, Deliver, Settle, vars, rows, store
<1>4. CASE \E entry \in limbo : LateRecord(entry[1], entry[2])
  BY <1>1, <1>4 DEF LateRecord, rows, store
<1>5. ~\E put \in latePut : PutLands(put[1], put[2])
  BY Zenon DEF RawInv
<1>6. ASSUME NEW w \in Workers, NEW t \in Topics, poll(w, t) PROVE RawInv'
  <2>1. UNCHANGED <<source, documents, raw, latePut>>
    BY <1>6 DEF poll, Stay, rows, store
  <2>a. PICK r, s : /\ r = Head(queue[t])
                    /\ s = [Idle EXCEPT !.pc = "load", !.topic = t, !.version = r.version,
                                        !.attempt = r.attempt]
    BY Zenon
  <2>2. worker' = [worker EXCEPT ![w] = s] /\ s.pc = "load"
    BY <1>6, <2>a DEF poll, Idle
  <2>3. \A x \in Workers : worker'[x] = worker[x] \/ worker'[x].pc \notin {"put", "persist"}
    BY <2>2 DEF SyncInv, SyncType
  <2> QED
    BY <2>1, <2>3, RawUntouched
<1>7. ASSUME NEW w \in Workers, HandlerStep(w) \/ Crash(w) PROVE RawInv'
  BY <1>7, RawHandler
<1> QED
  BY <1>2, <1>3, <1>4, <1>5, <1>6, <1>7 DEF Next

(* With one worker and PUTs that end with their call, the raw object of a  *)
(* handed-off version holds the bytes its document records, through any    *)
(* number of crashes, retries, failed PUTs and unacknowledged commits.     *)
(* Both hypotheses are needed: two workers may overwrite each other's PUT. *)
THEOREM RawStaysExact == Alone => (Spec => []RawMatchesDocument)
<1> SUFFICES ASSUME Alone PROVE Spec => []RawMatchesDocument
  OBVIOUS
<1>1. Init => RawInv
  BY DEF Init, RawInv, Agrees, Idle, At
<1>2. RawInv => RawMatchesDocument
  BY DEF RawInv, Agrees, RawMatchesDocument
<1>3. SyncInv /\ RawInv /\ [Next]_vars => RawInv'
  BY RawKept
<1> QED
  BY <1>1, <1>2, <1>3, InitKeeps, NextKeeps, PTL DEF Spec

=============================================================================
