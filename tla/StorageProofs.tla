---------------------------- MODULE StorageProofs ----------------------------
(* Theorems about StateStore and about AuditLog, for any updates, commands,   *)
(* files and events, and any number of ticks, stops, torn lines and restarts. *)
EXTENDS StateStore, AuditLog, FiniteSetTheorems, FunctionTheorems,
        WellFoundedInduction, TLAPS

-----------------------------------------------------------------------------
(* StateStore.                                                              *)

Contents == (SUBSET Update) \cup {Torn}
Sizes == {SizeOf(content) : content \in Contents}
Steps == {Nothing}
           \cup [step : {"change", "fill"}, u : Update, content : SUBSET Update]
           \cup [step : {"load"}, mtime : Nat, size : Sizes]

TypeOK ==
    /\ disk \in [content : Contents, mtime : Nat, size : Sizes]
    /\ cached \in {Nothing} \cup [content : Contents, mtime : Nat, size : Sizes]
    /\ doing \in [Process -> Steps]
    /\ clock \in Nat

\* Writing in the tick of the last write adds to what is recent; a write in a
\* later tick sets the file apart from every copy and every look before it.
Recent ==
    /\ disk.content \in recent
    /\ disk.mtime <= clock
    /\ cached # Nothing => /\ cached.mtime <= disk.mtime
                           /\ cached.mtime = disk.mtime => cached.content \in recent
    /\ Doing(Server, "load") => doing[Server].mtime <= disk.mtime

Updating(p) == Doing(p, "change") \/ Doing(p, "fill")

\* What a process is about to write lacks only updates that overlapped.
Held ==
    \A p \in Process : Updating(p) =>
        /\ doing[p].u \in doing[p].content
        /\ applied \ doing[p].content \subseteq overlapped

IInv == TypeOK /\ Recent /\ Held /\ LostByOverlapOnly /\ ListsCurrent

-----------------------------------------------------------------------------
LEMMA StepFact ==
    ASSUME TypeOK, NEW p \in Process
    PROVE  /\ Updating(p) =>
                 /\ doing[p].step \in {"change", "fill"}
                 /\ doing[p].u \in Update /\ doing[p].content \subseteq Update
           /\ Doing(p, "load") => doing[p].mtime \in Nat /\ doing[p].size \in Sizes
<1>1. doing[p] \in Steps
  BY DEF TypeOK
<1>2. QED
  BY <1>1 DEF Steps, Updating, Doing, Idle

LEMMA InitInv == StateInit => IInv
<1> SUFFICES ASSUME StateInit PROVE IInv
  OBVIOUS
<1>1. {} \in Contents /\ SizeOf({}) \in Sizes
  BY DEF Contents, Sizes
<1>2. TypeOK
  BY <1>1 DEF StateInit, TypeOK, Steps
<1>3. Recent /\ Held
  BY DEF StateInit, Recent, Held, Updating, Doing, Idle, Process
<1>4. LostByOverlapOnly /\ ListsCurrent
  BY DEF StateInit, LostByOverlapOnly, ListsCurrent
<1>5. QED
  BY <1>2, <1>3, <1>4 DEF IInv

\* What a write does to the file and to what is recent.
LEMMA WriteFact ==
    ASSUME IInv, NEW content \in Contents, Write(content), UNCHANGED <<cached, clock>>
    PROVE  /\ disk' \in [content : Contents, mtime : Nat, size : Sizes]
           /\ disk'.content = content
           /\ disk'.mtime = clock
           /\ content \in recent'
           /\ disk.mtime <= disk'.mtime
           /\ cached # Nothing => /\ cached.mtime <= disk'.mtime
                                  /\ cached.mtime = disk'.mtime => cached.content \in recent'
<1>1. disk' = [content |-> content, mtime |-> clock, size |-> SizeOf(content)]
  BY DEF Write
<1>2. SizeOf(content) \in Sizes /\ clock \in Nat
  BY DEF Sizes, IInv, TypeOK
<1>3. disk' \in [content : Contents, mtime : Nat, size : Sizes]
      /\ disk'.content = content /\ disk'.mtime = clock
  BY <1>1, <1>2
<1>4. recent' = IF disk.mtime = clock THEN recent \cup {content} ELSE {content}
  BY DEF Write
<1>5. disk.mtime <= clock /\ disk.mtime \in Nat
  BY DEF IInv, Recent, TypeOK
<1>6. ASSUME cached # Nothing
      PROVE  /\ cached.mtime <= disk'.mtime
             /\ cached.mtime = disk'.mtime => cached.content \in recent'
  <2>1. /\ cached.mtime \in Nat /\ cached.mtime <= disk.mtime
        /\ cached.mtime = disk.mtime => cached.content \in recent
    BY <1>6 DEF IInv, Recent, TypeOK
  <2>2. QED
    BY <1>2, <1>3, <1>4, <1>5, <2>1
<1>7. QED
  BY <1>3, <1>4, <1>5, <1>6

LEMMA BeginUpdateInv ==
    ASSUME IInv, NEW p \in Process, NEW u \in Update, BeginUpdate(p, u)
    PROVE  IInv'
<1> DEFINE step == [step |-> "change", u |-> u, content |-> disk.content \cup {u}]
<1>1. /\ disk.content # Torn
      /\ doing' = [doing EXCEPT ![p] = step]
      /\ UNCHANGED <<disk, cached, clock, files, listed, applied, overlapped, recent>>
  BY DEF BeginUpdate, ReadForUpdate
<1>2. disk.content \in SUBSET Update
  BY <1>1 DEF IInv, TypeOK, Contents
<1>3. step \in Steps
  BY <1>2 DEF Steps
<1>4. TypeOK'
  BY <1>1, <1>3 DEF IInv, TypeOK
<1>5. /\ doing'[p] = step
      /\ \A q \in Process : q # p => doing'[q] = doing[q]
  BY <1>1 DEF IInv, TypeOK
<1>6. Recent'
  BY <1>1, <1>5 DEF IInv, Recent, Doing, Idle, Process
<1>7. applied \ disk.content \subseteq overlapped
  BY <1>1 DEF IInv, LostByOverlapOnly
<1>8. Held'
  <2>1. ASSUME NEW q \in Process, Updating(q)'
        PROVE  /\ doing'[q].u \in doing'[q].content
               /\ applied' \ doing'[q].content \subseteq overlapped'
    <3>1. CASE q = p
      BY <1>1, <1>5, <1>7, <3>1
    <3>2. CASE q # p
      BY <1>1, <1>5, <2>1, <3>2 DEF IInv, Held, Updating, Doing, Idle
    <3>3. QED
      BY <3>1, <3>2
  <2>2. QED
    BY <2>1 DEF Held
<1>9. LostByOverlapOnly' /\ ListsCurrent'
  BY <1>1 DEF IInv, LostByOverlapOnly, ListsCurrent
<1>10. QED
  BY <1>4, <1>6, <1>8, <1>9 DEF IInv

LEMMA EmptyInv ==
    ASSUME IInv, NEW p \in Process, Empty(p)
    PROVE  IInv'
<1> DEFINE step == [doing[p] EXCEPT !.step = "fill"]
<1>1. /\ Doing(p, "change") /\ Write(Torn)
      /\ doing' = [doing EXCEPT ![p] = step]
      /\ UNCHANGED <<cached, clock, files, listed, applied, overlapped>>
  BY DEF Empty
<1>2. doing[p] \in [step : {"change", "fill"}, u : Update, content : SUBSET Update]
  BY <1>1 DEF IInv, TypeOK, Steps, Doing, Idle
<1>3. step \in Steps /\ step.step = "fill" /\ step.u = doing[p].u
      /\ step.content = doing[p].content
  BY <1>2 DEF Steps
<1> HIDE DEF step
<1>4. Torn \in Contents
  BY DEF Contents
<1>5. /\ disk' \in [content : Contents, mtime : Nat, size : Sizes]
      /\ disk'.content = Torn /\ disk'.mtime = clock /\ Torn \in recent'
      /\ disk.mtime <= disk'.mtime
      /\ cached # Nothing => /\ cached.mtime <= disk'.mtime
                             /\ cached.mtime = disk'.mtime => cached.content \in recent'
  BY <1>1, <1>4, WriteFact
<1>6. TypeOK'
  BY <1>1, <1>3, <1>5 DEF IInv, TypeOK
<1>7. /\ doing'[p] = step
      /\ \A q \in Process : q # p => doing'[q] = doing[q]
  BY <1>1 DEF IInv, TypeOK
<1>8. Recent'
  <2>1. ASSUME Doing(Server, "load")'
        PROVE  doing'[Server].mtime <= disk'.mtime
    <3>1. Server # p /\ Server \in Process
      BY <1>3, <1>7, <2>1 DEF Doing, Process
    <3>2. Doing(Server, "load") /\ doing'[Server] = doing[Server]
      BY <1>7, <2>1, <3>1 DEF Doing, Idle
    <3>3. doing[Server].mtime \in Nat /\ doing[Server].mtime <= disk.mtime
          /\ disk.mtime \in Nat /\ disk'.mtime \in Nat
      BY <1>5, <3>1, <3>2, StepFact DEF IInv, Recent, TypeOK
    <3>4. QED
      BY <1>5, <3>2, <3>3
  <2>2. disk'.mtime <= clock
    BY <1>5 DEF IInv, TypeOK
  <2>3. QED
    BY <1>1, <1>5, <2>1, <2>2 DEF Recent
<1>9. Held'
  <2>1. ASSUME NEW q \in Process, Updating(q)'
        PROVE  /\ doing'[q].u \in doing'[q].content
               /\ applied' \ doing'[q].content \subseteq overlapped'
    <3>1. CASE q = p
      BY <1>1, <1>3, <1>7, <3>1 DEF IInv, Held, Updating
    <3>2. CASE q # p
      BY <1>1, <1>7, <2>1, <3>2 DEF IInv, Held, Updating, Doing, Idle
    <3>3. QED
      BY <3>1, <3>2
  <2>2. QED
    BY <2>1 DEF Held
<1>10. LostByOverlapOnly' /\ ListsCurrent'
  BY <1>1, <1>5 DEF IInv, LostByOverlapOnly, ListsCurrent
<1>11. QED
  BY <1>6, <1>8, <1>9, <1>10 DEF IInv

LEMMA FillInv ==
    ASSUME IInv, NEW p \in Process, Fill(p)
    PROVE  IInv'
<1> DEFINE u == doing[p].u
           content == doing[p].content
<1>1. /\ Doing(p, "fill") /\ Write(content)
      /\ doing' = [doing EXCEPT ![p] = Nothing]
      /\ applied' = applied \cup {u}
      /\ overlapped' = overlapped \cup UnderWay(p)
                         \cup (IF UnderWay(p) = {} THEN {} ELSE {u})
      /\ UNCHANGED <<cached, clock, files, listed>>
  BY DEF Fill
<1>2. /\ content \in SUBSET Update /\ u \in content
      /\ applied \ content \subseteq overlapped
  BY <1>1, StepFact DEF IInv, Held, Updating
<1> HIDE DEF u, content
<1>3. content \in Contents
  BY <1>2 DEF Contents
<1>4. /\ disk' \in [content : Contents, mtime : Nat, size : Sizes]
      /\ disk'.content = content /\ disk'.mtime = clock /\ content \in recent'
      /\ disk.mtime <= disk'.mtime
      /\ cached # Nothing => /\ cached.mtime <= disk'.mtime
                             /\ cached.mtime = disk'.mtime => cached.content \in recent'
  BY <1>1, <1>3, WriteFact
<1>5. TypeOK'
  BY <1>1, <1>4 DEF IInv, TypeOK, Steps
<1>6. /\ doing'[p] = Nothing
      /\ \A q \in Process : q # p => doing'[q] = doing[q]
  BY <1>1 DEF IInv, TypeOK
<1>7. Recent'
  <2>1. ASSUME Doing(Server, "load")'
        PROVE  doing'[Server].mtime <= disk'.mtime
    <3>1. Server # p /\ Server \in Process
      BY <1>6, <2>1 DEF Doing, Idle, Process
    <3>2. Doing(Server, "load") /\ doing'[Server] = doing[Server]
      BY <1>6, <2>1, <3>1 DEF Doing, Idle
    <3>3. doing[Server].mtime \in Nat /\ doing[Server].mtime <= disk.mtime
          /\ disk.mtime \in Nat /\ disk'.mtime \in Nat
      BY <1>4, <3>1, <3>2, StepFact DEF IInv, Recent, TypeOK
    <3>4. QED
      BY <1>4, <3>2, <3>3
  <2>2. disk'.mtime <= clock
    BY <1>4 DEF IInv, TypeOK
  <2>3. QED
    BY <1>1, <1>4, <2>1, <2>2 DEF Recent
<1>8. Held'
  <2>1. ASSUME NEW q \in Process, Updating(q)'
        PROVE  /\ doing'[q].u \in doing'[q].content
               /\ applied' \ doing'[q].content \subseteq overlapped'
    <3>1. q # p
      BY <1>6, <2>1 DEF Updating, Doing, Idle
    <3>2. Updating(q) /\ doing'[q] = doing[q]
      BY <1>6, <2>1, <3>1 DEF Updating, Doing, Idle
    <3>3. doing[q].u \in UnderWay(p)
      BY <3>1, <3>2 DEF UnderWay, Updating
    <3>4. u \in overlapped' /\ overlapped \subseteq overlapped'
      BY <1>1, <3>3
    <3>5. doing[q].u \in doing[q].content /\ applied \ doing[q].content \subseteq overlapped
      BY <3>2 DEF IInv, Held
    <3>6. QED
      BY <1>1, <3>2, <3>4, <3>5
  <2>2. QED
    BY <2>1 DEF Held
<1>9. LostByOverlapOnly'
  BY <1>1, <1>2, <1>4 DEF LostByOverlapOnly
<1>10. ListsCurrent'
  BY <1>1 DEF IInv, ListsCurrent
<1>11. QED
  BY <1>5, <1>7, <1>8, <1>9, <1>10 DEF IInv

LEMMA LookInv ==
    ASSUME IInv, Look
    PROVE  IInv'
<1> DEFINE step == [step |-> "load", mtime |-> disk.mtime, size |-> disk.size]
<1>1. /\ doing' = [doing EXCEPT ![Server] = step]
      /\ UNCHANGED <<disk, cached, clock, files, listed, applied, overlapped, recent>>
  BY DEF Look
<1>2. step \in Steps /\ Server \in Process
  BY DEF IInv, TypeOK, Steps, Process
<1>3. TypeOK'
  BY <1>1, <1>2 DEF IInv, TypeOK
<1>4. /\ doing'[Server] = step
      /\ \A q \in Process : q # Server => doing'[q] = doing[q]
  BY <1>1, <1>2 DEF IInv, TypeOK
<1>5. Recent'
  BY <1>1, <1>4 DEF IInv, Recent, TypeOK
<1>6. Held'
  BY <1>1, <1>4 DEF IInv, Held, Updating, Doing, Idle
<1>7. LostByOverlapOnly' /\ ListsCurrent'
  BY <1>1 DEF IInv, LostByOverlapOnly, ListsCurrent
<1>8. QED
  BY <1>3, <1>5, <1>6, <1>7 DEF IInv

LEMMA LoadInv ==
    ASSUME IInv, Load
    PROVE  IInv'
<1> DEFINE copy == [content |-> disk.content, mtime |-> doing[Server].mtime,
                    size |-> doing[Server].size]
<1>1. /\ Doing(Server, "load")
      /\ cached' = IF disk.content = Torn THEN cached ELSE copy
      /\ doing' = [doing EXCEPT ![Server] = Nothing]
      /\ UNCHANGED <<disk, clock, files, listed, applied, overlapped, recent>>
  BY DEF Load
<1>2. /\ Server \in Process
      /\ doing[Server].mtime \in Nat /\ doing[Server].size \in Sizes
      /\ doing[Server].mtime <= disk.mtime
  BY <1>1, StepFact DEF IInv, Recent, Process
<1>3. copy \in [content : Contents, mtime : Nat, size : Sizes]
  BY <1>2 DEF IInv, TypeOK
<1>4. TypeOK'
  BY <1>1, <1>3 DEF IInv, TypeOK, Steps
<1>5. /\ doing'[Server] = Nothing
      /\ \A q \in Process : q # Server => doing'[q] = doing[q]
  BY <1>1, <1>2 DEF IInv, TypeOK
<1>6. Recent'
  BY <1>1, <1>2, <1>5 DEF IInv, Recent, Doing, Idle
<1>7. Held'
  BY <1>1, <1>5 DEF IInv, Held, Updating, Doing, Idle
<1>8. LostByOverlapOnly' /\ ListsCurrent'
  BY <1>1 DEF IInv, LostByOverlapOnly, ListsCurrent
<1>9. QED
  BY <1>4, <1>6, <1>7, <1>8 DEF IInv

\* The listed files: every change of them forgets the list.
LEMMA ListInv ==
    ASSUME IInv, (\E i \in Item : WriteFile(i) \/ DeleteFile(i)) \/ LoadAll
    PROVE  IInv'
<1>1. UNCHANGED <<disk, cached, doing, clock, applied, overlapped, recent>>
  BY DEF WriteFile, DeleteFile, LoadAll
<1>2. TypeOK' /\ Recent' /\ Held' /\ LostByOverlapOnly'
  BY <1>1 DEF IInv, TypeOK, Recent, Held, Updating, Doing, Idle, LostByOverlapOnly
<1>3. ListsCurrent'
  BY DEF WriteFile, DeleteFile, LoadAll, Forget, ListsCurrent
<1>4. QED
  BY <1>2, <1>3 DEF IInv

\* A process goes, and with the server its memory.
LEMMA StoppedInv ==
    ASSUME IInv, \/ \E tornFile : Stop(tornFile)
                 \/ \E p \in Command : Kill(p)
    PROVE  IInv'
<1>1. PICK p \in Process : doing' = [doing EXCEPT ![p] = Nothing]
  BY DEF Stop, Kill, Process
<1>2. /\ UNCHANGED <<disk, clock, applied, overlapped, recent>>
      /\ cached' = Nothing \/ cached' = cached
      /\ listed' = Nothing \/ (listed' = listed /\ files' = files)
  BY DEF Stop, Kill
<1>3. TypeOK'
  BY <1>1, <1>2 DEF IInv, TypeOK, Steps
<1>4. /\ doing'[p] = Nothing
      /\ \A q \in Process : q # p => doing'[q] = doing[q]
  BY <1>1 DEF IInv, TypeOK
<1>5. Recent'
  BY <1>2, <1>4 DEF IInv, Recent, Doing, Idle, Process
<1>6. Held'
  BY <1>2, <1>4 DEF IInv, Held, Updating, Doing, Idle
<1>7. LostByOverlapOnly' /\ ListsCurrent'
  BY <1>2 DEF IInv, LostByOverlapOnly, ListsCurrent
<1>8. QED
  BY <1>3, <1>5, <1>6, <1>7 DEF IInv

LEMMA TickInv ==
    ASSUME IInv, Tick \/ UNCHANGED stateVars
    PROVE  IInv'
<1>1. /\ UNCHANGED <<disk, cached, doing, files, listed, applied, overlapped, recent>>
      /\ clock' = clock + 1 \/ clock' = clock
  BY DEF Tick, stateVars
<1>2. TypeOK'
  BY <1>1 DEF IInv, TypeOK
<1>3. Recent'
  BY <1>1 DEF IInv, Recent, TypeOK, Doing, Idle
<1>4. Held' /\ LostByOverlapOnly' /\ ListsCurrent'
  BY <1>1 DEF IInv, Held, Updating, Doing, Idle, LostByOverlapOnly, ListsCurrent
<1>5. QED
  BY <1>2, <1>3, <1>4 DEF IInv

-----------------------------------------------------------------------------
\* The inductive invariant of the index, its copies and the updates under way.
THEOREM Invariance == StateSpec => []IInv
<1>1. IInv /\ [StateNext]_stateVars => IInv'
  BY BeginUpdateInv, EmptyInv, FillInv, LookInv, LoadInv, ListInv, StoppedInv, TickInv
     DEF StateNext
<1>2. QED
  BY <1>1, InitInv, PTL DEF StateSpec

\* The index that the server answers from was in state.md during the tick of the
\* file clock in which state.md was last written, whichever process wrote it and
\* whatever came between the look and the read; and a list from memory is the
\* list of the files that are there.
THEOREM CopiesAlwaysCurrent == StateSpec => []CopiesCurrent
<1>1. IInv => CopiesCurrent
  BY DEF IInv, Recent, CopiesCurrent, StaleWithinTick, Unchanged
<1>2. QED
  BY <1>1, Invariance, PTL

\* An update that was written is missing from state.md only if another process
\* was in the middle of an update of its own.
THEOREM LostAlwaysByOverlap == StateSpec => []LostByOverlapOnly
<1>1. IInv => LostByOverlapOnly
  BY DEF IInv
<1>2. QED
  BY <1>1, Invariance, PTL

-----------------------------------------------------------------------------
(* AuditLog. What follows first gives the meaning of the operators that read *)
(* bytes, as constants of a file, its events and an index; then shows that   *)
(* they keep an index right (IndexOK); last, that every step does.           *)

-----------------------------------------------------------------------------
(* Numbers in order.                                                        *)

UpTo(S, n) == {m \in S : m <= n}

\* A set of numbers that is not empty has a least one.
LEMMA SmallestOf ==
    ASSUME NEW S \in SUBSET Nat, S # {}
    PROVE  \E n \in S : \A m \in S : n <= m
<1>1. PICK n \in S : \A m \in S : ~(<<m, n>> \in OpToRel(<, Nat))
  BY NatLessThanWellFounded, WFMin
<1>2. ASSUME NEW m \in S, m < n PROVE <<m, n>> \in OpToRel(<, Nat)
  BY <1>2 DEF OpToRel
<1>3. \A m \in S : n \in Nat /\ m \in Nat /\ ~(m < n)
  BY <1>1, <1>2
<1>4. QED
  BY <1>3

LEMMA IntervalFact ==
    ASSUME NEW n \in Nat
    PROVE  IsFiniteSet(1 .. n) /\ Cardinality(1 .. n) = n
<1>1. IsFiniteSet(1 .. n) /\ Cardinality(1 .. n) = IF 1 > n THEN 0 ELSE n - 1 + 1
  BY FS_Interval
<1>2. QED
  BY <1>1

\* Ascending lists each number of a finite set once, in order, and what is not
\* above its i-th are i numbers.
LEMMA AscendingFact ==
    ASSUME NEW S \in SUBSET Nat, IsFiniteSet(S)
    PROVE  /\ Cardinality(S) \in Nat
           /\ Ascending(S) \in [1 .. Cardinality(S) -> S]
           /\ \A i, j \in 1 .. Cardinality(S) :
                 i < j => Ascending(S)[i] < Ascending(S)[j]
           /\ \A n \in S : \E i \in 1 .. Cardinality(S) : Ascending(S)[i] = n
           /\ \A i \in 1 .. Cardinality(S) :
                 Cardinality(UpTo(S, Ascending(S)[i])) = i
<1> DEFINE k == Cardinality(S)
           rank == [n \in S |-> Cardinality(UpTo(S, n))]
<1>1. k \in Nat /\ IsFiniteSet(1 .. k) /\ Cardinality(1 .. k) = k
  BY FS_CardinalityType, IntervalFact
<1>2. ASSUME NEW n \in S
      PROVE  IsFiniteSet(UpTo(S, n)) /\ rank[n] \in 1 .. k
  <2>1. UpTo(S, n) \in SUBSET S /\ n \in UpTo(S, n)
    BY DEF UpTo
  <2>2. /\ IsFiniteSet(UpTo(S, n)) /\ Cardinality(UpTo(S, n)) <= k
        /\ Cardinality(UpTo(S, n)) \in Nat
    BY <2>1, FS_Subset, FS_CardinalityType
  <2>3. Cardinality(UpTo(S, n)) # 0
    BY <2>1, <2>2, FS_EmptySet
  <2>4. QED
    BY <1>1, <2>2, <2>3
<1>3. ASSUME NEW n \in S, NEW m \in S, n < m PROVE rank[n] < rank[m]
  <2>1. UpTo(S, n) \subseteq UpTo(S, m) /\ m \in UpTo(S, m) /\ m \notin UpTo(S, n)
    <3>1. n \in Int /\ m \in Int /\ \A l \in S : l \in Int
      OBVIOUS
    <3>2. \A l \in S : l <= n => l <= m
      BY <1>3, <3>1
    <3>3. ~(m <= n) /\ m <= m
      BY <1>3, <3>1
    <3>4. QED
      BY <3>2, <3>3 DEF UpTo
  <2>2. Cardinality(UpTo(S, n)) <= Cardinality(UpTo(S, m))
        /\ Cardinality(UpTo(S, n)) # Cardinality(UpTo(S, m))
    BY <1>2, <2>1, FS_Subset, UpTo(S, n) \in SUBSET UpTo(S, m)
  <2>3. rank[n] \in Nat /\ rank[m] \in Nat
    BY <1>2, <1>1
  <2>4. QED
    BY <2>2, <2>3
<1> HIDE DEF k
<1>4. rank \in Surjection(S, 1 .. k)
  <2>1. rank \in [S -> 1 .. k]
    BY <1>2
  <2>2. \A n, m \in S : rank[n] = rank[m] => n = m
    <3>1. \A n \in S : rank[n] \in Nat /\ n \in Nat
      BY <1>1, <1>2
    <3>2. QED
      BY <1>3, <3>1
  <2>3. rank \in Injection(S, 1 .. k)
    BY <2>1, <2>2 DEF Injection, IsInjective
  <2>4. QED
    BY <1>1, <2>3, FS_Injection DEF k
<1>5. \A i \in 1 .. k : \E n \in S : rank[n] = i
  BY <1>4 DEF Surjection
<1>6. ASSUME NEW i \in 1 .. k
      PROVE  Ascending(S)[i] \in S /\ rank[Ascending(S)[i]] = i
  <2>1. Ascending(S)[i] = CHOOSE n \in S : rank[n] = i
    BY DEF Ascending, UpTo, k
  <2>2. QED
    BY <1>5, <2>1
<1>7. Ascending(S) \in [1 .. k -> S]
  <2>1. Ascending(S) = [i \in 1 .. k |-> Ascending(S)[i]]
    BY DEF Ascending, k
  <2>2. QED
    BY <1>6, <2>1
<1>8. ASSUME NEW i \in 1 .. k, NEW j \in 1 .. k, i < j
      PROVE  Ascending(S)[i] < Ascending(S)[j]
  <2> DEFINE n == Ascending(S)[i]
             m == Ascending(S)[j]
  <2>1. n \in S /\ m \in S /\ rank[n] = i /\ rank[m] = j
    BY <1>6
  <2> HIDE DEF n, m, rank
  <2>2. n \in Nat /\ m \in Nat /\ ~(m < n) /\ m # n
    BY <1>3, <1>8, <1>1, <2>1
  <2>3. QED
    BY <2>2 DEF n, m
<1>9. ASSUME NEW n \in S PROVE \E i \in 1 .. k : Ascending(S)[i] = n
  <2> DEFINE m == Ascending(S)[rank[n]]
  <2>1. m \in S /\ rank[m] = rank[n] /\ rank[n] \in 1 .. k
    BY <1>2, <1>6
  <2> HIDE DEF m, rank
  <2>2. m = n
    <3>1. m \in Nat /\ n \in Nat /\ rank[n] \in Nat
      BY <1>1, <2>1
    <3>2. QED
      BY <1>3, <2>1, <3>1
  <2>3. QED
    BY <2>1, <2>2 DEF m
<1>10. \A i \in 1 .. k : Cardinality(UpTo(S, Ascending(S)[i])) = i
  BY <1>6
<1>11. QED
  BY <1>1, <1>7, <1>8, <1>9, <1>10 DEF k

LEMMA MinFact ==
    ASSUME NEW S \in SUBSET Nat, S # {}
    PROVE  Min(S) \in S /\ \A m \in S : Min(S) <= m
BY SmallestOf DEF Min

-----------------------------------------------------------------------------
(* What is on a piece of a file f, when v are the events appended so far.   *)

Window(f, from, to) ==
    [i \in 1 .. to - from |-> IF from + i \in DOMAIN f THEN f[from + i] ELSE NoByte]

PieceIn(f, from, to) ==
    LET whole == Window(f, from, to)
        head == IF whole # <<>> /\ Head(whole) = Newline THEN Tail(whole) ELSE whole
    IN  IF head # <<>> /\ Last(head) = Newline THEN Front(head) ELSE head

ParsedBy(v, piece) ==
    IF /\ piece # <<>> /\ piece[1][1] # 0
       /\ piece = [k \in 1 .. v[piece[1][1]].size |-> <<piece[1][1], k>>]
    THEN piece[1][1] ELSE 0

On(f, v, from, to) == ParsedBy(v, PieceIn(f, from, to))

Cell == Nat \X Nat

\* Event e is the line of f at offset s.
WholeAt(f, v, e, s) ==
    /\ s + v[e].size < Len(f)
    /\ s = 0 \/ f[s] = Newline
    /\ \A k \in 1 .. v[e].size : f[s + k] = <<e, k>>
    /\ f[s + v[e].size + 1] = Newline

Before(b, c) == b[1] < c[1] \/ (b[1] = c[1] /\ b[2] < c[2])

\* The bytes of the log are bytes of its events, in their order, and the clean
\* events are lines of it.
BytesOK(f, v, whole) ==
    /\ v \in Seq(LogEvent)
    /\ f \in Seq(Cell)
    /\ \A i \in 1 .. Len(f) : f[i] # Newline => f[i][1] \in 1 .. Len(v)
    /\ \A i, j \in 1 .. Len(f) :
         i < j /\ f[i] # Newline /\ f[j] # Newline => Before(f[i], f[j])
    /\ \A e \in whole : e \in 1 .. Len(v) /\ \E s \in Nat : WholeAt(f, v, e, s)

LEMMA SubSeqFact ==
    ASSUME NEW C, NEW s \in Seq(C), NEW start \in Nat, NEW end \in Nat,
           start <= end, end <= Len(s)
    PROVE  /\ SubSeq(s, start + 1, end) \in Seq(C)
           /\ Len(SubSeq(s, start + 1, end)) = end - start
           /\ \A j \in 1 .. end - start : SubSeq(s, start + 1, end)[j] = s[start + j]
OBVIOUS

LEMMA LengthFact ==
    ASSUME NEW f, NEW v, NEW whole, BytesOK(f, v, whole)
    PROVE  Len(f) \in Nat /\ Len(v) \in Nat
<1>1. f \in Seq(Cell) /\ v \in Seq(LogEvent)
  BY DEF BytesOK
<1>2. QED
  BY <1>1

\* The bytes between two offsets, when the file reaches so far.
LEMMA WindowFact ==
    ASSUME NEW C, NEW f \in Seq(C), NEW from \in Nat, NEW to \in Nat,
           from <= to, to <= Len(f)
    PROVE  /\ Window(f, from, to) \in Seq(C) /\ Len(Window(f, from, to)) = to - from
           /\ \A i \in 1 .. to - from : Window(f, from, to)[i] = f[from + i]
<1> DEFINE whole == Window(f, from, to)
<1>1. \A i \in 1 .. to - from : from + i \in DOMAIN f /\ f[from + i] \in C
  OBVIOUS
<1>2. whole = [i \in 1 .. to - from |-> f[from + i]]
  BY <1>1 DEF Window
<1> HIDE DEF whole
<1>3. to - from \in Nat
  OBVIOUS
<1>4. /\ whole \in Seq(C) /\ Len(whole) = to - from
      /\ \A i \in 1 .. to - from : whole[i] = f[from + i]
  BY <1>1, <1>2, <1>3
<1>5. QED
  BY <1>4 DEF whole

\* A piece of the file is bytes of it that follow one another, but for at most
\* one newline in front.
LEMMA PieceFact ==
    ASSUME NEW C, NEW f \in Seq(C), NEW from \in Nat, NEW to \in Nat,
           from <= to, to <= Len(f)
    PROVE  \E d \in 0 .. 1 :
             /\ PieceIn(f, from, to) \in Seq(C)
             /\ PieceIn(f, from, to) = <<>> \/ from + d + Len(PieceIn(f, from, to)) <= to
             /\ \A i \in 1 .. Len(PieceIn(f, from, to)) :
                  PieceIn(f, from, to)[i] = f[from + d + i]
<1> DEFINE whole == Window(f, from, to)
           head == IF whole # <<>> /\ Head(whole) = Newline THEN Tail(whole) ELSE whole
           piece == PieceIn(f, from, to)
<1>1. /\ whole \in Seq(C) /\ Len(whole) = to - from
      /\ \A i \in 1 .. Len(whole) : whole[i] = f[from + i]
  <2>1. /\ whole \in Seq(C) /\ Len(whole) = to - from
        /\ \A i \in 1 .. to - from : whole[i] = f[from + i]
    BY WindowFact
  <2> HIDE DEF whole
  <2>2. QED
    BY <2>1
<1> HIDE DEF whole
<1>2. PICK d \in 0 .. 1 :
        /\ head \in Seq(C) /\ d + Len(head) = Len(whole)
        /\ \A i \in 1 .. Len(head) : head[i] = whole[d + i]
  <2>1. CASE whole # <<>> /\ Head(whole) = Newline
    BY <1>1, <2>1
  <2>2. CASE ~(whole # <<>> /\ Head(whole) = Newline)
    BY <1>1, <2>2
  <2>3. QED
    BY <2>1, <2>2
<1>3. piece = IF head # <<>> /\ Last(head) = Newline THEN Front(head) ELSE head
  BY DEF PieceIn, whole
<1> HIDE DEF head, piece
<1>4. /\ piece \in Seq(C) /\ Len(piece) <= Len(head)
      /\ \A i \in 1 .. Len(piece) : piece[i] = head[i]
  <2>1. CASE head # <<>> /\ Last(head) = Newline
    BY <1>2, <1>3, <2>1 DEF Front
  <2>2. CASE ~(head # <<>> /\ Last(head) = Newline)
    BY <1>2, <1>3, <2>2
  <2>3. QED
    BY <2>1, <2>2
<1>5. ASSUME NEW i \in 1 .. Len(piece) PROVE piece[i] = f[from + d + i]
  <2>1. /\ i \in 1 .. Len(head) /\ d + i \in 1 .. Len(whole)
        /\ from + (d + i) = from + d + i
    BY <1>2, <1>4
  <2>2. piece[i] = head[i] /\ head[i] = whole[d + i] /\ whole[d + i] = f[from + (d + i)]
    BY <1>1, <1>2, <1>4, <2>1
  <2>3. QED
    BY <2>1, <2>2
<1>6. from + d + Len(piece) <= to
  BY <1>1, <1>2, <1>4
<1>7. QED
  BY <1>4, <1>5, <1>6 DEF piece

\* What a piece parses as is an event whose first byte is in it.
LEMMA OnFact ==
    ASSUME NEW f, NEW v, NEW whole, BytesOK(f, v, whole),
           NEW from \in Nat, NEW to \in Nat, from <= to, to <= Len(f),
           On(f, v, from, to) # 0
    PROVE  /\ On(f, v, from, to) \in 1 .. Len(v)
           /\ \E i \in from + 1 .. to : f[i] = <<On(f, v, from, to), 1>>
<1> DEFINE piece == PieceIn(f, from, to)
           e == On(f, v, from, to)
<1>1. PICK d \in 0 .. 1 :
        /\ piece \in Seq(Cell)
        /\ piece = <<>> \/ from + d + Len(piece) <= to
        /\ \A i \in 1 .. Len(piece) : piece[i] = f[from + d + i]
  BY PieceFact DEF BytesOK
<1>2. /\ e = piece[1][1] /\ piece # <<>>
      /\ piece = [k \in 1 .. v[e].size |-> <<e, k>>]
  BY DEF On, ParsedBy
<1> HIDE DEF piece, e
<1>3. Len(piece) \in Nat /\ Len(piece) >= 1 /\ DOMAIN piece = 1 .. Len(piece)
  BY <1>1, <1>2
<1>4. piece[1] = <<e, 1>>
  <2>1. DOMAIN piece = 1 .. v[e].size
    BY <1>2
  <2>2. 1 \in DOMAIN piece
    BY <1>3
  <2>3. QED
    BY <1>2, <2>1, <2>2
<1>5. from + d + 1 \in from + 1 .. to /\ f[from + d + 1] = <<e, 1>>
  <2>1. 1 \in 1 .. Len(piece) /\ from + d + Len(piece) <= to
    BY <1>1, <1>2, <1>3
  <2>2. piece[1] = f[from + d + 1]
    BY <1>1, <2>1
  <2>3. from + d + 1 \in from + 1 .. to
    BY <1>3, <2>1
  <2>4. QED
    BY <1>4, <2>2, <2>3
<1>6. e \in 1 .. Len(v)
  BY <1>5 DEF BytesOK, Newline
<1>7. QED
  BY <1>5, <1>6 DEF e

\* The text of event e is in f from offset s on, with the newline after it.
TextAt(f, v, e, s) ==
    /\ s + v[e].size < Len(f)
    /\ \A k \in 1 .. v[e].size : f[s + k] = <<e, k>>
    /\ f[s + v[e].size + 1] = Newline

\* A line that is whole parses as its event.
LEMMA WholeFact ==
    ASSUME NEW f, NEW v, NEW whole, BytesOK(f, v, whole), NEW e \in 1 .. Len(v),
           NEW s \in Nat, TextAt(f, v, e, s)
    PROVE  On(f, v, s, s + v[e].size + 1) = e
<1> DEFINE z == v[e].size
           all == Window(f, s, s + z + 1)
           text == [k \in 1 .. z |-> <<e, k>>]
<1>1. z \in Nat /\ z >= 1 /\ f \in Seq(Cell) /\ s + z + 1 <= Len(f)
  <2>1. v[e] \in LogEvent /\ f \in Seq(Cell)
    BY DEF BytesOK
  <2>2. z \in Nat \ {0}
    BY <2>1 DEF LogEvent
  <2>3. QED
    BY <2>1, <2>2 DEF TextAt
<1>2. /\ \A k \in 1 .. z : f[s + k] = <<e, k>>
      /\ f[s + z + 1] = Newline
  BY DEF TextAt
<1> HIDE DEF z
<1>3. /\ all \in Seq(Cell) /\ Len(all) = z + 1
      /\ \A i \in 1 .. z + 1 : all[i] = f[s + i]
  <2> DEFINE to == s + z + 1
  <2>1. to \in Nat /\ s <= to /\ to <= Len(f) /\ to - s = z + 1
    BY <1>1
  <2> HIDE DEF to
  <2>2. /\ Window(f, s, to) \in Seq(Cell) /\ Len(Window(f, s, to)) = to - s
        /\ \A i \in 1 .. to - s : Window(f, s, to)[i] = f[s + i]
    BY <1>1, <2>1, WindowFact
  <2>3. QED
    BY <2>1, <2>2 DEF to
<1> HIDE DEF all
<1>4. all # <<>> /\ Head(all) = <<e, 1>> /\ Last(all) = Newline
  <2>1. 1 \in 1 .. z /\ 1 \in 1 .. z + 1 /\ z + 1 \in 1 .. z + 1
        /\ s + (z + 1) = s + z + 1
    BY <1>1
  <2>2. all[1] = <<e, 1>> /\ all[z + 1] = Newline
    <3>1. all[1] = f[s + 1] /\ all[z + 1] = f[s + z + 1]
      BY <1>3, <2>1
    <3>2. f[s + 1] = <<e, 1>>
      BY <1>2, <2>1
    <3>3. QED
      BY <1>2, <3>1, <3>2
  <2>3. all # <<>> /\ Head(all) = all[1]
    <3>1. Len(all) # 0
      BY <1>1, <1>3
    <3>2. QED
      BY <3>1
  <2>4. QED
    BY <1>3, <2>2, <2>3 DEF Last
<1>5. Head(all) # Newline
  BY <1>4 DEF Newline
<1>6. PieceIn(f, s, s + z + 1) = Front(all)
  BY <1>4, <1>5 DEF PieceIn, all
<1>7. Front(all) = text
  <2>1. Front(all) \in Seq(Cell) /\ Len(Front(all)) = z
        /\ \A i \in 1 .. z : Front(all)[i] = all[i]
    BY <1>1, <1>3 DEF Front
  <2>2. ASSUME NEW i \in 1 .. z PROVE Front(all)[i] = <<e, i>>
    <3>1. i \in 1 .. z + 1
      BY <1>1
    <3>2. QED
      BY <1>2, <1>3, <2>1, <3>1
  <2>3. Front(all) = [i \in 1 .. z |-> Front(all)[i]]
    BY <2>1
  <2>4. QED
    BY <2>2, <2>3
<1>8. text # <<>> /\ text[1] = <<e, 1>>
  BY <1>1
<1>9. text[1][1] = e
  BY <1>8
<1>10. ParsedBy(v, text) = e
  <2> DEFINE t == text
  <2>1. t[1][1] = e /\ e # 0 /\ t # <<>> /\ t = [k \in 1 .. v[e].size |-> <<e, k>>]
    BY <1>8, <1>9 DEF z
  <2> HIDE DEF t
  <2>2. ParsedBy(v, t) = e
    BY <2>1 DEF ParsedBy
  <2>3. QED
    BY <2>2 DEF t
<1>11. QED
  BY <1>6, <1>7, <1>10 DEF On, z

-----------------------------------------------------------------------------
(* Files that grow.                                                         *)

Extends(s, t) == Len(s) <= Len(t) /\ \A i \in 1 .. Len(s) : t[i] = s[i]

LEMMA PieceStays ==
    ASSUME NEW C, NEW f \in Seq(C), NEW g \in Seq(C), Extends(f, g),
           NEW from \in Nat, NEW to \in Nat, from <= to, to <= Len(f)
    PROVE  PieceIn(g, from, to) = PieceIn(f, from, to)
<1>1. Window(g, from, to) = Window(f, from, to)
  <2>1. \A i \in 1 .. to - from :
          from + i \in DOMAIN f /\ from + i \in DOMAIN g /\ f[from + i] = g[from + i]
    BY DEF Extends
  <2>2. QED
    BY <2>1 DEF Window
<1>2. QED
  BY <1>1 DEF PieceIn

\* Nothing is read differently after more was appended.
LEMMA OnStays ==
    ASSUME NEW f, NEW v, NEW whole, BytesOK(f, v, whole),
           NEW g \in Seq(Cell), NEW w, Extends(f, g), Extends(v, w),
           NEW from \in Nat, NEW to \in Nat, from <= to, to <= Len(f)
    PROVE  On(g, w, from, to) = On(f, v, from, to)
<1> DEFINE piece == PieceIn(f, from, to)
<1>1. PICK d \in 0 .. 1 :
        /\ piece \in Seq(Cell)
        /\ piece = <<>> \/ from + d + Len(piece) <= to
        /\ \A i \in 1 .. Len(piece) : piece[i] = f[from + d + i]
  BY PieceFact DEF BytesOK
<1>2. PieceIn(g, from, to) = piece
  BY PieceStays DEF BytesOK
<1> HIDE DEF piece
<1>3. ParsedBy(w, piece) = ParsedBy(v, piece)
  <2>1. CASE piece = <<>>
    BY <2>1 DEF ParsedBy
  <2>2. CASE piece # <<>>
    <3>1. 1 \in 1 .. Len(piece) /\ from + d + 1 \in 1 .. Len(f)
          /\ piece[1] = f[from + d + 1]
      BY <1>1, <2>2
    <3>2. CASE piece[1] # Newline
      <4>1. piece[1][1] \in 1 .. Len(v)
        BY <3>1, <3>2 DEF BytesOK
      <4>2. w[piece[1][1]] = v[piece[1][1]]
        BY <4>1 DEF Extends
      <4>3. QED
        BY <4>2 DEF ParsedBy
    <3>3. CASE piece[1] = Newline
      <4>1. ASSUME NEW n, NEW e, piece = [k \in 1 .. n |-> <<e, k>>] PROVE FALSE
        <5>1. DOMAIN piece = 1 .. n
          BY <4>1
        <5>2. 1 \in DOMAIN piece
          BY <1>1, <3>1
        <5>3. piece[1] = <<e, 1>>
          BY <4>1, <5>1, <5>2
        <5>4. QED
          BY <3>3, <5>3 DEF Newline
      <4>2. /\ piece # [k \in 1 .. v[piece[1][1]].size |-> <<piece[1][1], k>>]
            /\ piece # [k \in 1 .. w[piece[1][1]].size |-> <<piece[1][1], k>>]
        BY <4>1
      <4>3. QED
        BY <4>2 DEF ParsedBy
    <3>4. QED
      BY <3>2, <3>3
  <2>3. QED
    BY <2>1, <2>2
<1>4. QED
  BY <1>2, <1>3 DEF On, piece

\* A line that is whole stays so, and no line that was not becomes so.
LEMMA WholeStays ==
    ASSUME NEW f \in Seq(Cell), NEW v \in Seq(LogEvent), NEW g \in Seq(Cell),
           NEW w \in Seq(LogEvent), Extends(f, g), Extends(v, w),
           NEW e \in 1 .. Len(v), NEW s \in Nat
    PROVE  /\ WholeAt(f, v, e, s) => WholeAt(g, w, e, s)
           /\ WholeAt(g, w, e, s) /\ s + w[e].size < Len(f) => WholeAt(f, v, e, s)
<1> DEFINE z == v[e].size
<1>1. w[e] = v[e] /\ v[e] \in LogEvent
  BY DEF Extends
<1>2. z \in Nat /\ z >= 1 /\ w[e].size = z
  BY <1>1 DEF LogEvent
<1> HIDE DEF z
<1>3. ASSUME s + z < Len(f) PROVE WholeAt(f, v, e, s) <=> WholeAt(g, w, e, s)
  <2>1. /\ s + z < Len(g) /\ g[s + z + 1] = f[s + z + 1]
        /\ \A k \in 1 .. z : g[s + k] = f[s + k]
        /\ s # 0 => g[s] = f[s]
    <3>1. \A i \in 1 .. Len(f) : g[i] = f[i]
      BY DEF Extends
    <3>2. Len(f) \in Nat /\ Len(g) \in Nat /\ Len(f) <= Len(g)
      BY DEF Extends
    <3>3. /\ s + z + 1 \in 1 .. Len(f)
          /\ s # 0 => s \in 1 .. Len(f)
          /\ \A k \in 1 .. z : s + k \in 1 .. Len(f)
      BY <1>2, <1>3, <3>2
    <3>4. s + z < Len(g)
      BY <1>2, <1>3, <3>2
    <3>5. QED
      BY <3>1, <3>3, <3>4
  <2>2. QED
    BY <1>2, <1>3, <2>1 DEF WholeAt, z
<1>4. QED
  BY <1>2, <1>3 DEF WholeAt, z

-----------------------------------------------------------------------------
(* An index that describes a file as far as it goes.                        *)

IndexType == [offsets : Seq(Nat), fileSize : Nat, lines : [Principal -> SUBSET Nat]]

Concerns(v, e, p) == e # 0 /\ p \in Principals(v[e])

LineOn(idx, f, v, n) == On(f, v, idx.offsets[n], EndOf(idx, n))

\* Index idx describes file f as far as its own fileSize.
IndexOK(idx, f, v, whole) ==
    /\ idx \in IndexType
    /\ idx.fileSize <= Len(f)
    /\ \A n \in 1 .. Len(idx.offsets) : idx.offsets[n] < idx.fileSize
    /\ \A m, n \in 1 .. Len(idx.offsets) : m < n => idx.offsets[m] < idx.offsets[n]
    /\ \A p \in Principal :
         idx.lines[p] = {n \in 1 .. Len(idx.offsets) : Concerns(v, LineOn(idx, f, v, n), p)}
    /\ \A e \in whole, s \in Nat :
         WholeAt(f, v, e, s) /\ s < idx.fileSize =>
            \E n \in 1 .. Len(idx.offsets) :
               idx.offsets[n] = s /\ EndOf(idx, n) = s + v[e].size + 1

\* A line of a right index ends after it starts, and where the next one starts.
LEMMA EndFact ==
    ASSUME NEW idx, NEW f, NEW v, NEW whole, IndexOK(idx, f, v, whole),
           NEW n \in 1 .. Len(idx.offsets)
    PROVE  /\ idx.offsets[n] \in Nat /\ EndOf(idx, n) \in Nat
           /\ idx.offsets[n] < EndOf(idx, n)
           /\ EndOf(idx, n) <= idx.fileSize /\ idx.fileSize \in Nat
           /\ \A m \in 1 .. Len(idx.offsets) : n < m => EndOf(idx, n) <= idx.offsets[m]
<1>1. /\ idx.offsets \in Seq(Nat) /\ idx.fileSize \in Nat
      /\ Len(idx.offsets) \in Nat /\ idx.offsets[n] \in Nat
  BY DEF IndexOK, IndexType
<1>2. CASE n < Len(idx.offsets)
  <2>1. n + 1 \in 1 .. Len(idx.offsets) /\ n < n + 1 /\ EndOf(idx, n) = idx.offsets[n + 1]
    BY <1>1, <1>2 DEF EndOf
  <2>2. /\ idx.offsets[n] < idx.offsets[n + 1] /\ idx.offsets[n + 1] < idx.fileSize
        /\ idx.offsets[n + 1] \in Nat
    BY <1>1, <2>1 DEF IndexOK
  <2>3. ASSUME NEW m \in 1 .. Len(idx.offsets), n < m
        PROVE  EndOf(idx, n) <= idx.offsets[m]
    <3>1. m = n + 1 \/ n + 1 < m
      BY <1>1, <2>3
    <3>2. n + 1 < m => idx.offsets[n + 1] < idx.offsets[m]
      BY <2>1 DEF IndexOK
    <3>3. idx.offsets[m] \in Nat
      BY <1>1
    <3>4. QED
      BY <2>1, <2>2, <3>1, <3>2, <3>3
  <2>4. QED
    BY <1>1, <2>1, <2>2, <2>3
<1>3. CASE ~(n < Len(idx.offsets))
  <2>1. EndOf(idx, n) = idx.fileSize /\ idx.offsets[n] < idx.fileSize
    BY <1>3 DEF EndOf, IndexOK
  <2>2. \A m \in 1 .. Len(idx.offsets) : ~(n < m)
    BY <1>1, <1>3
  <2>3. QED
    BY <1>1, <2>1, <2>2
<1>4. QED
  BY <1>2, <1>3

\* An event is the line of one offset only.
LEMMA WholeOnce ==
    ASSUME NEW f, NEW v, NEW whole, BytesOK(f, v, whole), NEW e, NEW s \in Nat,
           NEW t \in Nat, e \in whole, WholeAt(f, v, e, s), WholeAt(f, v, e, t)
    PROVE  s = t
<1>1. v[e] \in LogEvent /\ f \in Seq(Cell)
  BY DEF BytesOK
<1>2. v[e].size \in Nat /\ v[e].size >= 1 /\ Len(f) \in Nat
  BY <1>1 DEF LogEvent
<1>3. /\ s + 1 \in 1 .. Len(f) /\ f[s + 1] = <<e, 1>>
      /\ t + 1 \in 1 .. Len(f) /\ f[t + 1] = <<e, 1>>
  <2>1. ASSUME NEW b \in Nat, WholeAt(f, v, e, b)
        PROVE  b + 1 \in 1 .. Len(f) /\ f[b + 1] = <<e, 1>>
    <3>1. b + v[e].size < Len(f) /\ \A k \in 1 .. v[e].size : f[b + k] = <<e, k>>
      BY <2>1 DEF WholeAt
    <3>2. 1 \in 1 .. v[e].size /\ b + 1 \in 1 .. Len(f)
      BY <1>2, <3>1
    <3>3. QED
      BY <3>1, <3>2
  <2>2. QED
    BY <2>1
<1>4. <<e, 1>> # Newline /\ ~Before(<<e, 1>>, <<e, 1>>)
  <2>1. e \in Nat
    BY DEF BytesOK
  <2>2. QED
    BY <2>1 DEF Newline, Before
<1>5. ~(s + 1 < t + 1) /\ ~(t + 1 < s + 1)
  BY <1>3, <1>4 DEF BytesOK
<1>6. QED
  BY <1>5

\* The log may grow under an index.
LEMMA IndexStays ==
    ASSUME NEW idx, NEW f, NEW v, NEW whole, BytesOK(f, v, whole),
           IndexOK(idx, f, v, whole),
           NEW g \in Seq(Cell), NEW w \in Seq(LogEvent), Extends(f, g), Extends(v, w),
           NEW more, \A e \in more \ whole, s \in Nat : WholeAt(g, w, e, s) => s >= Len(f),
           BytesOK(g, w, more)
    PROVE  IndexOK(idx, g, w, more)
<1> DEFINE k == Len(idx.offsets)
<1>1. /\ idx \in IndexType /\ idx.fileSize \in Nat /\ k \in Nat
      /\ Len(f) \in Nat /\ Len(g) \in Nat /\ Len(f) <= Len(g)
      /\ idx.fileSize <= Len(f)
  BY DEF IndexOK, IndexType, BytesOK, Extends
<1>2. ASSUME NEW n \in 1 .. k
      PROVE  LineOn(idx, g, w, n) = LineOn(idx, f, v, n)
  <2>1. /\ idx.offsets[n] \in Nat /\ EndOf(idx, n) \in Nat
        /\ idx.offsets[n] <= EndOf(idx, n) /\ EndOf(idx, n) <= Len(f)
    BY <1>1, EndFact
  <2>2. QED
    BY <2>1, OnStays DEF LineOn
<1>3. ASSUME NEW n \in 1 .. k, NEW p \in Principal
      PROVE  Concerns(w, LineOn(idx, g, w, n), p) <=> Concerns(v, LineOn(idx, f, v, n), p)
  <2>1. /\ idx.offsets[n] \in Nat /\ EndOf(idx, n) \in Nat
        /\ idx.offsets[n] <= EndOf(idx, n) /\ EndOf(idx, n) <= Len(f)
    BY <1>1, EndFact
  <2>2. LineOn(idx, f, v, n) # 0 => LineOn(idx, f, v, n) \in 1 .. Len(v)
    BY <2>1, OnFact DEF LineOn
  <2>3. LineOn(idx, f, v, n) # 0 => w[LineOn(idx, f, v, n)] = v[LineOn(idx, f, v, n)]
    BY <2>2 DEF Extends
  <2>4. QED
    BY <1>2, <2>3 DEF Concerns
<1>4. ASSUME NEW e \in more, NEW s \in Nat, WholeAt(g, w, e, s), s < idx.fileSize
      PROVE  \E n \in 1 .. k : idx.offsets[n] = s /\ EndOf(idx, n) = s + w[e].size + 1
  <2>1. e \in whole
    BY <1>1, <1>4
  <2>2. e \in 1 .. Len(v) /\ f \in Seq(Cell) /\ v \in Seq(LogEvent)
    BY <2>1 DEF BytesOK
  <2>3. PICK t \in Nat : WholeAt(f, v, e, t)
    BY <2>1 DEF BytesOK
  <2>4. WholeAt(g, w, e, t)
    BY <2>2, <2>3, WholeStays
  <2>5. s = t /\ w[e] = v[e]
    BY <1>4, <2>2, <2>4, WholeOnce DEF Extends
  <2>6. QED
    BY <1>4, <2>1, <2>3, <2>5 DEF IndexOK
<1>5. QED
  BY <1>1, <1>3, <1>4 DEF IndexOK

-----------------------------------------------------------------------------
(* Reading what the file grew by.                                           *)

\* st are the k offsets where lines start.
StartsAre(st, k, from, to) ==
    /\ k \in Nat /\ st \in [1 .. k -> Nat]
    /\ \A n \in 1 .. k : from <= st[n] /\ st[n] < to
    /\ \A m, n \in 1 .. k : m < n => st[m] < st[n]
    /\ from < to => k >= 1 /\ st[1] = from
    /\ \A n \in 1 .. k : LineEnd(st[n], to) = IF n < k THEN st[n + 1] ELSE to
    /\ \A b \in from + 1 .. to - 1 :
         file[b] = Newline => \E n \in 1 .. k : st[n] = b

LEMMA WithinFact ==
    ASSUME file \in Seq(Cell), NEW from \in Nat, NEW to \in Nat, to <= Len(file)
    PROVE  Within(from, to) = from + 1 .. to
<1>1. DOMAIN file = 1 .. Len(file) /\ Len(file) \in Nat
  OBVIOUS
<1>2. QED
  BY <1>1 DEF Within

\* The lines of a range that have text in it.
TextStarts(from, to) == {b \in Starts(from, to) : b < to}

LEMMA TextStartsFact ==
    ASSUME file \in Seq(Cell), NEW from \in Nat, NEW to \in Nat, to <= Len(file)
    PROVE  /\ \A b : b \in TextStarts(from, to) <=> /\ b \in Nat /\ from <= b /\ b < to
                                                    /\ b = from \/ file[b] = Newline
           /\ TextStarts(from, to) \in SUBSET Nat /\ IsFiniteSet(TextStarts(from, to))
<1> DEFINE S == TextStarts(from, to)
<1>1. S = {b \in {from} \cup {i \in from + 1 .. to : file[i] = Newline} : b < to}
  BY WithinFact DEF TextStarts, Starts
<1> HIDE DEF S
<1>2. \A b : b \in S <=> /\ b \in Nat /\ from <= b /\ b < to
                         /\ b = from \/ file[b] = Newline
  BY <1>1
<1>3. S \in SUBSET (from .. to) /\ S \in SUBSET Nat
  BY <1>2
<1>4. IsFiniteSet(from .. to)
  BY FS_Interval
<1>5. IsFiniteSet(S)
  BY <1>3, <1>4, FS_Subset
<1>6. QED
  BY <1>2, <1>3, <1>5 DEF S

\* The starts of lines, in order, are each the end of the line before.
LEMMA StartsFact ==
    ASSUME file \in Seq(Cell), NEW from \in Nat, NEW to \in Nat, from <= to,
           to <= Len(file)
    PROVE  StartsAre(Ascending(TextStarts(from, to)), Cardinality(TextStarts(from, to)),
                     from, to)
<1> DEFINE st == Ascending(TextStarts(from, to))
           k == Cardinality(TextStarts(from, to))
<1> DEFINE S == TextStarts(from, to)
<1>1. \A b : b \in S <=> /\ b \in Nat /\ from <= b /\ b < to
                         /\ b = from \/ file[b] = Newline
  BY TextStartsFact
<1>2. S \in SUBSET Nat /\ IsFiniteSet(S)
  BY TextStartsFact
<1> HIDE DEF st, k, S
<1>3. /\ k \in Nat /\ st \in [1 .. k -> S]
      /\ \A m, n \in 1 .. k : m < n => st[m] < st[n]
      /\ \A b \in S : \E n \in 1 .. k : st[n] = b
  BY <1>2, AscendingFact DEF S, st, k
<1>4. \A n \in 1 .. k : st[n] \in S /\ st[n] \in Nat /\ from <= st[n] /\ st[n] < to
  BY <1>1, <1>3
<1>5. ASSUME from < to PROVE k >= 1 /\ st[1] = from
  <2>0. from \in S
    BY <1>1, <1>5
  <2>1. PICK n \in 1 .. k : st[n] = from
    BY <1>3, <2>0
  <2>2. 1 \in 1 .. k /\ (n = 1 \/ 1 < n)
    BY <1>3
  <2>3. 1 < n => st[1] < st[n]
    BY <1>3, <2>2
  <2>4. QED
    BY <1>3, <1>4, <2>1, <2>2, <2>3
<1>6. ASSUME NEW n \in 1 .. k
      PROVE  LineEnd(st[n], to) = IF n < k THEN st[n + 1] ELSE to
  <2> DEFINE b == st[n]
             E == {i \in b + 1 .. to : file[i] = Newline} \cup {to}
  <2>1. b \in Nat /\ from <= b /\ b < to /\ LineEnd(b, to) = Min(E)
    <3>1. b \in Nat /\ from <= b /\ b < to
      BY <1>4
    <3>2. Within(b, to) = b + 1 .. to
      BY <3>1, WithinFact
    <3>3. QED
      BY <3>1, <3>2 DEF LineEnd
  <2> HIDE DEF b
  <2>2. E \in SUBSET Nat /\ E # {}
    BY <2>1
  <2> DEFINE l == Min(E)
  <2> HIDE DEF E
  <2>3. l \in E /\ \A i \in E : l <= i
    BY <2>2, MinFact
  <2> HIDE DEF l
  <2>4. l \in Nat /\ b < l /\ l <= to
    BY <2>1, <2>3 DEF E
  <2>5. ASSUME l < to PROVE n < k /\ st[n + 1] <= l
    <3>1. l \in S
      BY <1>1, <2>1, <2>3, <2>4, <2>5 DEF E
    <3>2. PICK m \in 1 .. k : st[m] = l
      BY <1>3, <3>1
    <3>3. n < m
      <4>1. m < n => st[m] < st[n]
        BY <1>3
      <4>2. QED
        BY <1>3, <2>1, <2>4, <3>2, <4>1 DEF b
    <3>4. n + 1 \in 1 .. k /\ (n + 1 = m \/ n + 1 < m)
      BY <1>3, <3>3
    <3>5. n + 1 < m => st[n + 1] < st[m]
      BY <1>3, <3>4
    <3>6. QED
      BY <1>3, <1>4, <3>2, <3>3, <3>4, <3>5
  <2>6. ASSUME n < k PROVE st[n + 1] \in E
    <3>1. n + 1 \in 1 .. k /\ n < n + 1
      BY <1>3, <2>6
    <3>2. st[n + 1] \in S /\ b < st[n + 1]
      BY <1>3, <3>1 DEF b
    <3>3. st[n + 1] \in b + 1 .. to /\ file[st[n + 1]] = Newline
      BY <1>1, <2>1, <3>2
    <3>4. QED
      BY <3>3 DEF E
  <2>7. CASE n < k
    <3>1. st[n + 1] \in E /\ l <= st[n + 1]
      BY <2>3, <2>6, <2>7
    <3>2. st[n + 1] \in Nat /\ st[n + 1] < to
      BY <1>3, <1>4, <2>7
    <3>3. l = st[n + 1]
      BY <2>4, <2>5, <3>1, <3>2
    <3>4. QED
      BY <2>1, <2>7, <3>3 DEF b, l
  <2>8. CASE ~(n < k)
    BY <2>1, <2>4, <2>5, <2>8 DEF b, l
  <2>9. QED
    BY <2>7, <2>8
<1>7. ASSUME NEW b \in from + 1 .. to - 1, file[b] = Newline
      PROVE  \E n \in 1 .. k : st[n] = b
  <2>1. b \in S
    BY <1>1, <1>7
  <2>2. QED
    BY <1>3, <2>1
<1>8. QED
  BY <1>3, <1>4, <1>5, <1>6, <1>7 DEF StartsAre, st, k
\* The line of a clean event ends with its newline.
LEMMA LineEndsWhole ==
    ASSUME BytesOK(file, events, clean), NEW e \in clean, NEW s \in Nat,
           WholeAt(file, events, e, s), NEW to \in Nat, to <= Len(file),
           s + events[e].size < to
    PROVE  LineEnd(s, to) = s + events[e].size + 1
<1> DEFINE z == events[e].size
           E == {i \in s + 1 .. to : file[i] = Newline} \cup {to}
<1>1. z \in Nat /\ z >= 1 /\ to \in Nat /\ s + z + 1 <= to
  <2>1. events[e] \in LogEvent
    BY DEF BytesOK
  <2>2. z \in Nat \ {0}
    BY <2>1 DEF LogEvent
  <2>3. QED
    BY <2>2
<1>2. \A k \in 1 .. z : file[s + k] # Newline
  <2>1. \A k \in 1 .. z : <<e, k>> # Newline
    BY DEF Newline
  <2>2. QED
    BY <2>1 DEF WholeAt
<1>3. file[s + z + 1] = Newline
  BY DEF WholeAt
<1> HIDE DEF z
<1>4. ASSUME NEW i \in Nat, s < i, i < s + z + 1 PROVE file[i] # Newline
  <2>1. i - s \in 1 .. z /\ s + (i - s) = i
    BY <1>1, <1>4
  <2>2. QED
    BY <1>2, <2>1
<1>5. E \in SUBSET Nat /\ s + z + 1 \in E
  BY <1>1, <1>3
<1>6. \A i \in E : i \in Nat /\ s + z + 1 <= i
  BY <1>1, <1>4
<1>7. Min(E) = s + z + 1
  <2> HIDE DEF E
  <2>1. Min(E) \in E /\ Min(E) <= s + z + 1
    BY <1>5, MinFact
  <2>2. QED
    BY <1>1, <1>6, <2>1
<1>8. Within(s, to) = s + 1 .. to
  BY WithinFact DEF BytesOK
<1>9. QED
  BY <1>7, <1>8 DEF LineEnd, z

\* The model's readings are the ones above, of the file as it is.
LEMMA Readings ==
    /\ \A idx, n : OnLine(idx, n) = LineOn(idx, file, events, n)
    /\ \A from, to : Parsed(Piece(from, to)) = On(file, events, from, to)
    /\ \A e, p : Concerned(e, p) = Concerns(events, e, p)
BY DEF OnLine, LineOn, On, Parsed, ParsedBy, Piece, PieceIn, Window, ByteAt, Concerned,
       Concerns

Now(idx) == IndexOK(idx, file, events, clean)

LEMMA ConcatFact ==
    ASSUME NEW C, NEW a \in Seq(C), NEW b \in Seq(C)
    PROVE  /\ a \o b \in Seq(C) /\ Len(a \o b) = Len(a) + Len(b)
           /\ \A n \in 1 .. Len(a) : (a \o b)[n] = a[n]
           /\ \A m \in 1 .. Len(b) : (a \o b)[Len(a) + m] = b[m]
<1>1. Len(a) \in Nat /\ Len(b) \in Nat /\ a \o b \in Seq(C)
  OBVIOUS
<1>2. \A n \in 1 .. Len(a) : (a \o b)[n] = a[n]
  OBVIOUS
<1>3. ASSUME NEW m \in 1 .. Len(b) PROVE (a \o b)[Len(a) + m] = b[m]
  <2>1. Len(a) + m \in 1 .. Len(a) + Len(b) /\ ~(Len(a) + m <= Len(a))
        /\ Len(a) + m - Len(a) = m
    BY <1>1
  <2>2. QED
    BY <2>1
<1>4. QED
  BY <1>1, <1>2, <1>3

\* A size that the file had when `from` events had been appended: it is among the
\* offsets of the file, and parts no line.
LookOK(size, from, f, v, whole) ==
    /\ size <= Len(f)
    /\ \A e \in whole, s \in Nat :
         WholeAt(f, v, e, s) => /\ e <= from => s < size
                                /\ s < size => s + v[e].size < size

\* The size that the file has now is one.
LEMMA LookNow ==
    ASSUME BytesOK(file, events, clean), NEW from
    PROVE  LookOK(Len(file), from, file, events, clean)
<1>1. Len(file) \in Nat
  BY DEF BytesOK
<1>2. ASSUME NEW e \in clean, NEW s \in Nat, WholeAt(file, events, e, s)
      PROVE  s < Len(file) /\ s + events[e].size < Len(file)
  <2>1. events[e] \in LogEvent
    BY DEF BytesOK
  <2>2. events[e].size \in Nat
    BY <2>1 DEF LogEvent
  <2>3. s + events[e].size < Len(file)
    BY <1>2 DEF WholeAt
  <2>4. QED
    BY <1>1, <2>2, <2>3
<1>3. QED
  BY <1>1, <1>2 DEF LookOK

\* No offset is dropped when all are before the size.
LEMMA TrimmedFact ==
    ASSUME NEW known \in Seq(Nat), NEW st \in Seq(Nat), NEW to \in Nat,
           \A n \in 1 .. Len(known) : known[n] < to, \A m \in 1 .. Len(st) : st[m] < to
    PROVE  Trimmed(known \o st, to) = known \o st
<1> DEFINE all == known \o st
           k == Len(st)
<1>1. /\ all \in Seq(Nat) /\ Len(all) = Len(known) + k /\ k \in Nat
      /\ \A n \in 1 .. Len(known) : all[n] = known[n]
      /\ \A m \in 1 .. k : all[Len(known) + m] = st[m]
  BY ConcatFact
<1> HIDE DEF all, k
<1>2. ASSUME all # <<>> PROVE Last(all) \in Nat /\ Last(all) < to
  <2>1. Len(all) \in 1 .. Len(all) /\ Last(all) = all[Len(all)] /\ Last(all) \in Nat
    BY <1>1, <1>2 DEF Last
  <2>2. CASE k = 0
    <3>1. Len(all) = Len(known) /\ Len(known) \in Nat
      BY <1>1, <2>2
    <3>2. QED
      BY <1>1, <2>1, <3>1
  <2>3. CASE k # 0
    <3>1. k \in 1 .. k /\ all[Len(known) + k] = st[k]
      BY <1>1, <2>3
    <3>2. QED
      BY <1>1, <2>1, <3>1 DEF k
  <2>4. QED
    BY <2>2, <2>3
<1>3. Trimmed(all, to) = all
  <2>1. all # <<>> => ~(Last(all) >= to)
    BY <1>2
  <2>2. QED
    BY <2>1 DEF Trimmed
<1>4. QED
  BY <1>3 DEF all

\* Where nothing is shifted, the lines counted are those that have text, at the
\* bytes where they start.
LEMMA CountedFact ==
    ASSUME file \in Seq(Cell), NEW from \in Nat, NEW to \in Nat, from <= to,
           to <= Len(file), ~Shifted(from, to),
           NEW known \in Seq(Nat), \A n \in 1 .. Len(known) : known[n] < to
    PROVE  /\ LinesRead(from, to, to) = Ascending(TextStarts(from, to))
           /\ Trimmed(known \o [n \in 1 .. Len(Ascending(TextStarts(from, to))) |->
                                  Counted(from, Ascending(TextStarts(from, to))[n])], to)
                = known \o Ascending(TextStarts(from, to))
<1> DEFINE st == Ascending(TextStarts(from, to))
           k == Cardinality(TextStarts(from, to))
           all == known \o st
<1>1. \A b \in Starts(from, to) : Counted(from, b) = b
  BY DEF Shifted
<1>2. {b \in Starts(from, to) : b < to \/ Counted(from, b) < to} = TextStarts(from, to)
  BY <1>1 DEF TextStarts
<1>3. k \in Nat /\ st \in [1 .. k -> Nat] /\ \A n \in 1 .. k : st[n] < to
  <2>1. StartsAre(st, k, from, to)
    BY StartsFact
  <2> HIDE DEF st, k
  <2>2. QED
    BY <2>1 DEF StartsAre
<1>4. \A n \in 1 .. k : Counted(from, st[n]) = st[n]
  <2>1. TextStarts(from, to) \in SUBSET Nat /\ IsFiniteSet(TextStarts(from, to))
    BY TextStartsFact
  <2>2. st \in [1 .. k -> TextStarts(from, to)]
    BY <2>1, AscendingFact
  <2> HIDE DEF st, k
  <2>3. QED
    BY <1>1, <2>2 DEF TextStarts
<1>5. [n \in 1 .. Len(st) |-> Counted(from, st[n])] = st
  <2> HIDE DEF st, k
  <2>1. Len(st) = k /\ st = [n \in 1 .. k |-> st[n]]
    BY <1>3
  <2>2. QED
    BY <1>4, <2>1
<1>6. Trimmed(all, to) = all
  <2> HIDE DEF st, k
  <2>1. st \in Seq(Nat) /\ \A m \in 1 .. Len(st) : st[m] < to
    BY <1>3
  <2>2. QED
    BY <2>1, TrimmedFact
<1>7. QED
  BY <1>2, <1>5, <1>6 DEF LinesRead

\* Reading what the file grew by leaves the lines known before as they were, and
\* the index right as far as the file was said to reach.
LEMMA AddLinesRight ==
    ASSUME BytesOK(file, events, clean), NEW idx, Now(idx),
           NEW to \in Nat, NEW seen, LookOK(to, seen, file, events, clean),
           idx.fileSize <= to, ~Shifted(idx.fileSize, to),
           NEW new, new = AddLines(idx, to, to)
    PROVE  /\ Now(new) /\ new.fileSize = to /\ Len(idx.offsets) <= Len(new.offsets)
           /\ \A p \in Principal :
                /\ idx.lines[p] \subseteq new.lines[p]
                /\ \A n \in new.lines[p] \ idx.lines[p] : n > Len(idx.offsets)
           /\ \A n \in 1 .. Len(idx.offsets) : OnLine(new, n) = OnLine(idx, n)
<1> DEFINE from == idx.fileSize
           st == Ascending(TextStarts(from, to))
           k == Cardinality(TextStarts(from, to))
           known == Len(idx.offsets)
<1>1. /\ file \in Seq(Cell) /\ to \in Nat /\ from \in Nat /\ from <= to
      /\ idx.offsets \in Seq(Nat) /\ known \in Nat /\ idx \in IndexType
      /\ to <= Len(file) /\ Len(file) \in Nat
  BY DEF Now, IndexOK, IndexType, BytesOK, LookOK
<1>0. /\ \A n \in 1 .. known : idx.offsets[n] < from
      /\ \A m, n \in 1 .. known : m < n => idx.offsets[m] < idx.offsets[n]
      /\ \A p \in Principal : idx.lines[p] =
            {n \in 1 .. known : Concerns(events, LineOn(idx, file, events, n), p)}
      /\ \A e \in clean, s \in Nat :
           WholeAt(file, events, e, s) /\ s < from =>
              \E n \in 1 .. known :
                 idx.offsets[n] = s /\ EndOf(idx, n) = s + events[e].size + 1
      /\ \A n : EndOf(idx, n) = IF n < known THEN idx.offsets[n + 1] ELSE from
  BY DEF Now, IndexOK, EndOf
<1>2. /\ k \in Nat /\ st \in [1 .. k -> Nat]
      /\ \A n \in 1 .. k : from <= st[n] /\ st[n] < to
      /\ \A m, n \in 1 .. k : m < n => st[m] < st[n]
      /\ from < to => k >= 1 /\ st[1] = from
      /\ \A n \in 1 .. k : LineEnd(st[n], to) = IF n < k THEN st[n + 1] ELSE to
      /\ \A b \in from + 1 .. to - 1 :
           file[b] = Newline => \E n \in 1 .. k : st[n] = b
  <2> HIDE DEF from
  <2>1. StartsAre(st, k, from, to)
    BY <1>1, StartsFact
  <2> HIDE DEF st, k
  <2>2. QED
    BY <2>1 DEF StartsAre
<1> HIDE DEF st, k, from, known
<1>3. st \in Seq(Nat) /\ Len(st) = k
  BY <1>2
<1>4. /\ new.offsets = idx.offsets \o st /\ new.fileSize = to
      /\ new.lines = [p \in Principal |-> idx.lines[p] \cup
             {known + n : n \in {m \in 1 .. k :
                 Concerned(Parsed(Piece(st[m], LineEnd(st[m], to))), p)}}]
      /\ new = [offsets |-> new.offsets, fileSize |-> to, lines |-> new.lines]
  <2>1. \A n \in 1 .. Len(idx.offsets) : idx.offsets[n] < to
    <3>1. \A n \in 1 .. Len(idx.offsets) : idx.offsets[n] \in Nat
      BY <1>1
    <3>2. QED
      BY <1>0, <1>1, <3>1 DEF known
  <2>2. /\ LinesRead(from, to, to) = st
        /\ Trimmed(idx.offsets \o [n \in 1 .. Len(st) |-> Counted(from, st[n])], to)
             = idx.offsets \o st
    <3> DEFINE o == idx.offsets
    <3>1. o \in Seq(Nat) /\ (\A n \in 1 .. Len(o) : o[n] < to) /\ ~Shifted(from, to)
      BY <1>1, <2>1 DEF from
    <3> HIDE DEF o
    <3>2. /\ LinesRead(from, to, to) = Ascending(TextStarts(from, to))
          /\ Trimmed(o \o [n \in 1 .. Len(Ascending(TextStarts(from, to))) |->
                              Counted(from, Ascending(TextStarts(from, to))[n])], to)
               = o \o Ascending(TextStarts(from, to))
      BY <1>1, <3>1, CountedFact
    <3>3. QED
      BY <3>2 DEF st, o
  <2>3. new = [offsets |-> Trimmed(idx.offsets \o
                   [n \in 1 .. Len(st) |-> Counted(from, st[n])], to),
               fileSize |-> to,
               lines |-> [p \in Principal |-> idx.lines[p] \cup
                   {known + n : n \in Concerning(st, to, p)}]]
    <3> DEFINE r == LinesRead(from, to, to)
    <3>1. new = [offsets |-> Trimmed(idx.offsets \o
                     [n \in 1 .. Len(r) |-> Counted(from, r[n])], to),
                 fileSize |-> to,
                 lines |-> [p \in Principal |-> idx.lines[p] \cup
                     {known + n : n \in Concerning(r, to, p)}]]
      BY DEF AddLines, known, from
    <3>2. r = st
      BY <2>2
    <3> HIDE DEF r
    <3>3. QED
      BY <3>1, <3>2
  <2>4. \A p : Concerning(st, to, p) = {m \in 1 .. k :
                 Concerned(Parsed(Piece(st[m], LineEnd(st[m], to))), p)}
    BY <1>3 DEF Concerning
  <2> DEFINE kept == Trimmed(idx.offsets \o [n \in 1 .. Len(st) |-> Counted(from, st[n])], to)
             more(p) == Concerning(st, to, p)
  <2>5. kept = idx.offsets \o st
    BY <2>2
  <2>6. new = [offsets |-> kept, fileSize |-> to,
               lines |-> [p \in Principal |-> idx.lines[p] \cup {known + n : n \in more(p)}]]
    BY <2>3
  <2> HIDE DEF kept, more
  <2>7. /\ new.offsets = kept /\ new.fileSize = to
        /\ new.lines = [p \in Principal |-> idx.lines[p] \cup {known + n : n \in more(p)}]
        /\ new = [offsets |-> new.offsets, fileSize |-> to, lines |-> new.lines]
    BY <2>6
  <2>8. QED
    BY <2>4, <2>5, <2>7 DEF more
<1>5. /\ new.offsets \in Seq(Nat) /\ Len(new.offsets) = known + k
      /\ \A n \in 1 .. known : new.offsets[n] = idx.offsets[n]
      /\ \A m \in 1 .. k : new.offsets[known + m] = st[m]
  <2>1. idx.offsets \in Seq(Nat) /\ Len(idx.offsets) = known
    BY <1>1 DEF known
  <2>2. QED
    <3> DEFINE a == idx.offsets
    <3>1. a \in Seq(Nat) /\ Len(a) = known /\ new.offsets = a \o st
      BY <1>4, <2>1
    <3> HIDE DEF a
    <3>2. /\ a \o st \in Seq(Nat) /\ Len(a \o st) = known + k
          /\ \A n \in 1 .. known : (a \o st)[n] = a[n]
          /\ \A m \in 1 .. k : (a \o st)[known + m] = st[m]
      <4>1. a \in Seq(Nat) /\ st \in Seq(Nat)
        BY <1>3, <3>1
      <4>2. /\ a \o st \in Seq(Nat) /\ Len(a \o st) = Len(a) + Len(st)
            /\ \A n \in 1 .. Len(a) : (a \o st)[n] = a[n]
            /\ \A m \in 1 .. Len(st) : (a \o st)[Len(a) + m] = st[m]
        BY <4>1, ConcatFact
      <4>3. QED
        BY <1>3, <3>1, <4>2
    <3>3. QED
      BY <3>1, <3>2 DEF a
<1>6. \A n \in 1 .. known + k : n \in 1 .. known \/ \E m \in 1 .. k : n = known + m
  <2>1. ASSUME NEW n \in 1 .. known + k, n \notin 1 .. known
        PROVE  n - known \in 1 .. k /\ n = known + (n - known)
    BY <1>1, <1>2, <2>1
  <2>2. QED
    BY <2>1
<1>7. ASSUME NEW m \in 1 .. k PROVE EndOf(new, known + m) = LineEnd(st[m], to)
  <2>1. known + m < known + k <=> m < k
    BY <1>1, <1>2
  <2>2. m < k => new.offsets[known + m + 1] = st[m + 1]
    <3>1. m < k => m + 1 \in 1 .. k /\ known + (m + 1) = known + m + 1
      BY <1>1, <1>2
    <3>2. QED
      BY <1>5, <3>1
  <2>3. QED
    BY <1>2, <1>4, <1>5, <2>1, <2>2 DEF EndOf
<1>8. ASSUME NEW n \in 1 .. known PROVE EndOf(new, n) = EndOf(idx, n)
  <2>1. CASE n < known
    <3>1. n + 1 \in 1 .. known /\ n < known + k
      BY <1>1, <1>2, <2>1
    <3>2. EndOf(idx, n) = idx.offsets[n + 1]
      BY <1>0, <2>1
    <3>3. EndOf(new, n) = new.offsets[n + 1]
      BY <1>5, <3>1 DEF EndOf
    <3>4. new.offsets[n + 1] = idx.offsets[n + 1]
      BY <1>5, <3>1
    <3>5. QED
      BY <3>2, <3>3, <3>4
  <2>2. CASE n = known /\ k >= 1
    <3>1. n < known + k /\ 1 \in 1 .. k /\ new.offsets[n + 1] = st[1]
      BY <1>1, <1>2, <1>5, <2>2
    <3>2. from < to
      BY <1>1, <1>2, <3>1
    <3>3. QED
      <4>1. EndOf(new, n) = st[1]
        BY <1>5, <3>1 DEF EndOf
      <4>2. EndOf(idx, n) = from
        BY <1>0, <1>1, <2>2
      <4>3. QED
        BY <1>2, <3>2, <4>1, <4>2
  <2>3. CASE n = known /\ ~(k >= 1)
    <3>1. from = to /\ Len(new.offsets) = known
      BY <1>1, <1>2, <1>5, <2>3
    <3>2. QED
      BY <1>0, <1>1, <1>4, <2>3, <3>1 DEF EndOf
  <2>4. QED
    BY <1>1, <2>1, <2>2, <2>3
<1>9. /\ \A n \in 1 .. known : LineOn(new, file, events, n) = LineOn(idx, file, events, n)
      /\ \A m \in 1 .. k : LineOn(new, file, events, known + m)
                             = Parsed(Piece(st[m], LineEnd(st[m], to)))
  BY <1>5, <1>7, <1>8, Readings DEF LineOn
<1> DEFINE old(p) == {n \in 1 .. known : Concerns(events, LineOn(new, file, events, n), p)}
           added(p) == {known + n : n \in {m \in 1 .. k :
                          Concerns(events, LineOn(new, file, events, known + m), p)}}
<1>10. ASSUME NEW p \in Principal
       PROVE  /\ idx.lines[p] = old(p) /\ new.lines[p] = old(p) \cup added(p)
  <2>1. idx.lines[p] = old(p)
    BY <1>0, <1>9
  <2>2. QED
    BY <1>4, <1>9, <2>1, Readings
<1>11. \A p \in Principal :
         new.lines[p] = {n \in 1 .. Len(new.offsets) :
                           Concerns(events, LineOn(new, file, events, n), p)}
  <2> SUFFICES ASSUME NEW p \in Principal, NEW n
               PROVE  n \in new.lines[p] <=>
                        n \in 1 .. known + k /\ Concerns(events, LineOn(new, file, events, n), p)
    BY <1>5
  <2>1. \A m \in 1 .. k : known + m \in 1 .. known + k
    BY <1>1, <1>2
  <2>2. 1 .. known \subseteq 1 .. known + k
    BY <1>1, <1>2
  <2>3. QED
    BY <1>6, <1>10, <2>1, <2>2
<1>12. new \in IndexType
  <2>1. new.lines \in [Principal -> SUBSET Nat]
    <3>1. \A p \in Principal : new.lines[p] \in SUBSET Nat
      BY <1>11
    <3>2. QED
      BY <1>4, <3>1
  <2>2. QED
    BY <1>1, <1>4, <1>5, <2>1 DEF IndexType
<1>13. ASSUME NEW n \in 1 .. known
       PROVE  new.offsets[n] < from
  BY <1>0, <1>5
<1>14. \A n \in 1 .. Len(new.offsets) : new.offsets[n] < to
  <2>1. ASSUME NEW n \in 1 .. known PROVE new.offsets[n] < to
    <3>1. n \in 1 .. Len(new.offsets)
      BY <1>1, <1>2, <1>5
    <3>2. new.offsets[n] \in Nat /\ new.offsets[n] < from
      BY <1>5, <1>13, <3>1
    <3>3. QED
      BY <1>1, <3>2
  <2>2. ASSUME NEW m \in 1 .. k PROVE new.offsets[known + m] < to
    BY <1>2, <1>5
  <2>3. QED
    BY <1>5, <1>6, <2>1, <2>2
<1>15. \A m, n \in 1 .. Len(new.offsets) : m < n => new.offsets[m] < new.offsets[n]
  <2> SUFFICES ASSUME NEW m \in 1 .. known + k, NEW n \in 1 .. known + k, m < n
               PROVE  new.offsets[m] < new.offsets[n]
    BY <1>5
  <2>1. CASE n \in 1 .. known
    <3>1. m \in 1 .. known
      BY <1>1, <2>1
    <3>2. idx.offsets[m] < idx.offsets[n]
      BY <1>0, <2>1, <3>1
    <3>3. QED
      BY <1>5, <2>1, <3>1, <3>2
  <2>2. CASE m \in 1 .. known /\ \E j \in 1 .. k : n = known + j
    <3>1. new.offsets[m] < from
      BY <1>13, <2>2
    <3>2. from <= new.offsets[n]
      BY <1>2, <1>5, <2>2
    <3>3. new.offsets[m] \in Nat /\ new.offsets[n] \in Nat
      <4>1. m \in 1 .. Len(new.offsets) /\ n \in 1 .. Len(new.offsets)
        BY <1>5
      <4>2. QED
        BY <1>5, <4>1
    <3>4. QED
      BY <1>1, <3>1, <3>2, <3>3
  <2>3. ASSUME NEW i \in 1 .. k, NEW j \in 1 .. k, m = known + i, n = known + j
        PROVE  new.offsets[m] < new.offsets[n]
    <3>1. i < j
      BY <1>1, <1>2, <2>3
    <3>2. QED
      BY <1>2, <1>5, <2>3, <3>1
  <2>4. QED
    BY <1>6, <2>1, <2>2, <2>3
<1>16. ASSUME NEW e \in clean, NEW s \in Nat, WholeAt(file, events, e, s), s < to
       PROVE  \E n \in 1 .. Len(new.offsets) :
                 new.offsets[n] = s /\ EndOf(new, n) = s + events[e].size + 1
  <2>1. CASE s < from
    <3>1. PICK n \in 1 .. known :
            idx.offsets[n] = s /\ EndOf(idx, n) = s + events[e].size + 1
      BY <1>0, <1>16, <2>1
    <3>2. n \in 1 .. Len(new.offsets)
      BY <1>1, <1>2, <1>5
    <3>3. QED
      BY <1>5, <1>8, <3>1, <3>2
  <2>2. CASE ~(s < from)
    <3>1. PICK m \in 1 .. k : st[m] = s
      <4>1. CASE s = from
        BY <1>2, <1>16, <4>1
      <4>2. CASE s # from
        <5>1. s \in from + 1 .. to - 1 /\ file[s] = Newline
          BY <1>1, <1>16, <2>2, <4>2 DEF WholeAt
        <5>2. QED
          BY <1>2, <5>1
      <4>3. QED
        BY <4>1, <4>2
    <3>2. LineEnd(s, to) = s + events[e].size + 1
      <4>1. s + events[e].size < to
        BY <1>16 DEF LookOK
      <4>2. QED
        BY <1>1, <1>16, <4>1, LineEndsWhole
    <3>3. known + m \in 1 .. Len(new.offsets)
      BY <1>1, <1>2, <1>5
    <3>4. QED
      BY <1>5, <1>7, <3>1, <3>2, <3>3
  <2>3. QED
    BY <2>1, <2>2
<1>17. Now(new)
  <2>1. new.fileSize = to /\ to <= Len(file)
    BY <1>1, <1>4
  <2>2. QED
    BY <2>1, <1>11, <1>12, <1>14, <1>15, <1>16 DEF Now, IndexOK
<1>18. known <= Len(new.offsets)
  BY <1>1, <1>2, <1>5
<1>19. ASSUME NEW p \in Principal
       PROVE  /\ idx.lines[p] \subseteq new.lines[p]
              /\ \A n \in new.lines[p] \ idx.lines[p] : n > known
  BY <1>1, <1>2, <1>10
<1>20. QED
  BY <1>4, <1>9, <1>17, <1>18, <1>19, Readings DEF known

-----------------------------------------------------------------------------
(* Pages of a trail.                                                        *)

\* page is what a page of at most limit items has of s, when it ends at end.
PageOK(C, s, limit, end, page) ==
    \E start \in 0 .. end :
       /\ start = 0 \/ start = end - limit
       /\ start >= end - limit
       /\ page \in Seq(C) /\ Len(page) = end - start
       /\ \A j \in 1 .. end - start : page[j] = s[start + j]

\* A page is at most limit items, the last ones before its offset from the end.
LEMMA PageFact ==
    ASSUME NEW C, NEW s \in Seq(C), NEW limit \in Nat \ {0}, NEW offset \in Nat,
           offset <= Len(s)
    PROVE  PageOK(C, s, limit, Len(s) - offset, PageOf(s, limit, offset))
<1> DEFINE a == Len(s) - offset - limit
           start == Max({a, 0})
           end == Len(s) - offset
           page == SubSeq(s, start + 1, end)
<1>1. /\ Len(s) \in Nat /\ a \in Int /\ end \in Nat /\ a < end
      /\ end <= Len(s)
  OBVIOUS
<1> HIDE DEF a, end
<1>2. start = IF a >= 0 THEN a ELSE 0
  BY <1>1 DEF Max
<1>3. Min({end, Len(s)}) = end
  BY <1>1 DEF Min
<1>4. PageOf(s, limit, offset) = page
  <2>1. PageOf(s, limit, offset) = SubSeq(s, start + 1, IF end < 0 THEN Len(s) + end
                                                         ELSE Min({end, Len(s)}))
    BY DEF PageOf, Slice, a, end
  <2>2. ~(end < 0)
    BY <1>1
  <2> HIDE DEF start
  <2>3. QED
    BY <1>3, <2>1, <2>2, Zenon
<1> HIDE DEF start
<1>5. start \in 0 .. end /\ start >= a /\ (start = 0 \/ start = a)
  BY <1>1, <1>2
<1>6. /\ page \in Seq(C) /\ Len(page) = end - start
      /\ \A j \in 1 .. end - start : page[j] = s[start + j]
  <2>1. start \in Nat /\ start <= end
    BY <1>1, <1>5
  <2>2. QED
    BY <1>1, <2>1, SubSeqFact
<1>7. PageOK(C, s, limit, end, page)
  <2> HIDE DEF page
  <2>1. start = 0 \/ start = end - limit
    BY <1>1, <1>5 DEF a, end
  <2>2. start >= end - limit
    BY <1>1, <1>5 DEF a, end
  <2>3. QED
    BY <1>5, <1>6, <2>1, <2>2 DEF PageOK
<1>8. QED
  BY <1>4, <1>7 DEF end

LEMMA AscendingRun ==
    ASSUME NEW k \in Nat
    PROVE  Ascending(1 .. k) = [i \in 1 .. k |-> i]
<1>1. IsFiniteSet(1 .. k) /\ Cardinality(1 .. k) = k /\ 1 .. k \in SUBSET Nat
  BY IntervalFact
<1>2. /\ Ascending(1 .. k) \in [1 .. k -> 1 .. k]
      /\ \A i \in 1 .. k : Cardinality(UpTo(1 .. k, Ascending(1 .. k)[i])) = i
  BY <1>1, AscendingFact
<1>3. ASSUME NEW n \in 1 .. k PROVE Cardinality(UpTo(1 .. k, n)) = n
  <2>1. UpTo(1 .. k, n) = 1 .. n
    BY DEF UpTo
  <2>2. QED
    BY <2>1, IntervalFact
<1>4. \A i \in 1 .. k : Ascending(1 .. k)[i] = i
  BY <1>2, <1>3
<1>5. QED
  BY <1>2, <1>4

\* Lines that are all read well.
LEMMA ReadFact ==
    ASSUME NEW idx, NEW C, NEW lines \in Seq(C),
           \A i \in 1 .. Len(lines) : OnLine(idx, lines[i]) # 0
    PROVE  ReadSpecificLines(idx, lines) = [i \in 1 .. Len(lines) |-> OnLine(idx, lines[i])]
<1> DEFINE read == [i \in DOMAIN lines |-> OnLine(idx, lines[i])]
           kept == Ascending({i \in DOMAIN lines : read[i] # 0})
<1>1. DOMAIN lines = 1 .. Len(lines) /\ Len(lines) \in Nat
  OBVIOUS
<1>2. {i \in DOMAIN lines : read[i] # 0} = 1 .. Len(lines)
  BY <1>1
<1>3. kept = [i \in 1 .. Len(lines) |-> i]
  BY <1>1, <1>2, AscendingRun
<1>4. ReadSpecificLines(idx, lines) = [i \in DOMAIN kept |-> read[kept[i]]]
  BY DEF ReadSpecificLines
<1> HIDE DEF kept
<1>5. ReadSpecificLines(idx, lines) = [i \in 1 .. Len(lines) |-> read[i]]
  BY <1>3, <1>4
<1>6. QED
  BY <1>1, <1>5

\* The lines that an index has for some principals.
For(idx, of) == UNION {idx.lines[p] : p \in of}

\* Lines of some principals are about them and in the order of their events.
LEMMA LinesFact ==
    ASSUME BytesOK(file, events, clean), NEW idx, Now(idx), NEW of \in SUBSET Principal
    PROVE  /\ For(idx, of) \in SUBSET Nat /\ IsFiniteSet(For(idx, of))
           /\ \A n \in For(idx, of) : /\ OnLine(idx, n) \in 1 .. Len(events)
                                      /\ About(of, OnLine(idx, n))
           /\ \A n, m \in For(idx, of) : n < m => OnLine(idx, n) < OnLine(idx, m)
           /\ Cardinality(For(idx, of)) <= Len(events)
<1> DEFINE e(n) == OnLine(idx, n)
           k == Len(idx.offsets)
           L == For(idx, of)
<1>1. /\ \A p \in of : idx.lines[p] =
            {n \in 1 .. k : Concerns(events, LineOn(idx, file, events, n), p)}
      /\ k \in Nat /\ idx.fileSize <= Len(file) /\ idx.fileSize \in Nat
  BY DEF Now, IndexOK, IndexType
<1>2. ASSUME NEW n \in L
      PROVE  n \in 1 .. k /\ e(n) # 0 /\ About(of, e(n))
  <2>1. PICK p \in of : n \in idx.lines[p]
    BY DEF For
  <2>2. n \in 1 .. k /\ Concerns(events, e(n), p)
    BY <1>1, <2>1, Readings
  <2>3. QED
    BY <2>2 DEF Concerns, About
<1>3. ASSUME NEW n \in L
      PROVE  /\ e(n) \in 1 .. Len(events)
             /\ idx.offsets[n] \in Nat /\ EndOf(idx, n) \in Nat
             /\ EndOf(idx, n) <= Len(file)
             /\ \E i \in idx.offsets[n] + 1 .. EndOf(idx, n) : file[i] = <<e(n), 1>>
  <2>1. /\ idx.offsets[n] \in Nat /\ EndOf(idx, n) \in Nat
        /\ idx.offsets[n] < EndOf(idx, n)
        /\ EndOf(idx, n) <= idx.fileSize
    BY <1>2, EndFact DEF Now
  <2>2. Len(file) \in Nat
    BY DEF BytesOK
  <2>3. EndOf(idx, n) <= Len(file) /\ idx.offsets[n] <= EndOf(idx, n)
    BY <1>1, <2>1, <2>2
  <2>4. e(n) = On(file, events, idx.offsets[n], EndOf(idx, n))
    BY Readings DEF LineOn
  <2>5. e(n) # 0
    BY <1>2
  <2> DEFINE b == idx.offsets[n]
             t == EndOf(idx, n)
  <2>6. b \in Nat /\ t \in Nat /\ b <= t /\ t <= Len(file) /\ e(n) = On(file, events, b, t)
    BY <2>1, <2>3, <2>4
  <2> HIDE DEF b, t, e
  <2>7. /\ On(file, events, b, t) \in 1 .. Len(events)
        /\ \E i \in b + 1 .. t : file[i] = <<On(file, events, b, t), 1>>
    BY <2>5, <2>6, OnFact
  <2>8. QED
    BY <2>6, <2>7 DEF b, t
<1>4. ASSUME NEW n \in L, NEW m \in L, n < m PROVE e(n) < e(m)
  <2>1. PICK i \in idx.offsets[n] + 1 .. EndOf(idx, n) : file[i] = <<e(n), 1>>
    BY <1>3
  <2>2. PICK j \in idx.offsets[m] + 1 .. EndOf(idx, m) : file[j] = <<e(m), 1>>
    BY <1>3
  <2>3. EndOf(idx, n) <= idx.offsets[m]
    BY <1>2, <1>4, EndFact DEF Now
  <2>4. i < j /\ i \in 1 .. Len(file) /\ j \in 1 .. Len(file)
    <3> DEFINE b == idx.offsets[n]
               c == EndOf(idx, n)
               d == idx.offsets[m]
               t == EndOf(idx, m)
    <3>1. /\ Len(file) \in Nat /\ b \in Nat /\ c \in Nat /\ d \in Nat /\ t \in Nat
          /\ c <= d /\ c <= Len(file) /\ t <= Len(file)
          /\ i \in b + 1 .. c /\ j \in d + 1 .. t
      BY <1>3, <2>1, <2>2, <2>3 DEF BytesOK
    <3> HIDE DEF b, c, d, t
    <3>2. QED
      BY <3>1
  <2>5. file[i] # Newline /\ file[j] # Newline
    BY <2>1, <2>2 DEF Newline
  <2>6. Before(<<e(n), 1>>, <<e(m), 1>>)
    BY <2>1, <2>2, <2>4, <2>5 DEF BytesOK
  <2>7. QED
    BY <2>6 DEF Before
<1> HIDE DEF e, k
<1>5. L \in SUBSET (1 .. k) /\ L \in SUBSET Nat
  BY <1>1, <1>2
<1>6. IsFiniteSet(L)
  <2>1. IsFiniteSet(1 .. k)
    BY <1>1, IntervalFact
  <2>2. QED
    BY <1>5, <2>1, FS_Subset
<1>7. Cardinality(L) <= Len(events)
  <2> DEFINE onto == [n \in L |-> e(n)]
             T == 1 .. Len(events)
  <2>1. Len(events) \in Nat
    BY DEF BytesOK
  <2>2. IsFiniteSet(T) /\ Cardinality(T) = Len(events)
    BY <2>1, IntervalFact
  <2>3. \A n, m \in L : e(n) = e(m) => n = m
    <3>1. \A n \in L : n \in Nat /\ e(n) \in Nat
      BY <1>3, <1>5, <2>1 DEF e
    <3>2. QED
      BY <1>4, <3>1 DEF e
  <2>4. onto \in Injection(L, T)
    BY <1>3, <2>3 DEF Injection, IsInjective, e
  <2>5. QED
    BY <2>2, <2>4, FS_Injection
<1>8. QED
  BY <1>2, <1>3, <1>4, <1>5, <1>6, <1>7 DEF e

\* The sorted lines of some principals are those lines, each once.
LEMMA LinesOfFact ==
    ASSUME BytesOK(file, events, clean), NEW idx, Now(idx), NEW of \in SUBSET Principal
    PROVE  /\ LinesOf(idx, of) \in Seq(For(idx, of))
           /\ Len(LinesOf(idx, of)) = Cardinality(For(idx, of))
           /\ Cardinality(For(idx, of)) \in Nat
           /\ \A i, j \in 1 .. Len(LinesOf(idx, of)) :
                i < j => LinesOf(idx, of)[i] < LinesOf(idx, of)[j]
           /\ \A n \in For(idx, of) : \E i \in 1 .. Len(LinesOf(idx, of)) : LinesOf(idx, of)[i] = n
<1>1. LinesOf(idx, of) = Ascending(For(idx, of))
  BY DEF LinesOf, For
<1>2. For(idx, of) \in SUBSET Nat /\ IsFiniteSet(For(idx, of))
  BY LinesFact
<1> DEFINE L == For(idx, of)
           k == Cardinality(L)
           s == Ascending(L)
<1> HIDE DEF L
<1>3. /\ k \in Nat /\ s \in [1 .. k -> L]
      /\ \A i, j \in 1 .. k : i < j => s[i] < s[j]
      /\ \A n \in L : \E i \in 1 .. k : s[i] = n
  BY <1>2, AscendingFact DEF L
<1> HIDE DEF k, s
<1>4. s \in Seq(L) /\ Len(s) = k
  BY <1>3
<1>5. QED
  BY <1>1, <1>3, <1>4 DEF L, k, s

\* items are what is on the lines of a page of s that ends at end, newest first.
ItemsOK(idx, s, limit, end, items) ==
    \E start \in 0 .. end :
       /\ start = 0 \/ start = end - limit
       /\ start >= end - limit
       /\ DOMAIN items = 1 .. end - start
       /\ \A i \in 1 .. end - start : items[i] = OnLine(idx, s[end - i + 1])

\* The items of any page are what is on its lines, newest first.
LEMMA ItemsFact ==
    ASSUME BytesOK(file, events, clean), NEW idx, Now(idx), NEW of \in SUBSET Principal,
           NEW limit \in Nat \ {0}, NEW offset \in Nat, offset <= Len(LinesOf(idx, of))
    PROVE  ItemsOK(idx, LinesOf(idx, of), limit, Len(LinesOf(idx, of)) - offset,
                   ReadByPrincipal(idx, of, limit, offset).items)
<1> DEFINE s == LinesOf(idx, of)
           page == PageOf(s, limit, offset)
           k == Len(s) - offset
           items == ReadByPrincipal(idx, of, limit, offset).items
<1>1. s \in Seq(For(idx, of)) /\ Len(s) \in Nat /\ offset <= Len(s)
  BY LinesOfFact
<1>0. items = Reverse(ReadSpecificLines(idx, page))
  BY DEF ReadByPrincipal, PageOfTrail
<1> HIDE DEF s, items
<1>2. PICK start \in 0 .. k :
        /\ start = 0 \/ start = k - limit
        /\ start >= k - limit
        /\ page \in Seq(For(idx, of)) /\ Len(page) = k - start
        /\ \A j \in 1 .. k - start : page[j] = s[start + j]
  <2>1. PageOK(For(idx, of), s, limit, k, page)
    BY <1>1, PageFact
  <2> HIDE DEF page, k
  <2>2. QED
    BY <2>1 DEF PageOK
<1>3. k \in Nat /\ start \in Nat /\ start <= k
  BY <1>1, <1>2
<1> HIDE DEF page, k
<1>4. \A i \in 1 .. Len(page) : OnLine(idx, page[i]) # 0
  <2>1. \A n \in For(idx, of) : OnLine(idx, n) \in 1 .. Len(events)
    BY LinesFact
  <2>2. QED
    BY <1>2, <2>1
<1> DEFINE read == ReadSpecificLines(idx, page)
<1>5. read = [i \in 1 .. Len(page) |-> OnLine(idx, page[i])]
  BY <1>2, <1>4, ReadFact
<1>6. items = Reverse(read)
  BY <1>0
<1> HIDE DEF read
<1>7. /\ DOMAIN read = 1 .. k - start /\ Len(read) = k - start
      /\ \A j \in 1 .. k - start : read[j] = OnLine(idx, s[start + j])
  <2>1. read = [i \in 1 .. k - start |-> OnLine(idx, page[i])]
    BY <1>2, <1>5
  <2>2. k - start \in Nat
    BY <1>3
  <2>3. QED
    BY <1>2, <2>1, <2>2
<1>8. items = [i \in 1 .. k - start |-> read[k - start - i + 1]]
  BY <1>6, <1>7 DEF Reverse
<1>9. ASSUME NEW i \in 1 .. k - start
      PROVE  items[i] = OnLine(idx, s[k - i + 1])
  <2>1. k - start - i + 1 \in 1 .. k - start /\ start + (k - start - i + 1) = k - i + 1
    BY <1>3
  <2>2. items[i] = read[k - start - i + 1]
    BY <1>8
  <2>3. QED
    BY <1>7, <2>1, <2>2
<1>10. DOMAIN items = 1 .. k - start
  BY <1>8
<1>11. ItemsOK(idx, s, limit, k, items)
  BY <1>2, <1>9, <1>10 DEF ItemsOK
<1>12. QED
  BY <1>11 DEF s, k, items

\* A clean event has its line among those of whom it concerns.
LEMMA CleanHasLine ==
    ASSUME BytesOK(file, events, clean), NEW idx, Now(idx),
           NEW of \in SUBSET Principal, NEW e \in clean, About(of, e),
           NEW s \in Nat, WholeAt(file, events, e, s), s < idx.fileSize
    PROVE  \E n \in For(idx, of) : OnLine(idx, n) = e
<1>1. e \in 1 .. Len(events) /\ Len(events) \in Nat
  BY DEF BytesOK
<1>2. PICK n \in 1 .. Len(idx.offsets) :
        idx.offsets[n] = s /\ EndOf(idx, n) = s + events[e].size + 1
  BY DEF Now, IndexOK
<1>3. OnLine(idx, n) = e
  <2>1. TextAt(file, events, e, s)
    BY DEF WholeAt, TextAt
  <2>2. QED
    BY <1>1, <1>2, <2>1, WholeFact, Readings DEF LineOn
<1>4. PICK p \in of : p \in Principals(events[e])
  BY DEF About
<1>5. n \in idx.lines[p]
  <2>1. Concerns(events, LineOn(idx, file, events, n), p)
    BY <1>1, <1>3, <1>4, Readings DEF Concerns
  <2>2. QED
    BY <2>1 DEF Now, IndexOK
<1>6. QED
  BY <1>3, <1>5 DEF For

\* A clean event of the trail is before the end of the file.
LEMMA CleanInFile ==
    ASSUME BytesOK(file, events, clean), NEW e \in clean
    PROVE  \E s \in Nat : WholeAt(file, events, e, s) /\ s < Len(file)
<1>1. PICK s \in Nat : WholeAt(file, events, e, s)
  BY DEF BytesOK
<1>2. events[e] \in LogEvent /\ Len(file) \in Nat
  BY DEF BytesOK
<1>3. events[e].size \in Nat
  BY <1>2 DEF LogEvent
<1>4. s + events[e].size < Len(file)
  BY <1>1 DEF WholeAt
<1>5. s < Len(file)
  BY <1>2, <1>3, <1>4
<1>6. QED
  BY <1>1, <1>5

\* Any lines that a right index has can be read.
LEMMA ReadableFact ==
    ASSUME BytesOK(file, events, clean), NEW idx, Now(idx), NEW of \in SUBSET Principal,
           NEW lines \in Seq(For(idx, of))
    PROVE  Readable(idx, lines)
<1>1. ASSUME NEW n \in For(idx, of)
      PROVE  n <= Len(idx.offsets) /\ idx.offsets[n] <= EndOf(idx, n)
  <2>1. PICK p \in of : n \in idx.lines[p]
    BY DEF For
  <2>2. n \in 1 .. Len(idx.offsets) /\ Len(idx.offsets) \in Nat
    BY <2>1 DEF Now, IndexOK, IndexType
  <2>3. /\ idx.offsets[n] \in Nat /\ EndOf(idx, n) \in Nat
        /\ idx.offsets[n] < EndOf(idx, n)
    BY <2>2, EndFact DEF Now
  <2>4. QED
    BY <2>2, <2>3
<1>2. \A i \in DOMAIN lines : lines[i] \in For(idx, of)
  <2> DEFINE L == For(idx, of)
  <2>1. lines \in Seq(L)
    OBVIOUS
  <2> HIDE DEF L
  <2>2. \A i \in DOMAIN lines : lines[i] \in L
    BY <2>1
  <2>3. QED
    BY <2>2 DEF L
<1>3. ASSUME NEW i \in DOMAIN lines
      PROVE  lines[i] <= Len(idx.offsets) /\ idx.offsets[lines[i]] <= EndOf(idx, lines[i])
  <2> DEFINE n == lines[i]
  <2>1. n \in For(idx, of)
    BY <1>2
  <2> HIDE DEF n
  <2>2. n <= Len(idx.offsets) /\ idx.offsets[n] <= EndOf(idx, n)
    BY <1>1, <2>1
  <2>3. QED
    BY <2>2 DEF n
<1>4. QED
  BY <1>3 DEF Readable

\* With a right index the trail is exact.
LEMMA TrailRight ==
    ASSUME BytesOK(file, events, clean), NEW idx, idx = Ensured(Len(file)), Now(idx),
           idx.fileSize = Len(file), NEW of \in SUBSET Principal
    PROVE  TrailOf(of)
<1> DEFINE s == LinesOf(idx, of)
           k == Len(s)
           trail == ReadByPrincipal(idx, of, Len(events) + 1, 0).items
<1>1. /\ s \in Seq(For(idx, of)) /\ k \in Nat /\ Len(events) \in Nat
      /\ k <= Len(events)
      /\ \A i, j \in 1 .. k : i < j => s[i] < s[j]
      /\ \A n \in For(idx, of) : \E i \in 1 .. k : s[i] = n
  <2>1. s \in Seq(For(idx, of))
    BY LinesOfFact
  <2>2. k = Cardinality(For(idx, of))
    BY LinesOfFact
  <2>3. Cardinality(For(idx, of)) \in Nat
    BY LinesOfFact
  <2>4. \A i, j \in 1 .. k : i < j => s[i] < s[j]
    BY LinesOfFact
  <2>5. \A n \in For(idx, of) : \E i \in 1 .. k : s[i] = n
    BY LinesOfFact
  <2>6. Cardinality(For(idx, of)) <= Len(events)
    BY LinesFact
  <2>7. Len(events) \in Nat
    BY DEF BytesOK
  <2>8. k \in Nat /\ k <= Len(events)
    BY <2>2, <2>3, <2>6, <2>7
  <2>9. QED
    BY <2>1, <2>4, <2>5, <2>7, <2>8
<1>2. PICK start \in 0 .. k :
        /\ start = 0 \/ start = k - (Len(events) + 1)
        /\ DOMAIN trail = 1 .. k - start
        /\ \A i \in 1 .. k - start : trail[i] = OnLine(idx, s[k - i + 1])
  <2> DEFINE l == Len(events) + 1
  <2>1. l \in Nat \ {0} /\ 0 \in Nat /\ 0 <= Len(s) /\ k - 0 = k
    BY <1>1
  <2> HIDE DEF l
  <2>2. ItemsOK(idx, s, l, k - 0, trail)
    BY <2>1, ItemsFact DEF l
  <2>3. k - 0 = k /\ l = Len(events) + 1
    BY <1>1 DEF l
  <2> HIDE DEF s, k, trail
  <2>4. ItemsOK(idx, s, l, k, trail)
    BY <2>2, <2>3
  <2>5. QED
    BY <2>3, <2>4 DEF ItemsOK
<1> HIDE DEF s, k, trail
<1>3. /\ DOMAIN trail = 1 .. k
      /\ \A i \in 1 .. k : trail[i] = OnLine(idx, s[k - i + 1])
  <2>1. start = 0
    BY <1>1, <1>2
  <2>2. QED
    BY <1>1, <1>2, <2>1
<1>4. \A i \in 1 .. k : k - i + 1 \in 1 .. k /\ s[k - i + 1] \in For(idx, of)
  <2>1. \A i \in 1 .. k : k - i + 1 \in 1 .. k
    BY <1>1
  <2>2. \A i \in 1 .. k : s[i] \in For(idx, of)
    BY <1>1 DEF k
  <2>3. QED
    BY <2>1, <2>2
<1>5. \A i \in DOMAIN trail : About(of, trail[i])
  BY <1>3, <1>4, LinesFact
<1>6. ASSUME NEW i \in DOMAIN trail, NEW j \in DOMAIN trail, i < j
      PROVE  trail[i] > trail[j]
  <2>1. k - j + 1 < k - i + 1
    BY <1>1, <1>3, <1>6
  <2>2. s[k - j + 1] < s[k - i + 1]
    BY <1>1, <1>3, <1>4, <2>1
  <2>3. OnLine(idx, s[k - j + 1]) < OnLine(idx, s[k - i + 1])
    BY <1>3, <1>4, <2>2, LinesFact
  <2>4. trail[j] < trail[i]
    BY <1>3, <2>3
  <2>5. trail[i] \in Nat /\ trail[j] \in Nat
    <3>1. \A n \in For(idx, of) : OnLine(idx, n) \in 1 .. Len(events)
      BY LinesFact
    <3>2. trail[i] \in 1 .. Len(events) /\ trail[j] \in 1 .. Len(events)
      BY <1>3, <1>4, <3>1
    <3>3. QED
      BY <1>1, <3>2
  <2>6. QED
    BY <2>4, <2>5
<1>7. ASSUME NEW e \in clean, About(of, e) PROVE e \in ToSet(trail)
  <2>0. PICK b \in Nat : WholeAt(file, events, e, b) /\ b < Len(file)
    BY CleanInFile
  <2>1. PICK n \in For(idx, of) : OnLine(idx, n) = e
    BY <1>7, <2>0, CleanHasLine
  <2>2. PICK i \in 1 .. k : s[i] = n
    BY <1>1
  <2>3. k - i + 1 \in 1 .. k /\ k - (k - i + 1) + 1 = i
    BY <1>1
  <2>4. trail[k - i + 1] = e
    BY <1>3, <2>1, <2>2, <2>3
  <2>5. QED
    BY <1>3, <2>3, <2>4 DEF ToSet
<1>8. Readable(idx, LinesOf(idx, of))
  BY LinesOfFact, ReadableFact
<1>9. QED
  BY <1>5, <1>6, <1>7, <1>8 DEF TrailOf, trail

-----------------------------------------------------------------------------
(* The inductive invariant.                                                 *)

\* The lines that an index has for some principals after line n.
After(idx, of, n) == {m \in For(idx, of) : m > n}

\* Event e is still to come for a client whose cursor passed `cursor` lines.
Pending(idx, f, v, of, cursor, e) ==
    \E n \in For(idx, of) :
       LineOn(idx, f, v, n) = e /\ Cardinality(After(idx, of, n)) >= cursor

LogTypeOK ==
    /\ index \in IndexType \cup {NoIndex} /\ sound \in BOOLEAN /\ cuts \in Nat
    /\ stat \in [taken : BOOLEAN, size : Nat, from : Nat] /\ stat.from <= Len(events)
    /\ walk = [of |-> walk.of, limit |-> walk.limit, cursor |-> walk.cursor,
               seen |-> walk.seen, from |-> walk.from, ended |-> walk.ended,
               sound |-> walk.sound]
    /\ walk.of \in SUBSET Principal /\ walk.limit \in Nat \ {0}
    /\ walk.cursor \in Nat /\ walk.from \in Nat /\ walk.from <= Len(events)

IndexKept ==
    index # NoIndex => /\ sound => Now(index)
                       /\ cuts = 0 => index.fileSize <= Len(file)

\* What a read was told still parts no line when it reads, unless the log was
\* emptied in between; and the index does not reach further.
StatKept ==
    stat.taken =>
        /\ cuts = 0 \/ (index # NoIndex /\ sound) =>
              LookOK(stat.size, stat.from, file, events, clean)
        /\ cuts = 0 /\ index # NoIndex => index.fileSize <= stat.size

\* What the client has not seen is still before it.
WalkKept ==
    walk.of # {} /\ walk.sound /\ cuts = 0 =>
        \A e \in clean : e <= walk.from /\ About(walk.of, e) =>
            \/ e \in walk.seen
            \/ /\ ~walk.ended /\ index # NoIndex
               /\ sound => Pending(index, file, events, walk.of, walk.cursor, e)

LogInv ==
    /\ LogTypeOK /\ BytesOK(file, events, clean)
    /\ IndexKept /\ StatKept /\ WalkKept

-----------------------------------------------------------------------------
(* The log grows by an append.                                              *)

\* x is bytes of event n, in their order, and newlines.
AddsOf(x, n) == \A i \in 1 .. Len(x) : x[i] = Newline \/ x[i] = <<n, i>>

TextOf(e, n) == [k \in 1 .. e.size |-> <<n, k>>]

\* c is a with b after it; w is v with e after it.
Joined(C, a, b, c) ==
    /\ c \in Seq(C) /\ Len(c) = Len(a) + Len(b)
    /\ \A i \in 1 .. Len(a) : c[i] = a[i]
    /\ \A i \in 1 .. Len(b) : c[Len(a) + i] = b[i]

Appended(C, v, e, w) ==
    /\ w \in Seq(C) /\ Len(w) = Len(v) + 1 /\ w[Len(v) + 1] = e
    /\ \A i \in 1 .. Len(v) : w[i] = v[i]

LEMMA JoinFact ==
    ASSUME NEW C, NEW a \in Seq(C)
    PROVE  /\ \A b \in Seq(C) : Joined(C, a, b, a \o b)
           /\ \A e \in C : Appended(C, a, e, Append(a, e))
<1>1. \A b \in Seq(C) : Joined(C, a, b, a \o b)
  BY ConcatFact DEF Joined
<1>2. \A e \in C : Appended(C, a, e, Append(a, e))
  BY DEF Appended
<1>3. QED
  BY <1>1, <1>2

\* An append leaves the bytes of the log in the order of its events, and nothing
\* of an older event is written later.
LEMMA Grows ==
    ASSUME NEW f, NEW v, NEW whole, BytesOK(f, v, whole), NEW e \in LogEvent,
           NEW x \in Seq(Cell), AddsOf(x, Len(v) + 1),
           NEW g, Joined(Cell, f, x, g), NEW w, Appended(LogEvent, v, e, w)
    PROVE  /\ BytesOK(g, w, whole)
           /\ Extends(f, g) /\ Extends(v, w)
           /\ Len(w) = Len(v) + 1 /\ w[Len(v) + 1] = e
           /\ \A d \in 1 .. Len(w), s \in Nat :
                WholeAt(g, w, d, s) =>
                   (d = Len(v) + 1 <=> s >= Len(f)) /\ (s >= Len(f) => s = Len(f))
<1>1. /\ f \in Seq(Cell) /\ v \in Seq(LogEvent) /\ Len(f) \in Nat /\ Len(v) \in Nat
      /\ Len(x) \in Nat
  BY DEF BytesOK
<1>2. /\ g \in Seq(Cell) /\ Len(g) = Len(f) + Len(x)
      /\ \A i \in 1 .. Len(f) : g[i] = f[i]
      /\ \A i \in 1 .. Len(x) : g[Len(f) + i] = x[i]
  BY DEF Joined
<1>3. /\ w \in Seq(LogEvent) /\ Len(w) = Len(v) + 1 /\ w[Len(v) + 1] = e
      /\ \A i \in 1 .. Len(v) : w[i] = v[i]
  BY DEF Appended
<1>4. Extends(f, g) /\ Extends(v, w)
  BY <1>1, <1>2, <1>3 DEF Extends
<1>5. \A i \in 1 .. Len(g) :
         \/ i \in 1 .. Len(f) /\ g[i] = f[i]
         \/ /\ i > Len(f) /\ i \in Nat
            /\ g[i] = Newline \/ g[i] = <<Len(v) + 1, i - Len(f)>>
  <2> SUFFICES ASSUME NEW i \in 1 .. Len(g), i \notin 1 .. Len(f)
               PROVE  /\ i > Len(f) /\ i \in Nat
                      /\ g[i] = Newline \/ g[i] = <<Len(v) + 1, i - Len(f)>>
    BY <1>2
  <2>1. i - Len(f) \in 1 .. Len(x) /\ Len(f) + (i - Len(f)) = i
    BY <1>1, <1>2
  <2>2. g[i] = x[i - Len(f)]
    BY <1>2, <2>1
  <2>3. x[i - Len(f)] = Newline \/ x[i - Len(f)] = <<Len(v) + 1, i - Len(f)>>
    BY <2>1 DEF AddsOf
  <2>4. QED
    BY <1>1, <1>2, <2>2, <2>3
<1>6. \A i \in 1 .. Len(f) : f[i] # Newline => f[i][1] \in 1 .. Len(v)
  BY DEF BytesOK
<1>7. \A i \in 1 .. Len(g) : g[i] # Newline => g[i][1] \in 1 .. Len(w)
  BY <1>1, <1>3, <1>5, <1>6
<1>8. \A i, j \in 1 .. Len(g) :
         i < j /\ g[i] # Newline /\ g[j] # Newline => Before(g[i], g[j])
  <2> SUFFICES ASSUME NEW i \in 1 .. Len(g), NEW j \in 1 .. Len(g), i < j,
                      g[i] # Newline, g[j] # Newline
               PROVE  Before(g[i], g[j])
    OBVIOUS
  <2>1. CASE j \in 1 .. Len(f)
    <3>1. i \in 1 .. Len(f) /\ g[i] = f[i] /\ g[j] = f[j]
      BY <1>1, <1>2, <2>1
    <3>2. QED
      BY <2>1, <3>1 DEF BytesOK
  <2>2. CASE i \in 1 .. Len(f) /\ j \notin 1 .. Len(f)
    <3>1. g[i][1] \in 1 .. Len(v)
      <4>1. g[i] = f[i]
        BY <1>2, <2>2
      <4>2. QED
        BY <1>6, <2>2, <4>1
    <3>2. g[j][1] = Len(v) + 1
      <4>1. g[j] = <<Len(v) + 1, j - Len(f)>>
        BY <1>5, <2>2
      <4>2. QED
        BY <4>1
    <3>3. QED
      BY <1>1, <3>1, <3>2 DEF Before
  <2>3. CASE i \notin 1 .. Len(f) /\ j \notin 1 .. Len(f)
    <3>1. /\ g[i] = <<Len(v) + 1, i - Len(f)>> /\ g[j] = <<Len(v) + 1, j - Len(f)>>
      BY <1>5, <2>3
    <3>2. i - Len(f) < j - Len(f)
      BY <1>1, <1>2
    <3>3. QED
      BY <3>1, <3>2 DEF Before
  <2>4. QED
    BY <1>1, <1>2, <2>1, <2>2, <2>3
<1>9. ASSUME NEW d \in whole
      PROVE  d \in 1 .. Len(w) /\ \E s \in Nat : WholeAt(g, w, d, s)
  <2>1. d \in 1 .. Len(v)
    BY DEF BytesOK
  <2>2. PICK s \in Nat : WholeAt(f, v, d, s)
    BY DEF BytesOK
  <2>3. WholeAt(g, w, d, s)
    BY <1>1, <1>2, <1>3, <1>4, <2>1, <2>2, WholeStays
  <2>4. QED
    BY <1>1, <1>3, <2>1, <2>3
<1>10. BytesOK(g, w, whole)
  BY <1>2, <1>3, <1>7, <1>8, <1>9 DEF BytesOK
<1>11. ASSUME NEW d \in 1 .. Len(w), NEW s \in Nat, WholeAt(g, w, d, s)
       PROVE  (d = Len(v) + 1 <=> s >= Len(f)) /\ (s >= Len(f) => s = Len(f))
  <2>1. w[d].size \in Nat \ {0}
    <3>1. w[d] \in LogEvent
      BY <1>3
    <3>2. QED
      BY <3>1 DEF LogEvent
  <2>2. s + 1 \in 1 .. Len(g) /\ g[s + 1] = <<d, 1>> /\ d \in Nat
    <3>1. s + w[d].size < Len(g) /\ \A k \in 1 .. w[d].size : g[s + k] = <<d, k>>
      BY <1>11 DEF WholeAt
    <3>2. Len(g) \in Nat /\ 1 \in 1 .. w[d].size /\ d \in Nat
      BY <1>2, <1>3, <2>1
    <3>3. s + 1 \in 1 .. Len(g)
      BY <2>1, <3>1, <3>2
    <3>4. QED
      BY <3>1, <3>2, <3>3
  <2>3. PICK i \in 1 .. Len(g) : i = s + 1 /\ g[i] = <<d, 1>> /\ g[i] # Newline
    BY <2>2 DEF Newline
  <2>4. CASE i \in 1 .. Len(f)
    <3>1. g[i] = f[i]
      BY <1>2, <2>4
    <3>2. g[i][1] \in 1 .. Len(v)
      BY <1>6, <2>3, <2>4, <3>1
    <3>3. d \in 1 .. Len(v)
      BY <2>3, <3>2
    <3>4. QED
      BY <1>1, <2>3, <2>4, <3>3
  <2>5. CASE i \notin 1 .. Len(f)
    <3>1. g[i] = <<Len(v) + 1, i - Len(f)>>
      BY <1>5, <2>3, <2>5
    <3>2. d = Len(v) + 1 /\ i - Len(f) = 1
      BY <2>3, <3>1
    <3>3. QED
      BY <1>1, <2>3, <3>2
  <2>6. QED
    BY <2>4, <2>5
<1>12. QED
  BY <1>3, <1>4, <1>10, <1>11

LEMMA TextFact ==
    ASSUME NEW e \in LogEvent, NEW n \in Nat
    PROVE  /\ TextOf(e, n) \o <<Newline>> \in Seq(Cell)
           /\ AddsOf(TextOf(e, n) \o <<Newline>>, n)
           /\ Len(TextOf(e, n) \o <<Newline>>) = e.size + 1
           /\ \A k \in 1 .. e.size : (TextOf(e, n) \o <<Newline>>)[k] = <<n, k>>
           /\ (TextOf(e, n) \o <<Newline>>)[e.size + 1] = Newline
           /\ \A bytes \in 1 .. e.size : /\ SubSeq(TextOf(e, n), 1, bytes) \in Seq(Cell)
                                         /\ AddsOf(SubSeq(TextOf(e, n), 1, bytes), n)
<1> DEFINE z == e.size
           t == TextOf(e, n)
<1>1. z \in Nat \ {0}
  BY DEF LogEvent
<1> HIDE DEF z
<1>2. t \in Seq(Cell) /\ Len(t) = z /\ \A k \in 1 .. z : t[k] = <<n, k>>
  <2>1. t = [k \in 1 .. z |-> <<n, k>>] /\ \A k \in 1 .. z : <<n, k>> \in Cell
    BY <1>1 DEF z, Cell, TextOf
  <2> HIDE DEF t
  <2>2. QED
    BY <1>1, <2>1
<1> HIDE DEF t
<1>3. Newline \in Cell
  BY DEF Newline, Cell
<1> DEFINE nl == <<Newline>>
<1>4. nl \in Seq(Cell) /\ Len(nl) = 1 /\ nl[1] = Newline
  BY <1>3
<1> HIDE DEF nl
<1>5. /\ t \o nl \in Seq(Cell) /\ Len(t \o nl) = z + 1
      /\ \A k \in 1 .. z : (t \o nl)[k] = <<n, k>>
      /\ (t \o nl)[z + 1] = Newline
  <2>1. Joined(Cell, t, nl, t \o nl)
    BY <1>2, <1>4, JoinFact
  <2>2. QED
    BY <1>1, <1>2, <1>4, <2>1 DEF Joined
<1>6. AddsOf(t \o nl, n)
  <2>1. \A i \in 1 .. z + 1 : i \in 1 .. z \/ i = z + 1
    BY <1>1
  <2>2. QED
    BY <1>5, <2>1 DEF AddsOf
<1>7. ASSUME NEW bytes \in 1 .. z
      PROVE  SubSeq(t, 1, bytes) \in Seq(Cell) /\ AddsOf(SubSeq(t, 1, bytes), n)
  <2> DEFINE b == SubSeq(t, 1, bytes)
  <2>1. b \in Seq(Cell) /\ Len(b) = bytes /\ \A i \in 1 .. bytes : b[i] = t[i]
    BY <1>1, <1>2
  <2> HIDE DEF b
  <2>2. \A i \in 1 .. bytes : i \in 1 .. z
    BY <1>1
  <2>3. AddsOf(b, n)
    BY <1>2, <2>1, <2>2 DEF AddsOf
  <2>4. QED
    BY <2>1, <2>3 DEF b
<1>8. QED
  BY <1>5, <1>6, <1>7 DEF z, t, nl
\* What an append of e does to the log: f, v and whole become g, w and more.
Grew(f, v, whole, e, g, w, more) ==
    /\ BytesOK(g, w, more)
    /\ Extends(f, g) /\ Extends(v, w)
    /\ Len(w) = Len(v) + 1 /\ w[Len(v) + 1] = e
    /\ whole \subseteq more /\ more \subseteq whole \cup {Len(v) + 1}
    /\ \A d \in 1 .. Len(w), s \in Nat :
         WholeAt(g, w, d, s) =>
            (d = Len(v) + 1 <=> s >= Len(f)) /\ (s >= Len(f) => s = Len(f))

\* A line that reaches the file is a line of it, if the line before was whole.
LEMMA WriteGrows ==
    ASSUME BytesOK(file, events, clean), NEW e \in LogEvent, WriteLine(e)
    PROVE  /\ Grew(file, events, clean, e, file', events', clean')
           /\ TextAt(file', events', Len(events) + 1, Len(file))
           /\ Len(file') = Len(file) + e.size + 1
<1> DEFINE n == Len(events) + 1
           x == TextOf(e, n) \o <<Newline>>
<1>1. /\ file \in Seq(Cell) /\ events \in Seq(LogEvent) /\ Len(file) \in Nat
      /\ Len(events) \in Nat /\ n \in Nat
  BY DEF BytesOK
<1>2. Appended(LogEvent, events, e, events')
  BY <1>1, JoinFact DEF WriteLine
<1>3. file' = file \o x
  <2>1. events'[n] = e
    BY <1>2 DEF Appended
  <2>2. Text(n) = TextOf(e, n)
    BY <2>1 DEF Text, TextOf
  <2>3. file' = (file \o Text(n)) \o <<Newline>>
    BY DEF WriteLine
  <2>4. TextOf(e, n) \in Seq(Cell) /\ <<Newline>> \in Seq(Cell)
    <3>1. e.size \in Nat /\ <<0, 0>> \in Cell /\ \A k \in 1 .. e.size : <<n, k>> \in Cell
      BY <1>1 DEF LogEvent, Cell
    <3>2. QED
      BY <3>1 DEF TextOf, Newline
  <2>5. QED
    BY <1>1, <2>2, <2>3, <2>4
<1>4. /\ x \in Seq(Cell) /\ AddsOf(x, n) /\ Len(x) = e.size + 1
      /\ \A k \in 1 .. e.size : x[k] = <<n, k>>
      /\ x[e.size + 1] = Newline
  BY <1>1, TextFact
<1>5. e.size \in Nat
  BY DEF LogEvent
<1> HIDE DEF x
<1>6. Joined(Cell, file, x, file')
  BY <1>1, <1>3, <1>4, JoinFact
<1>7. /\ BytesOK(file', events', clean)
      /\ Extends(file, file') /\ Extends(events, events')
      /\ Len(events') = n /\ events'[n] = e
      /\ \A d \in 1 .. Len(events'), s \in Nat :
           WholeAt(file', events', d, s) =>
              (d = n <=> s >= Len(file)) /\ (s >= Len(file) => s = Len(file))
  BY <1>2, <1>4, <1>6, Grows
<1> HIDE DEF n
<1>8. Len(file') = Len(file) + e.size + 1
  BY <1>1, <1>4, <1>5, <1>6 DEF Joined
<1>9. TextAt(file', events', n, Len(file))
  <2>1. \A k \in 1 .. e.size + 1 : file'[Len(file) + k] = x[k]
    BY <1>4, <1>6 DEF Joined
  <2>2. \A k \in 1 .. e.size : k \in 1 .. e.size + 1
    BY <1>5
  <2>3. e.size + 1 \in 1 .. e.size + 1
        /\ Len(file) + (e.size + 1) = Len(file) + e.size + 1
    BY <1>1, <1>5
  <2>4. Len(file) + e.size < Len(file')
    BY <1>1, <1>5, <1>8
  <2>5. QED
    BY <1>4, <1>7, <2>1, <2>2, <2>3, <2>4 DEF TextAt
<1>10. BytesOK(file', events', clean')
  <2>1. CASE WholeEnd
    <3>1. clean' = clean \cup {n}
      BY <2>1 DEF WriteLine, n
    <3>2. Len(file) = 0 \/ file'[Len(file)] = Newline
      <4>1. CASE file = <<>>
        BY <4>1
      <4>2. CASE file # <<>>
        <5>1. Last(file) = Newline /\ Len(file) \in 1 .. Len(file)
          BY <1>1, <2>1, <4>2 DEF WholeEnd
        <5>2. file[Len(file)] = Newline
          BY <5>1 DEF Last
        <5>3. QED
          BY <1>7, <5>1, <5>2 DEF Extends
      <4>3. QED
        BY <4>1, <4>2
    <3>3. WholeAt(file', events', n, Len(file))
      BY <1>9, <3>2 DEF WholeAt, TextAt
    <3>4. n \in 1 .. Len(events')
      BY <1>1, <1>7 DEF n
    <3>5. QED
      BY <1>1, <1>7, <3>1, <3>3, <3>4 DEF BytesOK
  <2>2. CASE ~WholeEnd
    BY <1>7, <2>2 DEF WriteLine
  <2>3. QED
    BY <2>1, <2>2
<1>11. clean \subseteq clean' /\ clean' \subseteq clean \cup {n}
  BY DEF WriteLine, n
<1>12. QED
  BY <1>7, <1>8, <1>9, <1>10, <1>11 DEF Grew, n

LEMMA TornGrows ==
    ASSUME BytesOK(file, events, clean), NEW e \in LogEvent, NEW bytes \in 1 .. e.size,
           NEW ofServer, TornAppend(e, bytes, ofServer)
    PROVE  Grew(file, events, clean, e, file', events', clean')
<1> DEFINE n == Len(events) + 1
           x == SubSeq(TextOf(e, n), 1, bytes)
<1>1. /\ file \in Seq(Cell) /\ events \in Seq(LogEvent) /\ Len(events) \in Nat /\ n \in Nat
  BY DEF BytesOK
<1>2. Appended(LogEvent, events, e, events')
  BY <1>1, JoinFact DEF TornAppend
<1>3. file' = file \o x
  <2>1. events'[n] = e
    BY <1>2 DEF Appended
  <2>2. Text(n) = TextOf(e, n)
    BY <2>1 DEF Text, TextOf
  <2>3. QED
    BY <2>2 DEF TornAppend
<1>4. x \in Seq(Cell) /\ AddsOf(x, n)
  BY <1>1, TextFact
<1> HIDE DEF x
<1>5. Joined(Cell, file, x, file')
  BY <1>1, <1>3, <1>4, JoinFact
<1>6. /\ BytesOK(file', events', clean)
      /\ Extends(file, file') /\ Extends(events, events')
      /\ Len(events') = n /\ events'[n] = e
      /\ \A d \in 1 .. Len(events'), s \in Nat :
           WholeAt(file', events', d, s) =>
              (d = n <=> s >= Len(file)) /\ (s >= Len(file) => s = Len(file))
  BY <1>2, <1>4, <1>5, Grows
<1>7. clean' = clean
  BY DEF TornAppend
<1>8. QED
  BY <1>6, <1>7 DEF Grew

\* An index stays right when the log grows, and reads its lines as before.
LEMMA GrowthKeeps ==
    ASSUME NEW f, NEW v, NEW whole, BytesOK(f, v, whole), NEW e,
           NEW g, NEW w, NEW more, Grew(f, v, whole, e, g, w, more),
           NEW idx, IndexOK(idx, f, v, whole)
    PROVE  /\ IndexOK(idx, g, w, more)
           /\ \A n \in 1 .. Len(idx.offsets) : LineOn(idx, g, w, n) = LineOn(idx, f, v, n)
<1>1. /\ g \in Seq(Cell) /\ w \in Seq(LogEvent) /\ Extends(f, g) /\ Extends(v, w)
      /\ BytesOK(g, w, more) /\ more \subseteq 1 .. Len(w)
      /\ f \in Seq(Cell) /\ v \in Seq(LogEvent)
  BY DEF Grew, BytesOK
<1>2. \A d \in more \ whole, s \in Nat : WholeAt(g, w, d, s) => s >= Len(f)
  BY <1>1 DEF Grew
<1>3. IndexOK(idx, g, w, more)
  BY <1>1, <1>2, IndexStays
<1>4. ASSUME NEW n \in 1 .. Len(idx.offsets)
      PROVE  LineOn(idx, g, w, n) = LineOn(idx, f, v, n)
  <2>1. /\ idx.offsets[n] \in Nat /\ EndOf(idx, n) \in Nat
        /\ idx.offsets[n] < EndOf(idx, n) /\ EndOf(idx, n) <= idx.fileSize
        /\ idx.fileSize \in Nat
    BY EndFact
  <2>2. idx.fileSize <= Len(f) /\ Len(f) \in Nat
    BY <1>1 DEF IndexOK
  <2> DEFINE b == idx.offsets[n]
             c == EndOf(idx, n)
             d == idx.fileSize
  <2>3. b \in Nat /\ c \in Nat /\ b <= c /\ c <= Len(f)
    <3> HIDE DEF b, c, d
    <3>1. b \in Nat /\ c \in Nat /\ d \in Nat /\ b < c /\ c <= d /\ d <= Len(f)
      BY <2>1, <2>2 DEF b, c, d
    <3>2. QED
      BY <2>2, <3>1
  <2>4. QED
    BY <1>1, <2>3, OnStays DEF LineOn
<1>5. QED
  BY <1>3, <1>4

\* What was still to come stays so when the index gets more lines.
LEMMA PendingStays ==
    ASSUME NEW idx, NEW f, NEW v, NEW whole, IndexOK(idx, f, v, whole),
           NEW new, NEW g, NEW w, NEW more, IndexOK(new, g, w, more),
           \A p \in Principal : idx.lines[p] \subseteq new.lines[p],
           \A n \in 1 .. Len(idx.offsets) : LineOn(new, g, w, n) = LineOn(idx, f, v, n),
           NEW of \in SUBSET Principal, NEW cursor \in Nat, NEW e,
           Pending(idx, f, v, of, cursor, e)
    PROVE  Pending(new, g, w, of, cursor, e)
<1>1. PICK n \in For(idx, of) :
        LineOn(idx, f, v, n) = e /\ Cardinality(After(idx, of, n)) >= cursor
  BY DEF Pending
<1>2. For(idx, of) \subseteq For(new, of) /\ After(idx, of, n) \subseteq After(new, of, n)
  BY DEF For, After
<1>3. n \in 1 .. Len(idx.offsets)
  <2>1. \A p \in of : idx.lines[p] \subseteq 1 .. Len(idx.offsets)
    BY DEF IndexOK
  <2>2. QED
    BY <2>1 DEF For
<1>4. IsFiniteSet(After(new, of, n))
  <2>1. \A p \in of : new.lines[p] \subseteq 1 .. Len(new.offsets)
    BY DEF IndexOK
  <2>2. After(new, of, n) \in SUBSET (1 .. Len(new.offsets))
    BY <2>1 DEF For, After
  <2>3. Len(new.offsets) \in Nat
    BY DEF IndexOK, IndexType
  <2>4. IsFiniteSet(1 .. Len(new.offsets))
    BY <2>3, IntervalFact
  <2>5. QED
    BY <2>2, <2>4, FS_Subset
<1>5. Cardinality(After(new, of, n)) >= cursor
  <2>1. After(idx, of, n) \in SUBSET After(new, of, n)
    BY <1>2
  <2>2. /\ IsFiniteSet(After(idx, of, n))
        /\ Cardinality(After(idx, of, n)) <= Cardinality(After(new, of, n))
    BY <1>4, <2>1, FS_Subset
  <2>3. Cardinality(After(idx, of, n)) \in Nat /\ Cardinality(After(new, of, n)) \in Nat
    BY <1>4, <2>2, FS_CardinalityType
  <2>4. QED
    BY <1>1, <2>2, <2>3
<1>6. QED
  BY <1>1, <1>2, <1>3, <1>5 DEF Pending

-----------------------------------------------------------------------------
(* The index as a read finds it.                                            *)

\* Whatever is read into an index, as an index it is well formed.
LEMMA AddLinesType ==
    ASSUME file \in Seq(Cell), NEW idx \in IndexType, NEW end \in Nat, NEW size \in Nat
    PROVE  /\ AddLines(idx, end, size) \in IndexType
           /\ AddLines(idx, end, size).fileSize = size
<1> DEFINE from == idx.fileSize
           S == {b \in Starts(from, end) : b < end \/ Counted(from, b) < size}
           st == LinesRead(from, end, size)
           k == Cardinality(S)
           new == AddLines(idx, end, size)
           known == Len(idx.offsets)
<1>1. /\ from \in Nat /\ idx.offsets \in Seq(Nat)
      /\ idx.lines \in [Principal -> SUBSET Nat] /\ known \in Nat
      /\ DOMAIN file = 1 .. Len(file) /\ Len(file) \in Nat
  BY DEF IndexType
<1>2. ASSUME NEW to \in Nat
      PROVE  /\ Within(from, to) \in SUBSET Nat /\ IsFiniteSet(Within(from, to))
             /\ Counted(from, to) \in Nat
  <2>1. Within(from, to) \in SUBSET (1 .. Len(file))
    BY <1>1 DEF Within
  <2>2. IsFiniteSet(Within(from, to)) /\ Within(from, to) \in SUBSET Nat
    BY <1>1, <2>1, IntervalFact, FS_Subset
  <2> DEFINE B == {i \in Within(from, to) : Broken(i, from)}
  <2>3. B \in SUBSET Within(from, to)
    OBVIOUS
  <2>4. Cardinality(B) \in Nat
    BY <2>2, <2>3, FS_Subset, FS_CardinalityType
  <2>5. Counted(from, to) = to + 2 * Cardinality(B)
    BY DEF Counted
  <2> HIDE DEF B
  <2>6. QED
    BY <2>2, <2>4, <2>5
<1>3. S \in SUBSET Nat /\ IsFiniteSet(S)
  <2> DEFINE W == Within(from, end)
             N == {i \in W : file[i] = Newline}
  <2>1. W \in SUBSET Nat /\ IsFiniteSet(W)
    BY <1>2
  <2>2. N \in SUBSET W /\ Starts(from, end) = N \cup {from}
    BY DEF Starts
  <2> HIDE DEF N, W
  <2>3. IsFiniteSet(N) /\ N \in SUBSET Nat
    BY <2>1, <2>2, FS_Subset
  <2>4. IsFiniteSet(Starts(from, end)) /\ Starts(from, end) \in SUBSET Nat
    <3>1. IsFiniteSet(N \cup {from})
      BY <2>3, FS_AddElement
    <3>2. from \in Nat
      BY <1>1
    <3> HIDE DEF from
    <3>3. QED
      BY <2>2, <2>3, <3>1, <3>2
  <2>5. S \in SUBSET Starts(from, end)
    OBVIOUS
  <2>6. QED
    BY <2>4, <2>5, FS_Subset
<1>4. st = Ascending(S)
  BY DEF LinesRead
<1> HIDE DEF S
<1>5. k \in Nat /\ st \in [1 .. k -> Nat]
  <2>1. k \in Nat /\ Ascending(S) \in [1 .. k -> S]
    BY <1>3, AscendingFact
  <2>2. QED
    BY <1>3, <1>4, <2>1
<1> HIDE DEF st, k, from, known
<1>6. st \in Seq(Nat) /\ Len(st) = k
  BY <1>5
<1> DEFINE counts == [n \in 1 .. Len(st) |-> Counted(from, st[n])]
           all == idx.offsets \o counts
<1>7. all \in Seq(Nat)
  <2>1. \A n \in 1 .. Len(st) : Counted(from, st[n]) \in Nat
    BY <1>2, <1>5, <1>6
  <2>2. counts \in Seq(Nat)
    BY <1>5, <1>6, <2>1
  <2> HIDE DEF counts
  <2>3. QED
    BY <1>1, <2>2, ConcatFact
<1>8. new = [offsets |-> Trimmed(all, size), fileSize |-> size,
             lines |-> [p \in Principal |-> idx.lines[p] \cup
                {known + n : n \in Concerning(st, end, p)}]]
  BY DEF AddLines, st, known, from
<1> HIDE DEF new, all
<1>9. Trimmed(all, size) \in Seq(Nat)
  <2>1. all # <<>> => Front(all) \in Seq(Nat)
    BY <1>7 DEF Front
  <2>2. QED
    BY <1>7, <2>1 DEF Trimmed
<1>10. ASSUME NEW p \in Principal
       PROVE  idx.lines[p] \cup {known + n : n \in Concerning(st, end, p)} \in SUBSET Nat
  <2>1. \A n \in Concerning(st, end, p) : known + n \in Nat
    BY <1>1, <1>5, <1>6 DEF Concerning
  <2>2. idx.lines[p] \in SUBSET Nat
    BY <1>1
  <2>3. QED
    BY <2>1, <2>2
<1>11. QED
  BY <1>8, <1>9, <1>10 DEF IndexType, new

LEMMA EmptyRight ==
    ASSUME BytesOK(file, events, clean)
    PROVE  Now(EmptyIndex) /\ EmptyIndex \in IndexType /\ EmptyIndex.fileSize = 0
<1>1. /\ EmptyIndex.offsets = <<>> /\ EmptyIndex.fileSize = 0
      /\ EmptyIndex.lines = [p \in Principal |-> {}] /\ EmptyIndex \in IndexType
  BY DEF EmptyIndex, IndexType
<1>2. 1 .. Len(EmptyIndex.offsets) = {} /\ 0 <= Len(file)
  BY <1>1 DEF BytesOK
<1>3. \A s \in Nat : ~(s < EmptyIndex.fileSize)
  BY <1>1
<1> HIDE DEF EmptyIndex
<1>4. QED
  BY <1>1, <1>2, <1>3 DEF Now, IndexOK

\* idx after more was read into it, or as it was.
Extended(idx, new) ==
    /\ \A p \in Principal : idx.lines[p] \subseteq new.lines[p]
    /\ \A n \in 1 .. Len(idx.offsets) :
         LineOn(new, file, events, n) = LineOn(idx, file, events, n)

\* What a read finds is a right index as far as it was told the file reaches, if
\* nothing unsound came in; and then it is the one at hand with more lines, if
\* that did not reach further.
LEMMA EnsuredFact ==
    ASSUME LogInv, NEW size \in Nat, NEW from,
           index # NoIndex /\ sound => LookOK(size, from, file, events, clean)
    PROVE  /\ Ensured(size) \in IndexType /\ Ensured(size) # NoIndex
           /\ Ensured(size).fileSize = size
           /\ StaysSound(size) => Now(Ensured(size))
           /\ StaysSound(size) /\ Grown(size) => sound /\ Extended(index, Ensured(size))
<1> DEFINE idx == Ensured(size)
<1>1. /\ file \in Seq(Cell) /\ Len(file) \in Nat /\ BytesOK(file, events, clean)
      /\ index \in IndexType \cup {NoIndex}
  BY DEF LogInv, BytesOK, LogTypeOK
<1>2. NoIndex \notin IndexType
  BY LogAssumption DEF IndexType
<1>3. CASE Grown(size) /\ size = index.fileSize
  <2>1. idx = index /\ index # NoIndex
    BY <1>3 DEF Ensured, Grown
  <2>2. StaysSound(size) => sound
    BY <1>3 DEF StaysSound
  <2>3. sound => Now(index)
    BY <2>1 DEF LogInv, IndexKept
  <2> HIDE DEF idx
  <2>4. QED
    BY <1>1, <1>3, <2>1, <2>2, <2>3 DEF Extended, idx
<1>4. CASE Grown(size) /\ size # index.fileSize
  <2>1. /\ idx = AddLines(index, size, size) /\ index # NoIndex
        /\ index \in IndexType /\ index.fileSize < size
    <3>1. index \in IndexType
      BY <1>1, <1>4 DEF Grown
    <3>2. index.fileSize \in Nat
      BY <3>1 DEF IndexType
    <3>3. QED
      BY <1>1, <1>4, <3>1, <3>2 DEF Ensured, Grown
  <2> HIDE DEF idx
  <2>2. idx \in IndexType /\ idx.fileSize = size
    BY <1>1, <2>1, AddLinesType
  <2>3. ASSUME StaysSound(size) PROVE sound /\ Now(idx) /\ Extended(index, idx)
    <3>1. sound /\ ~Shifted(index.fileSize, size)
      BY <1>4, <2>1, <2>3 DEF StaysSound
    <3>2. /\ Now(index) /\ LookOK(size, from, file, events, clean)
          /\ index.fileSize <= size
      <4>1. index.fileSize \in Nat
        BY <2>1 DEF IndexType
      <4>2. QED
        BY <2>1, <3>1, <4>1 DEF LogInv, IndexKept
    <3>3. /\ Now(idx)
          /\ \A p \in Principal : index.lines[p] \subseteq idx.lines[p]
          /\ \A n \in 1 .. Len(index.offsets) : OnLine(idx, n) = OnLine(index, n)
      BY <1>1, <2>1, <3>1, <3>2, AddLinesRight
    <3>4. QED
      BY <3>1, <3>3, Readings DEF Extended
  <2>4. QED
    BY <1>2, <1>4, <2>2, <2>3 DEF idx
<1>5. CASE ~Grown(size) /\ size = 0
  <2>1. idx = EmptyIndex
    BY <1>5 DEF Ensured
  <2>2. Now(EmptyIndex) /\ EmptyIndex \in IndexType /\ EmptyIndex.fileSize = 0
    BY <1>1, EmptyRight
  <2> HIDE DEF idx
  <2>3. QED
    BY <1>2, <1>5, <2>1, <2>2 DEF idx
<1>6. CASE ~Grown(size) /\ size # 0
  <2>1. idx = AddLines(EmptyIndex, Len(file), size)
    BY <1>6 DEF Ensured
  <2>2. Now(EmptyIndex) /\ EmptyIndex \in IndexType /\ EmptyIndex.fileSize = 0
    BY <1>1, EmptyRight
  <2> HIDE DEF idx
  <2>3. idx \in IndexType /\ idx.fileSize = size
    BY <1>1, <2>1, <2>2, AddLinesType
  <2>4. ASSUME StaysSound(size) PROVE Now(idx)
    <3>1. size = Len(file) /\ ~Shifted(EmptyIndex.fileSize, size)
      BY <1>6, <2>2, <2>4 DEF StaysSound
    <3>2. LookOK(size, from, file, events, clean)
      BY <1>1, <3>1, LookNow
    <3>3. EmptyIndex.fileSize <= size /\ idx = AddLines(EmptyIndex, size, size)
      BY <2>1, <2>2, <3>1
    <3>4. QED
      BY <1>1, <2>2, <3>1, <3>2, <3>3, AddLinesRight
  <2>5. QED
    BY <1>2, <1>6, <2>3, <2>4 DEF idx
<1>7. QED
  BY <1>3, <1>4, <1>5, <1>6

\* The line that the server adds to its index is the one that it wrote.
LEMMA ExtendRight ==
    ASSUME BytesOK(file, events, clean), NEW e \in LogEvent, WriteLine(e),
           index # NoIndex, Now(index), index.fileSize = Len(file), ExtendIndex(e)
    PROVE  /\ IndexOK(index', file', events', clean')
           /\ \A p \in Principal : index.lines[p] \subseteq index'.lines[p]
           /\ \A n \in 1 .. Len(index.offsets) :
                LineOn(index', file', events', n) = LineOn(index, file, events, n)
<1> DEFINE k == Len(index.offsets)
           z == e.size
           d == Len(events) + 1
           end == Len(file)
<1>1. /\ Grew(file, events, clean, e, file', events', clean')
      /\ TextAt(file', events', d, end)
      /\ Len(file') = end + z + 1
  BY WriteGrows
<1>2. /\ IndexOK(index, file', events', clean')
      /\ \A n \in 1 .. k : LineOn(index, file', events', n) = LineOn(index, file, events, n)
  BY <1>1, GrowthKeeps DEF Now
<1>3. /\ index.offsets \in Seq(Nat) /\ k \in Nat /\ end \in Nat /\ z \in Nat \ {0}
      /\ index.lines \in [Principal -> SUBSET Nat] /\ Len(events) \in Nat
  BY DEF Now, IndexOK, IndexType, BytesOK, LogEvent
<1>4. /\ BytesOK(file', events', clean') /\ Len(events') = d /\ events'[d] = e
      /\ \A c \in 1 .. d, s \in Nat :
           WholeAt(file', events', c, s) =>
              (c = d <=> s >= end) /\ (s >= end => s = end)
  BY <1>1 DEF Grew
<1>5. /\ index'.offsets = Append(index.offsets, end)
      /\ index'.fileSize = end + z + 1
      /\ index'.lines = [p \in Principal |-> index.lines[p] \cup
                           (IF p \in Principals(e) THEN {k + 1} ELSE {})]
      /\ index' = [offsets |-> index'.offsets, fileSize |-> index'.fileSize,
                   lines |-> index'.lines]
  BY DEF ExtendIndex
<1>6. Appended(Nat, index.offsets, end, index'.offsets)
  BY <1>3, <1>5, JoinFact
<1>7. /\ index'.offsets \in Seq(Nat) /\ Len(index'.offsets) = k + 1
      /\ index'.offsets[k + 1] = end
      /\ \A n \in 1 .. k : index'.offsets[n] = index.offsets[n]
  BY <1>6 DEF Appended
<1> HIDE DEF k, z, d, end
<1>8. ASSUME NEW n \in 1 .. k PROVE EndOf(index', n) = EndOf(index, n)
  <2>1. CASE n < k
    <3>1. n + 1 \in 1 .. k /\ n < k + 1
      BY <1>3, <2>1
    <3>2. QED
      BY <1>7, <2>1, <3>1 DEF EndOf, k
  <2>2. CASE n = k
    <3>1. n < k + 1 /\ ~(n < k)
      BY <1>3, <2>2
    <3>2. QED
      BY <1>7, <2>2, <3>1 DEF EndOf, k, end
  <2>3. QED
    BY <1>3, <2>1, <2>2
<1>9. EndOf(index', k + 1) = end + z + 1
  BY <1>3, <1>5, <1>7 DEF EndOf
<1>10. \A n \in 1 .. k : LineOn(index', file', events', n) = LineOn(index, file', events', n)
  BY <1>7, <1>8 DEF LineOn
<1>11. LineOn(index', file', events', k + 1) = d
  <2>1. d \in 1 .. Len(events')
    BY <1>3, <1>4 DEF d
  <2>2. On(file', events', end, end + events'[d].size + 1) = d
    BY <1>1, <1>3, <1>4, <2>1, WholeFact
  <2>3. QED
    BY <1>4, <1>7, <1>9, <2>2 DEF LineOn, z
<1>12. \A n \in 1 .. k + 1 : n \in 1 .. k \/ n = k + 1
  BY <1>3
<1>13. ASSUME NEW p \in Principal
       PROVE  /\ index.lines[p] \subseteq index'.lines[p]
              /\ index'.lines[p] = {n \in 1 .. k + 1 :
                    Concerns(events', LineOn(index', file', events', n), p)}
  <2>1. index'.lines[p] = index.lines[p] \cup (IF p \in Principals(e) THEN {k + 1} ELSE {})
    BY <1>5
  <2>2. index.lines[p] = {n \in 1 .. k :
           Concerns(events', LineOn(index', file', events', n), p)}
    BY <1>2, <1>10 DEF IndexOK, k
  <2>3. Concerns(events', LineOn(index', file', events', k + 1), p) <=> p \in Principals(e)
    <3>1. d # 0
      BY <1>3 DEF d
    <3>2. QED
      BY <1>4, <1>11, <3>1 DEF Concerns
  <2>4. k + 1 \in 1 .. k + 1 /\ 1 .. k \subseteq 1 .. k + 1
    BY <1>3
  <2>5. QED
    BY <1>12, <2>1, <2>2, <2>3, <2>4
<1>14. index' \in IndexType
  <2>1. index'.lines \in [Principal -> SUBSET Nat]
    <3>1. \A p \in Principal : index'.lines[p] \in SUBSET Nat
      BY <1>13
    <3>2. QED
      BY <1>5, <3>1
  <2>2. end + z + 1 \in Nat
    BY <1>3
  <2>3. QED
    BY <1>5, <1>7, <2>1, <2>2 DEF IndexType
<1>15. /\ \A n \in 1 .. k : index.offsets[n] \in Nat /\ index.offsets[n] < end
       /\ \A m, n \in 1 .. k : m < n => index.offsets[m] < index.offsets[n]
  BY <1>3 DEF Now, IndexOK, k, end
<1>16. \A n \in 1 .. k + 1 : index'.offsets[n] < end + z + 1
  <2>1. end < end + z + 1
    BY <1>3
  <2>2. \A n \in 1 .. k : index.offsets[n] < end + z + 1
    BY <1>3, <1>15
  <2>3. QED
    BY <1>7, <1>12, <2>1, <2>2
<1>17. \A m, n \in 1 .. k + 1 : m < n => index'.offsets[m] < index'.offsets[n]
  <2> SUFFICES ASSUME NEW m \in 1 .. k + 1, NEW n \in 1 .. k + 1, m < n
               PROVE  index'.offsets[m] < index'.offsets[n]
    OBVIOUS
  <2>1. m \in 1 .. k
    BY <1>3
  <2>2. QED
    BY <1>7, <1>12, <1>15, <2>1
<1>18. ASSUME NEW c \in clean', NEW s \in Nat, WholeAt(file', events', c, s)
       PROVE  \E n \in 1 .. k + 1 :
                 index'.offsets[n] = s /\ EndOf(index', n) = s + events'[c].size + 1
  <2>1. c \in 1 .. d
    BY <1>4 DEF BytesOK
  <2>2. CASE s >= end
    <3>1. c = d /\ s = end
      BY <1>4, <1>18, <2>1, <2>2
    <3>2. k + 1 \in 1 .. k + 1
      BY <1>3
    <3>3. QED
      BY <1>4, <1>7, <1>9, <3>1, <3>2 DEF z
  <2>3. CASE ~(s >= end)
    <3>1. s < index.fileSize
      BY <1>3, <2>3 DEF end
    <3>2. PICK n \in 1 .. k :
            index.offsets[n] = s /\ EndOf(index, n) = s + events'[c].size + 1
      BY <1>2, <1>18, <3>1 DEF IndexOK, k
    <3>3. n \in 1 .. k + 1
      BY <1>3
    <3>4. QED
      BY <1>7, <1>8, <3>2, <3>3
  <2>4. QED
    BY <2>2, <2>3
<1>19. IndexOK(index', file', events', clean')
  <2>1. index'.fileSize <= Len(file')
    BY <1>1, <1>3, <1>5
  <2>2. \A n \in 1 .. Len(index'.offsets) : index'.offsets[n] < index'.fileSize
    BY <1>5, <1>7, <1>16
  <2>3. \A m, n \in 1 .. Len(index'.offsets) :
          m < n => index'.offsets[m] < index'.offsets[n]
    BY <1>7, <1>17
  <2>4. \A p \in Principal : index'.lines[p] = {n \in 1 .. Len(index'.offsets) :
                                   Concerns(events', LineOn(index', file', events', n), p)}
    BY <1>7, <1>13
  <2>5. \A c \in clean', s \in Nat : WholeAt(file', events', c, s) =>
          \E n \in 1 .. Len(index'.offsets) :
             index'.offsets[n] = s /\ EndOf(index', n) = s + events'[c].size + 1
    BY <1>7, <1>18
  <2>6. QED
    BY <1>14, <2>1, <2>2, <2>3, <2>4, <2>5 DEF IndexOK
<1>20. QED
  BY <1>2, <1>10, <1>13, <1>19 DEF k

-----------------------------------------------------------------------------
(* Pages and what is still to come.                                         *)

\* The lines after the i-th of some numbers are all but i of them.
LEMMA AfterCount ==
    ASSUME NEW S \in SUBSET Nat, IsFiniteSet(S), NEW i \in 1 .. Cardinality(S)
    PROVE  Cardinality({m \in S : m > Ascending(S)[i]}) = Cardinality(S) - i
<1> DEFINE n == Ascending(S)[i]
<1>1. n \in S /\ Cardinality(UpTo(S, n)) = i
  BY AscendingFact
<1> HIDE DEF n
<1>2. {m \in S : m > n} = S \ UpTo(S, n) /\ S \cap UpTo(S, n) = UpTo(S, n)
  <2>1. \A m \in S : m > n <=> ~(m <= n)
    BY <1>1
  <2>2. QED
    BY <2>1 DEF UpTo
<1>3. Cardinality(S \ UpTo(S, n)) = Cardinality(S) - Cardinality(S \cap UpTo(S, n))
  BY FS_Difference
<1>4. QED
  BY <1>1, <1>2, <1>3 DEF n

\* A page shows what is before its cursor, or leaves it before the next one.
LEMMA PageCovers ==
    ASSUME BytesOK(file, events, clean), NEW idx, Now(idx), NEW of \in SUBSET Principal,
           NEW limit \in Nat \ {0}, NEW offset \in Nat, NEW e,
           Pending(idx, file, events, of, offset, e)
    PROVE  \/ e \in ToSet(ReadByPrincipal(idx, of, limit, offset).items)
           \/ /\ offset + limit < ReadByPrincipal(idx, of, limit, offset).total
              /\ Pending(idx, file, events, of, offset + limit, e)
<1> DEFINE s == LinesOf(idx, of)
           k == Len(s)
           L == For(idx, of)
           items == ReadByPrincipal(idx, of, limit, offset).items
           total == ReadByPrincipal(idx, of, limit, offset).total
<1>1. L = For(idx, of) /\ s = Ascending(L)
  BY DEF For, LinesOf
<1>2. L \in SUBSET Nat /\ IsFiniteSet(L)
  BY LinesFact
<1>3. /\ s \in Seq(L) /\ k = Cardinality(L) /\ k \in Nat
      /\ \A n \in L : \E i \in 1 .. k : s[i] = n
  BY LinesOfFact
<1>4. PICK n \in L : /\ LineOn(idx, file, events, n) = e
                     /\ Cardinality(After(idx, of, n)) >= offset
  BY <1>1 DEF Pending
<1>5. PICK i \in 1 .. k : s[i] = n
  BY <1>3
<1>6. Cardinality(After(idx, of, n)) = k - i
  BY <1>1, <1>2, <1>3, <1>5, AfterCount DEF After
<1>7. total = k
  BY DEF ReadByPrincipal
<1>8. offset <= k - i /\ offset <= k
  BY <1>3, <1>4, <1>6
<1>9. ItemsOK(idx, s, limit, k - offset, items)
  BY <1>8, ItemsFact
<1> HIDE DEF s, L, k, items, total
<1>10. PICK start \in 0 .. k - offset :
          /\ start = 0 \/ start = k - offset - limit
          /\ DOMAIN items = 1 .. k - offset - start
          /\ \A j \in 1 .. k - offset - start :
               items[j] = OnLine(idx, s[k - offset - j + 1])
  BY <1>9 DEF ItemsOK
<1>11. /\ k \in Nat /\ i \in Nat /\ 1 <= i /\ i <= k /\ start \in Nat
       /\ limit \in Nat /\ offset <= k - i
       /\ start = 0 \/ start = k - offset - limit
  BY <1>3, <1>8, <1>10
<1>12. CASE i > start
  <2> DEFINE j == k - offset - i + 1
  <2>1. j \in 1 .. k - offset - start /\ k - offset - j + 1 = i
    BY <1>12, <1>11
  <2> HIDE DEF j
  <2>2. items[j] = OnLine(idx, n)
    BY <1>5, <1>10, <2>1
  <2>3. items[j] = e /\ j \in DOMAIN items
    BY <1>4, <1>10, <2>1, <2>2, Readings
  <2>4. e \in ToSet(items)
    BY <2>3 DEF ToSet
  <2>5. QED
    BY <2>4 DEF items
<1>13. CASE ~(i > start)
  <2>1. start = k - offset - limit /\ offset + limit <= k - i /\ offset + limit < k
    BY <1>13, <1>11
  <2>2. Pending(idx, file, events, of, offset + limit, e)
    BY <1>1, <1>4, <1>6, <2>1 DEF Pending
  <2>3. QED
    BY <1>7, <2>1, <2>2 DEF total
<1>14. QED
  BY <1>12, <1>13

\* A clean event has its line before the cursor of the first page.
LEMMA AllPending ==
    ASSUME BytesOK(file, events, clean), NEW idx, Now(idx),
           NEW of \in SUBSET Principal, NEW e \in clean, About(of, e),
           NEW s \in Nat, WholeAt(file, events, e, s), s < idx.fileSize
    PROVE  Pending(idx, file, events, of, 0, e)
<1>1. PICK n \in For(idx, of) : OnLine(idx, n) = e
  BY CleanHasLine
<1>2. IsFiniteSet(After(idx, of, n))
  <2>1. IsFiniteSet(For(idx, of))
    BY LinesFact
  <2>2. After(idx, of, n) \in SUBSET For(idx, of)
    BY DEF After
  <2>3. QED
    BY <2>1, <2>2, FS_Subset
<1>3. Cardinality(After(idx, of, n)) \in Nat
  BY <1>2, FS_CardinalityType
<1>4. QED
  BY <1>1, <1>3, Readings DEF Pending

-----------------------------------------------------------------------------
(* The invariant holds from the start and through every step.               *)

LEMMA LogInitInv == LogInit => LogInv
<1> SUFFICES ASSUME LogInit PROVE LogInv
  OBVIOUS
<1>1. LogTypeOK
  BY DEF LogInit, LogTypeOK, NoWalk, NoStat
<1>2. BytesOK(file, events, clean)
  BY DEF LogInit, BytesOK
<1>3. IndexKept
  BY DEF LogInit, IndexKept
<1>4. WalkKept
  BY DEF LogInit, WalkKept
<1>5. StatKept
  BY DEF LogInit, StatKept, NoStat
<1>6. QED
  BY <1>1, <1>2, <1>3, <1>4, <1>5 DEF LogInv

\* What a client has before it when the log grows and the walk does not go on.
LEMMA WalkGrows ==
    ASSUME LogInv, NEW e, Grew(file, events, clean, e, file', events', clean'),
           walk' = walk, cuts' = cuts,
           index # NoIndex =>
              /\ index' # NoIndex
              /\ sound' => /\ sound /\ IndexOK(index', file', events', clean')
                           /\ \A p \in Principal : index.lines[p] \subseteq index'.lines[p]
                           /\ \A n \in 1 .. Len(index.offsets) :
                                LineOn(index', file', events', n)
                                  = LineOn(index, file, events, n)
    PROVE  WalkKept'
<1> SUFFICES ASSUME walk.of # {}, walk.sound, cuts = 0, NEW d \in clean',
                    d <= walk.from, (About(walk.of, d))', d \notin walk.seen
             PROVE  /\ ~walk.ended /\ index' # NoIndex
                    /\ sound' => Pending(index', file', events', walk.of, walk.cursor, d)
  BY DEF WalkKept
<1>1. /\ walk.from \in Nat /\ walk.from <= Len(events) /\ Len(events) \in Nat
      /\ walk.of \in SUBSET Principal /\ walk.cursor \in Nat
  BY DEF LogInv, LogTypeOK, BytesOK
<1>2. d \in clean /\ d \in 1 .. Len(events) /\ events'[d] = events[d]
  <2>1. d \in 1 .. Len(events')
    BY DEF Grew, BytesOK
  <2>2. d # Len(events) + 1 /\ d \in 1 .. Len(events)
    BY <1>1, <2>1 DEF Grew
  <2>3. QED
    BY <2>2 DEF Grew, Extends
<1>3. About(walk.of, d)
  BY <1>2 DEF About
<1>4. /\ ~walk.ended /\ index # NoIndex
      /\ sound => Pending(index, file, events, walk.of, walk.cursor, d)
  BY <1>2, <1>3 DEF LogInv, WalkKept
<1>5. ASSUME sound' PROVE Pending(index', file', events', walk.of, walk.cursor, d)
  <2>1. Now(index)
    BY <1>4, <1>5 DEF LogInv, IndexKept
  <2>2. Pending(index, file, events, walk.of, walk.cursor, d)
    BY <1>4, <1>5
  <2>3. /\ IndexOK(index, file, events, clean)
        /\ IndexOK(index', file', events', clean')
        /\ \A p \in Principal : index.lines[p] \subseteq index'.lines[p]
        /\ \A n \in 1 .. Len(index.offsets) :
             LineOn(index', file', events', n) = LineOn(index, file, events, n)
    BY <1>4, <1>5, <2>1 DEF Now
  <2>4. QED
    BY <1>1, <2>2, <2>3, PendingStays
<1>6. QED
  BY <1>4, <1>5

\* What a read was told stays so when the log grows.
LEMMA LookGrows ==
    ASSUME NEW f, NEW v, NEW whole, BytesOK(f, v, whole), NEW e,
           NEW g, NEW w, NEW more, Grew(f, v, whole, e, g, w, more),
           NEW size \in Nat, NEW from \in Nat, from <= Len(v),
           LookOK(size, from, f, v, whole)
    PROVE  LookOK(size, from, g, w, more)
<1>1. /\ f \in Seq(Cell) /\ v \in Seq(LogEvent) /\ g \in Seq(Cell) /\ w \in Seq(LogEvent)
      /\ Len(f) \in Nat /\ Len(g) \in Nat /\ Len(v) \in Nat /\ Len(w) = Len(v) + 1
      /\ Extends(f, g) /\ Extends(v, w) /\ Len(f) <= Len(g) /\ size <= Len(f)
      /\ BytesOK(g, w, more) /\ more \subseteq 1 .. Len(w)
  BY DEF Grew, BytesOK, Extends, LookOK
<1>2. ASSUME NEW d \in more, NEW s \in Nat, WholeAt(g, w, d, s)
      PROVE  (d <= from => s < size) /\ (s < size => s + w[d].size < size)
  <2>1. /\ d \in 1 .. Len(v) + 1
        /\ d = Len(v) + 1 <=> s >= Len(f)
    BY <1>1, <1>2 DEF Grew
  <2>2. CASE d = Len(v) + 1
    <3>1. ~(d <= from) /\ ~(s < size)
      BY <1>1, <2>1, <2>2
    <3>2. QED
      BY <3>1
  <2>3. CASE d # Len(v) + 1
    <3>1. d \in whole /\ d \in 1 .. Len(v) /\ w[d] = v[d]
      BY <1>1, <2>1, <2>3 DEF Grew, Extends
    <3>2. PICK t \in Nat : WholeAt(f, v, d, t)
      BY <3>1 DEF BytesOK
    <3>3. WholeAt(g, w, d, t)
      BY <1>1, <3>1, <3>2, WholeStays
    <3>4. s = t
      BY <1>1, <1>2, <3>3, WholeOnce
    <3>5. QED
      BY <3>1, <3>2, <3>4 DEF LookOK
  <2>4. QED
    BY <2>2, <2>3
<1>3. size <= Len(g)
  BY <1>1
<1>4. QED
  BY <1>2, <1>3 DEF LookOK

\* What a command appends leaves the index right as far as it goes.
LEMMA AppendKeeps ==
    ASSUME LogInv, NEW e \in LogEvent, Grew(file, events, clean, e, file', events', clean'),
           UNCHANGED <<index, stat, sound, walk, cuts>>
    PROVE  LogInv'
<1>1. /\ Len(file) \in Nat /\ Len(file') \in Nat /\ Len(file) <= Len(file')
      /\ Len(events) \in Nat /\ Len(events') = Len(events) + 1
      /\ BytesOK(file', events', clean') /\ BytesOK(file, events, clean)
  <2>1. BytesOK(file', events', clean') /\ BytesOK(file, events, clean)
    BY DEF Grew, LogInv
  <2>2. Len(file) <= Len(file') /\ Len(events') = Len(events) + 1
    BY DEF Grew, Extends
  <2>3. /\ Len(file) \in Nat /\ Len(events) \in Nat /\ Len(file') \in Nat
    BY <2>1, LengthFact
  <2>4. QED
    BY <2>1, <2>2, <2>3
<1>2. LogTypeOK'
  BY <1>1 DEF LogInv, LogTypeOK
<1>3. ASSUME index # NoIndex, sound
      PROVE  /\ IndexOK(index', file', events', clean')
             /\ \A n \in 1 .. Len(index.offsets) :
                  LineOn(index', file', events', n) = LineOn(index, file, events, n)
  <2>1. IndexOK(index, file, events, clean)
    BY <1>3 DEF LogInv, IndexKept, Now
  <2>2. QED
    BY <1>1, <2>1, GrowthKeeps
<1>4. IndexKept'
  <2>1. index # NoIndex => index.fileSize \in Nat
    BY DEF LogInv, LogTypeOK, IndexType
  <2>2. QED
    BY <1>1, <1>3, <2>1 DEF LogInv, IndexKept, Now
<1>5. WalkKept'
  BY <1>3, WalkGrows
<1>6. StatKept'
  <2>1. stat.size \in Nat /\ stat.from \in Nat /\ stat.from <= Len(events)
    BY DEF LogInv, LogTypeOK
  <2>2. LookOK(stat.size, stat.from, file, events, clean)
          => LookOK(stat.size, stat.from, file', events', clean')
    BY <1>1, <2>1, LookGrows
  <2>3. StatKept
    BY DEF LogInv
  <2>4. QED
    BY <2>2, <2>3 DEF StatKept
<1>7. QED
  BY <1>1, <1>2, <1>4, <1>5, <1>6 DEF LogInv

LEMMA ServerAppendKeeps ==
    ASSUME LogInv, NEW e \in LogEvent, ServerAppend(e)
    PROVE  LogInv'
<1>1. /\ WriteLine(e) /\ ExtendIndex(e) /\ walk' = walk /\ stat' = stat /\ cuts' = cuts
      /\ BytesOK(file, events, clean) /\ ~stat.taken
  BY DEF ServerAppend, LogInv
<1>2. /\ Grew(file, events, clean, e, file', events', clean')
      /\ Len(file') = Len(file) + e.size + 1
  BY <1>1, WriteGrows
<1>3. CASE index = NoIndex
  <2>1. UNCHANGED <<index, stat, sound, walk, cuts>>
    BY <1>1, <1>3 DEF ExtendIndex
  <2>2. QED
    BY <1>2, <2>1, AppendKeeps
<1>4. CASE index # NoIndex
  <2>1. /\ sound' = (sound /\ index.fileSize = Len(file))
        /\ index'.fileSize = index.fileSize + e.size + 1
    BY <1>1, <1>4 DEF ExtendIndex
  <2>2. index \in IndexType /\ Len(file) \in Nat /\ e.size \in Nat
    BY <1>4 DEF LogInv, LogTypeOK, BytesOK, LogEvent
  <2>3. index' \in IndexType
    <3>1. /\ index.offsets \in Seq(Nat) /\ index.fileSize \in Nat
          /\ index.lines \in [Principal -> SUBSET Nat] /\ Len(index.offsets) + 1 \in Nat
      BY <2>2 DEF IndexType
    <3>2. /\ Append(index.offsets, index.fileSize) \in Seq(Nat)
          /\ index.fileSize + e.size + 1 \in Nat
      BY <2>2, <3>1
    <3>3. [p \in Principal |-> index.lines[p] \cup
             (IF p \in Principals(e) THEN {Len(index.offsets) + 1} ELSE {})]
               \in [Principal -> SUBSET Nat]
      BY <3>1
    <3>4. index' = [offsets |-> Append(index.offsets, index.fileSize),
                    fileSize |-> index.fileSize + e.size + 1,
                    lines |-> [p \in Principal |-> index.lines[p] \cup
                       (IF p \in Principals(e) THEN {Len(index.offsets) + 1} ELSE {})]]
      BY <1>1, <1>4 DEF ExtendIndex
    <3>5. QED
      BY <3>2, <3>3, <3>4 DEF IndexType
  <2>4. index' # NoIndex
    BY <2>3, LogAssumption DEF IndexType
  <2>5. ASSUME sound'
        PROVE  /\ sound /\ IndexOK(index', file', events', clean')
               /\ \A p \in Principal : index.lines[p] \subseteq index'.lines[p]
               /\ \A n \in 1 .. Len(index.offsets) :
                    LineOn(index', file', events', n) = LineOn(index, file, events, n)
    <3>1. sound /\ index.fileSize = Len(file) /\ Now(index)
      BY <1>4, <2>1, <2>5 DEF LogInv, IndexKept
    <3>2. QED
      BY <1>1, <1>4, <3>1, ExtendRight
  <2>6. LogTypeOK'
    <3>1. sound' \in BOOLEAN
      BY <2>1
    <3>2. Len(events') \in Nat /\ Len(events) \in Nat /\ Len(events) <= Len(events')
      BY <1>2 DEF Grew, LogInv, BytesOK
    <3>3. QED
      BY <1>1, <2>3, <3>1, <3>2 DEF LogInv, LogTypeOK
  <2>7. IndexKept'
    <3>1. cuts = 0 => index.fileSize <= Len(file)
      BY <1>4 DEF LogInv, IndexKept
    <3>2. index.fileSize \in Nat
      BY <2>2 DEF IndexType
    <3>3. cuts' = 0 => index'.fileSize <= Len(file')
      BY <1>1, <1>2, <2>1, <2>2, <3>1, <3>2
    <3>4. QED
      BY <2>5, <3>3 DEF IndexKept, Now
  <2>8. WalkKept'
    BY <1>1, <1>2, <2>4, <2>5, WalkGrows
  <2>9. StatKept'
    BY <1>1 DEF StatKept
  <2>10. QED
    BY <1>2, <2>6, <2>7, <2>8, <2>9 DEF LogInv, Grew
<1>5. QED
  BY <1>3, <1>4
\* Without an index nothing is claimed of it, nor of a walk that lost it.
LEMMA RestartKeeps ==
    ASSUME LogInv, BytesOK(file', events', clean'), Len(events) <= Len(events'),
           Restarted, cuts' = cuts
    PROVE  LogInv'
<1>1. /\ index' = NoIndex /\ stat' = NoStat /\ sound' = TRUE
      /\ walk' = [walk EXCEPT !.sound = FALSE]
  BY DEF Restarted
<1>2. /\ walk'.of = walk.of /\ walk'.limit = walk.limit /\ walk'.cursor = walk.cursor
      /\ walk'.from = walk.from /\ walk'.sound = FALSE
      /\ walk' = [of |-> walk'.of, limit |-> walk'.limit, cursor |-> walk'.cursor,
                  seen |-> walk'.seen, from |-> walk'.from, ended |-> walk'.ended,
                  sound |-> walk'.sound]
  BY <1>1 DEF LogInv, LogTypeOK
<1>3. Len(events) \in Nat /\ Len(events') \in Nat
  BY DEF LogInv, BytesOK
<1>4. LogTypeOK'
  BY <1>1, <1>2, <1>3 DEF LogInv, LogTypeOK, NoStat
<1>5. IndexKept' /\ StatKept' /\ WalkKept'
  BY <1>1, <1>2 DEF IndexKept, StatKept, NoStat, WalkKept
<1>6. QED
  BY <1>4, <1>5 DEF LogInv

LEMMA TruncateKeeps == ASSUME LogInv, Truncate PROVE LogInv'
<1>1. /\ file' = <<>> /\ clean' = {} /\ cuts' = cuts + 1 /\ sound' = (index = NoIndex)
      /\ UNCHANGED <<events, index, stat, walk>>
  BY DEF Truncate
<1>2. BytesOK(file', events', clean')
  BY <1>1 DEF LogInv, BytesOK
<1>3. cuts' \in Nat /\ cuts' # 0
  BY <1>1 DEF LogInv, LogTypeOK
<1>4. LogTypeOK'
  BY <1>1, <1>3 DEF LogInv, LogTypeOK
<1>5. IndexKept' /\ StatKept' /\ WalkKept'
  BY <1>1, <1>3 DEF IndexKept, StatKept, WalkKept
<1>6. QED
  BY <1>2, <1>4, <1>5 DEF LogInv

\* What a read is told is so of the file at that moment.
LEMMA StatLogKeeps == ASSUME LogInv, StatLog PROVE LogInv'
<1>1. /\ stat' = [taken |-> TRUE, size |-> Len(file), from |-> Len(events)]
      /\ UNCHANGED <<file, events, index, walk, sound, clean, cuts>>
  BY DEF StatLog
<1>2. Len(file) \in Nat /\ Len(events) \in Nat /\ BytesOK(file, events, clean)
  BY DEF LogInv, BytesOK
<1>3. LookOK(Len(file), Len(events), file, events, clean)
  BY <1>2, LookNow
<1>4. LogTypeOK'
  BY <1>1, <1>2 DEF LogInv, LogTypeOK
<1>5. StatKept'
  BY <1>1, <1>3 DEF LogInv, IndexKept, StatKept
<1>6. IndexKept' /\ WalkKept'
  BY <1>1 DEF LogInv, IndexKept, WalkKept, Now, About
<1>7. (BytesOK(file, events, clean))'
  BY <1>1, <1>2
<1>8. QED
  BY <1>4, <1>5, <1>6, <1>7 DEF LogInv

\* A read leaves a right index, or one that is said not to be.
LEMMA EnsureKeeps ==
    ASSUME LogInv, EnsureIndex, UNCHANGED <<file, events, clean, cuts>>, NEW idx,
           idx = Ensured(stat.size)
    PROVE  /\ index' = idx /\ index' \in IndexType /\ index' # NoIndex
           /\ sound' \in BOOLEAN /\ IndexKept' /\ StatKept'
           /\ stat' \in [taken : BOOLEAN, size : Nat, from : Nat] /\ stat'.from = 0
           /\ sound' => Now(idx) /\ idx.fileSize = stat.size
           /\ cuts = 0 => LookOK(stat.size, stat.from, file, events, clean)
<1>1. /\ stat.taken /\ index' = idx /\ sound' = StaysSound(stat.size) /\ stat' = NoStat
  BY DEF EnsureIndex
<1>2. /\ stat.size \in Nat /\ sound \in BOOLEAN
      /\ cuts = 0 \/ (index # NoIndex /\ sound) =>
            LookOK(stat.size, stat.from, file, events, clean)
  BY <1>1 DEF LogInv, LogTypeOK, StatKept
<1>3. /\ idx \in IndexType /\ idx # NoIndex /\ idx.fileSize = stat.size
      /\ sound' => Now(idx)
  BY <1>1, <1>2, EnsuredFact
<1>4. IndexKept'
  <2>1. cuts = 0 => stat.size <= Len(file)
    BY <1>2 DEF LookOK
  <2>2. QED
    BY <1>1, <1>3, <2>1 DEF IndexKept, Now
<1>5. sound' \in BOOLEAN
  BY <1>1, <1>2 DEF StaysSound
<1>6. StatKept' /\ stat' \in [taken : BOOLEAN, size : Nat, from : Nat] /\ stat'.from = 0
  BY <1>1 DEF StatKept, NoStat
<1>7. QED
  BY <1>1, <1>2, <1>3, <1>4, <1>5, <1>6

\* What is before a cursor in the index is so in the index of the next read.
LEMMA EnsurePending ==
    ASSUME LogInv, EnsureIndex, cuts = 0, index # NoIndex, sound', NEW e,
           sound => Pending(index, file, events, walk.of, walk.cursor, e),
           NEW idx, idx = Ensured(stat.size)
    PROVE  /\ Now(idx)
           /\ Pending(idx, file, events, walk.of, walk.cursor, e)
<1>1. /\ stat.taken /\ StaysSound(stat.size) /\ stat.size \in Nat
      /\ LookOK(stat.size, stat.from, file, events, clean)
  BY DEF EnsureIndex, LogInv, LogTypeOK, StatKept
<1>2. Grown(stat.size)
  <2>1. index \in IndexType /\ index.fileSize <= stat.size
    BY <1>1 DEF LogInv, LogTypeOK, StatKept
  <2>2. index.fileSize \in Nat
    BY <2>1 DEF IndexType
  <2>3. QED
    BY <1>1, <2>1, <2>2 DEF Grown
<1>3. sound /\ Now(index) /\ Now(idx) /\ Extended(index, idx)
  <2>1. sound /\ Now(idx) /\ Extended(index, idx)
    BY <1>1, <1>2, EnsuredFact
  <2>2. QED
    BY <2>1 DEF LogInv, IndexKept
<1>4. walk.of \in SUBSET Principal /\ walk.cursor \in Nat
  BY DEF LogInv, LogTypeOK
<1>5. /\ IndexOK(index, file, events, clean) /\ IndexOK(idx, file, events, clean)
      /\ \A p \in Principal : index.lines[p] \subseteq idx.lines[p]
      /\ \A n \in 1 .. Len(index.offsets) :
           LineOn(idx, file, events, n) = LineOn(index, file, events, n)
  BY <1>3 DEF Now, Extended
<1>6. QED
  BY <1>3, <1>4, <1>5, PendingStays

LEMMA ReadPageKeeps == ASSUME LogInv, ReadPage PROVE LogInv'
<1> DEFINE idx == Ensured(stat.size)
<1>1. EnsureIndex /\ UNCHANGED <<file, events, walk, clean, torn, cuts>>
  BY DEF ReadPage
<1>2. /\ index' = idx /\ index' \in IndexType /\ index' # NoIndex
      /\ sound' \in BOOLEAN /\ IndexKept' /\ StatKept'
      /\ stat' \in [taken : BOOLEAN, size : Nat, from : Nat] /\ stat'.from = 0
  BY <1>1, EnsureKeeps
<1> HIDE DEF idx
<1>3. LogTypeOK' /\ BytesOK(file', events', clean')
  <2>1. Len(events) \in Nat
    BY DEF LogInv, BytesOK
  <2>2. QED
    BY <1>1, <1>2, <2>1 DEF LogInv, LogTypeOK
<1>4. WalkKept'
  <2> SUFFICES ASSUME walk.of # {}, walk.sound, cuts = 0, NEW d \in clean,
                      d <= walk.from, About(walk.of, d), d \notin walk.seen
               PROVE  /\ ~walk.ended
                      /\ sound' => Pending(idx, file, events, walk.of, walk.cursor, d)
    BY <1>1, <1>2 DEF WalkKept, About
  <2>1. /\ ~walk.ended /\ index # NoIndex
        /\ sound => Pending(index, file, events, walk.of, walk.cursor, d)
    BY DEF LogInv, WalkKept
  <2>2. QED
    BY <1>1, <2>1, EnsurePending DEF idx
<1>5. QED
  BY <1>2, <1>3, <1>4 DEF LogInv

\* A cursor moves on by a page, as long as there are lines before it.
LEMMA CursorFact ==
    ASSUME NEW total, NEW limit \in Nat \ {0}, NEW cursor \in Nat
    PROVE  /\ NextCursor(total, limit, cursor) \in Nat
           /\ cursor + limit < total => /\ NextCursor(total, limit, cursor) = cursor + limit
                                        /\ NextCursor(total, limit, cursor) # 0
BY DEF NextCursor

LEMMA BeginWalkKeeps ==
    ASSUME LogInv, NEW of \in Trails, NEW limit \in 1 .. 2, BeginWalk(of, limit)
    PROVE  LogInv'
<1> DEFINE idx == Ensured(stat.size)
           items == ReadByPrincipal(idx, of, limit, 0).items
           total == ReadByPrincipal(idx, of, limit, 0).total
           next == NextCursor(total, limit, 0)
<1>1. /\ EnsureIndex /\ UNCHANGED <<file, events, clean, torn, cuts>>
      /\ walk' = [of |-> of, limit |-> limit, cursor |-> next, seen |-> ToSet(items),
                  from |-> stat.from, ended |-> next = 0, sound |-> sound']
  BY DEF BeginWalk
<1>2. /\ index' = idx /\ index' \in IndexType /\ index' # NoIndex
      /\ sound' \in BOOLEAN /\ IndexKept' /\ StatKept'
      /\ stat' \in [taken : BOOLEAN, size : Nat, from : Nat] /\ stat'.from = 0
      /\ sound' => Now(idx) /\ idx.fileSize = stat.size
      /\ cuts = 0 => LookOK(stat.size, stat.from, file, events, clean)
  BY <1>1, EnsureKeeps
<1>3. /\ of \in SUBSET Principal /\ limit \in Nat \ {0} /\ 0 \in Nat
      /\ BytesOK(file, events, clean) /\ Len(events) \in Nat
      /\ stat.from \in Nat /\ stat.from <= Len(events)
  BY LogAssumption DEF LogInv, BytesOK, LogTypeOK
<1> HIDE DEF items, total, idx
<1>4. next \in Nat /\ (0 + limit < total => next = 0 + limit /\ next # 0)
  BY <1>3, CursorFact
<1> HIDE DEF next
<1>5. LogTypeOK'
  <2>1. /\ walk'.of = of /\ walk'.limit = limit /\ walk'.cursor = next
        /\ walk'.seen = ToSet(items) /\ walk'.from = stat.from
        /\ walk'.ended = (next = 0) /\ walk'.sound = sound'
    BY <1>1
  <2>2. walk' = [of |-> walk'.of, limit |-> walk'.limit, cursor |-> walk'.cursor,
                 seen |-> walk'.seen, from |-> walk'.from, ended |-> walk'.ended,
                 sound |-> walk'.sound]
    BY <1>1, <2>1
  <2>3. cuts' \in Nat /\ events' = events
    BY <1>1 DEF LogInv, LogTypeOK
  <2>4. /\ walk'.of \in SUBSET Principal /\ walk'.limit \in Nat \ {0}
        /\ walk'.cursor \in Nat /\ walk'.from \in Nat /\ walk'.from <= Len(events')
    BY <1>3, <1>4, <2>1, <2>3
  <2>5. /\ index' \in IndexType \cup {NoIndex} /\ sound' \in BOOLEAN
        /\ stat' \in [taken : BOOLEAN, size : Nat, from : Nat]
        /\ stat'.from <= Len(events')
    <3>1. Len(events) \in Nat /\ events' = events
      BY <1>1, <1>3 DEF BytesOK
    <3>2. QED
      BY <1>2, <3>1
  <2>6. QED
    BY <2>2, <2>3, <2>4, <2>5 DEF LogTypeOK
<1>6. WalkKept'
  <2> SUFFICES ASSUME sound', cuts = 0, NEW d \in clean, d <= stat.from, About(of, d),
                      d \notin ToSet(items)
               PROVE  next # 0 /\ Pending(idx, file, events, of, next, d)
    BY <1>1, <1>2 DEF WalkKept, About
  <2>1. Now(idx) /\ idx.fileSize = stat.size
    BY <1>2
  <2>2. Pending(idx, file, events, of, 0, d)
    <3>1. PICK s \in Nat : WholeAt(file, events, d, s)
      BY <1>3 DEF BytesOK
    <3>2. s < idx.fileSize
      BY <1>2, <2>1, <3>1 DEF LookOK
    <3>3. QED
      BY <1>3, <2>1, <3>1, <3>2, AllPending
  <2>3. 0 + limit < total /\ Pending(idx, file, events, of, 0 + limit, d)
    BY <1>3, <2>1, <2>2, PageCovers DEF items, total
  <2>4. QED
    BY <1>4, <2>3
<1>7. (BytesOK(file, events, clean))'
  BY <1>1, <1>3
<1>8. QED
  BY <1>2, <1>5, <1>6, <1>7 DEF LogInv

LEMMA WalkOnKeeps == ASSUME LogInv, WalkOn PROVE LogInv'
<1> DEFINE idx == Ensured(stat.size)
           items == ReadByPrincipal(idx, walk.of, walk.limit, walk.cursor).items
           total == ReadByPrincipal(idx, walk.of, walk.limit, walk.cursor).total
           next == NextCursor(total, walk.limit, walk.cursor)
<1>1. /\ EnsureIndex /\ UNCHANGED <<file, events, clean, torn, cuts>>
      /\ walk' = [walk EXCEPT !.cursor = next, !.ended = next = 0,
                              !.seen = @ \cup ToSet(items), !.sound = @ /\ sound']
      /\ walk.of # {}
  BY DEF WalkOn
<1>2. /\ index' = idx /\ index' \in IndexType /\ index' # NoIndex
      /\ sound' \in BOOLEAN /\ IndexKept' /\ StatKept'
      /\ stat' \in [taken : BOOLEAN, size : Nat, from : Nat] /\ stat'.from = 0
      /\ sound' => Now(idx) /\ idx.fileSize = stat.size
      /\ cuts = 0 => LookOK(stat.size, stat.from, file, events, clean)
  BY <1>1, EnsureKeeps
<1>3. /\ walk.of \in SUBSET Principal /\ walk.limit \in Nat \ {0} /\ walk.cursor \in Nat
      /\ walk.from \in Nat /\ BytesOK(file, events, clean)
  BY DEF LogInv, LogTypeOK
<1> HIDE DEF items, total, idx
<1>4. /\ next \in Nat
      /\ walk.cursor + walk.limit < total => /\ next = walk.cursor + walk.limit
                                             /\ next # 0
  BY <1>3, CursorFact
<1> HIDE DEF next
<1>5. walk' = [of |-> walk.of, limit |-> walk.limit, cursor |-> next,
               seen |-> walk.seen \cup ToSet(items), from |-> walk.from,
               ended |-> next = 0, sound |-> walk.sound /\ sound']
  BY <1>1 DEF LogInv, LogTypeOK
<1>6. LogTypeOK'
  <2>1. /\ walk'.of = walk.of /\ walk'.limit = walk.limit /\ walk'.cursor = next
        /\ walk'.seen = walk.seen \cup ToSet(items) /\ walk'.from = walk.from
        /\ walk'.ended = (next = 0) /\ walk'.sound = (walk.sound /\ sound')
    BY <1>5
  <2>2. walk' = [of |-> walk'.of, limit |-> walk'.limit, cursor |-> walk'.cursor,
                 seen |-> walk'.seen, from |-> walk'.from, ended |-> walk'.ended,
                 sound |-> walk'.sound]
    BY <1>5, <2>1
  <2>3. cuts' \in Nat /\ events' = events /\ walk.from <= Len(events)
    BY <1>1 DEF LogInv, LogTypeOK
  <2>4. /\ walk'.of \in SUBSET Principal /\ walk'.limit \in Nat \ {0}
        /\ walk'.cursor \in Nat /\ walk'.from \in Nat /\ walk'.from <= Len(events')
    BY <1>3, <1>4, <2>1, <2>3
  <2>5. /\ index' \in IndexType \cup {NoIndex} /\ sound' \in BOOLEAN
        /\ stat' \in [taken : BOOLEAN, size : Nat, from : Nat]
        /\ stat'.from <= Len(events')
    <3>1. Len(events) \in Nat /\ events' = events
      BY <1>1, <1>3 DEF BytesOK
    <3>2. QED
      BY <1>2, <3>1
  <2>6. QED
    BY <2>2, <2>3, <2>4, <2>5 DEF LogTypeOK
<1>7. WalkKept'
  <2> SUFFICES ASSUME walk.sound, sound', cuts = 0, NEW d \in clean, d <= walk.from,
                      About(walk.of, d), d \notin walk.seen, d \notin ToSet(items)
               PROVE  next # 0 /\ Pending(idx, file, events, walk.of, next, d)
    <3>1. /\ walk'.of = walk.of /\ walk'.cursor = next /\ walk'.from = walk.from
          /\ walk'.seen = walk.seen \cup ToSet(items)
          /\ walk'.ended = (next = 0) /\ walk'.sound = (walk.sound /\ sound')
      BY <1>5
    <3>2. /\ index' = idx /\ index' # NoIndex
          /\ UNCHANGED <<file, events, clean, cuts>>
      BY <1>1, <1>2
    <3>3. \A d : (About(walk.of, d))' <=> About(walk'.of, d)
      BY <3>2 DEF About
    <3>4. QED
      BY <3>1, <3>2, <3>3 DEF WalkKept
  <2>1. /\ index # NoIndex
        /\ sound => Pending(index, file, events, walk.of, walk.cursor, d)
    BY <1>1 DEF LogInv, WalkKept
  <2>2. Now(idx) /\ Pending(idx, file, events, walk.of, walk.cursor, d)
    BY <1>1, <2>1, EnsurePending DEF idx
  <2>3. /\ walk.cursor + walk.limit < total
        /\ Pending(idx, file, events, walk.of, walk.cursor + walk.limit, d)
    BY <1>3, <2>2, PageCovers DEF items, total
  <2>4. QED
    BY <1>4, <2>3
<1>8. (BytesOK(file, events, clean))'
  BY <1>1, <1>3
<1>9. QED
  BY <1>2, <1>6, <1>7, <1>8 DEF LogInv

LEMMA LogNextInv == LogInv /\ [LogNext]_logVars => LogInv'
<1> SUFFICES ASSUME LogInv, [LogNext]_logVars PROVE LogInv'
  OBVIOUS
<1>1. Kinds \subseteq LogEvent
  BY LogAssumption
<1>2. ASSUME NEW e \in Kinds, ServerAppend(e) PROVE LogInv'
  BY <1>1, <1>2, ServerAppendKeeps
<1>3. ASSUME NEW e \in Kinds, CommandAppend(e) PROVE LogInv'
  <2>1. /\ WriteLine(e) /\ UNCHANGED <<index, stat, sound, walk, cuts>>
        /\ BytesOK(file, events, clean) /\ e \in LogEvent
    BY <1>1, <1>3 DEF CommandAppend, LogInv
  <2>2. Grew(file, events, clean, e, file', events', clean')
    BY <2>1, WriteGrows
  <2>3. QED
    BY <2>1, <2>2, AppendKeeps
<1>4. ASSUME NEW e \in Kinds, NEW bytes \in 1 .. e.size, NEW ofServer \in BOOLEAN,
             TornAppend(e, bytes, ofServer)
      PROVE  LogInv'
  <2>1. e \in LogEvent /\ BytesOK(file, events, clean) /\ cuts' = cuts
    BY <1>1, <1>4 DEF TornAppend, LogInv
  <2>2. Grew(file, events, clean, e, file', events', clean')
    BY <1>4, <2>1, TornGrows
  <2>3. CASE ofServer
    <3>1. Restarted /\ BytesOK(file', events', clean') /\ Len(events) <= Len(events')
      BY <1>4, <2>2, <2>3 DEF TornAppend, Grew, Extends
    <3>2. QED
      BY <2>1, <3>1, RestartKeeps
  <2>4. CASE ~ofServer
    <3>1. UNCHANGED <<index, stat, sound, walk, cuts>>
      BY <1>4, <2>1, <2>4 DEF TornAppend
    <3>2. QED
      BY <2>1, <2>2, <3>1, AppendKeeps
  <2>5. QED
    BY <2>3, <2>4
<1>5. CASE Restart
  <2>1. /\ Restarted /\ cuts' = cuts /\ BytesOK(file', events', clean')
        /\ Len(events) <= Len(events')
    BY <1>5 DEF Restart, LogInv, BytesOK
  <2>2. QED
    BY <2>1, RestartKeeps
<1>6. CASE Truncate
  BY <1>6, TruncateKeeps
<1>7. CASE ReadPage
  BY <1>7, ReadPageKeeps
<1>8. ASSUME NEW of \in Trails, NEW limit \in 1 .. 2, BeginWalk(of, limit) PROVE LogInv'
  BY <1>8, BeginWalkKeeps
<1>9. CASE WalkOn
  BY <1>9, WalkOnKeeps
<1>10. CASE StatLog
  BY <1>10, StatLogKeeps
<1>11. CASE UNCHANGED logVars
  BY <1>11 DEF logVars, LogInv, LogTypeOK, IndexKept, StatKept, WalkKept, Now, About
<1>12. QED
  BY <1>2, <1>3, <1>4, <1>5, <1>6, <1>7, <1>8, <1>9, <1>10, <1>11 DEF LogNext

\* The inductive invariant of the log, its index and the walk of a client.
THEOREM LogInvariance == LogSpec => []LogInv
<1>1. LogInit => LogInv
  BY LogInitInv
<1>2. LogInv /\ [LogNext]_logVars => LogInv'
  BY LogNextInv
<1>3. QED
  BY <1>1, <1>2, PTL DEF LogSpec

\* Whatever the lengths of lines, of the log and of its trails, and wherever
\* commands, torn lines, restarts and the two steps of reads fall: an index into
\* which none of the three things of TrailsExact came can be read, and gives
\* exactly what concerns whom, newest first.
THEOREM TrailsAlwaysExact == LogSpec => []TrailsExact
<1>1. ASSUME LogInv PROVE TrailsExact
  <2> SUFFICES ASSUME StaysSound(Len(file)), NEW of \in Trails PROVE TrailOf(of)
    BY DEF TrailsExact
  <2> DEFINE idx == Ensured(Len(file))
  <2>1. /\ of \in SUBSET Principal /\ BytesOK(file, events, clean)
        /\ Len(file) \in Nat
    BY <1>1, LogAssumption DEF LogInv, BytesOK
  <2>2. LookOK(Len(file), 0, file, events, clean)
    BY <2>1, LookNow
  <2>3. Now(idx) /\ idx.fileSize = Len(file)
    BY <1>1, <2>1, <2>2, EnsuredFact
  <2>4. QED
    BY <2>1, <2>3, TrailRight
<1>2. QED
  BY <1>1, LogInvariance, PTL

\* A client that follows its cursors to the end, each time through an index into
\* which none of those three things came, has seen every whole line that was in
\* the log when it began, however many were appended meanwhile.
THEOREM WalksNeverMiss == LogSpec => []WalksMissNothing
<1>1. ASSUME LogInv PROVE WalksMissNothing
  <2> SUFFICES ASSUME walk.ended, walk.sound, cuts = 0, NEW e \in clean,
                      e <= walk.from, About(walk.of, e)
               PROVE  e \in walk.seen
    BY DEF WalksMissNothing
  <2>1. walk.of # {}
    BY DEF About
  <2>2. QED
    BY <1>1, <2>1 DEF LogInv, WalkKept
<1>2. QED
  BY <1>1, LogInvariance, PTL
=============================================================================
