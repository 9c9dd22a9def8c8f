---------------------------- MODULE ContentsProofs ----------------------------
(***************************************************************************)
(* What holds of what users write, of who is told and of the copies, for   *)
(* every value of the constants: any number of connections, documents,     *)
(* subscribers, participants, versions and backups, and every limit.  A    *)
(* behaviour of all the parts is one of each, so what is proved of a part  *)
(* holds of the whole.  Each part has its inductive invariant, named for   *)
(* the part, with a lemma that it holds at the start (...Start), that      *)
(* every step keeps it (...Step), as does a step that leaves the part      *)
(* alone (...Stutters), and that it says what the runs check (...Good).    *)
(***************************************************************************)
EXTENDS Contents, FiniteSums, SequenceTheorems

-----------------------------------------------------------------------------
(* The sessions of an environment.  A seat has the colour of its place       *)
(* unless another joined since the colour was drawn; whose cursor is shown   *)
(* in a session has joined it; and the index of the history is what its      *)
(* entries make it, which are in the order of time.                          *)

Increasing(h) == \A i, j \in DOMAIN h : i < j => h[i] < h[j]

HistoryKept ==
    /\ history \in [Meeting -> Seq(1..MaxRecords)] /\ records \in 0..MaxRecords
    /\ place = [s \in Meeting |-> PositionsOf(history[s])]
    /\ \A s \in Meeting :
          /\ Len(history[s]) <= HistoryCap /\ Increasing(history[s])
          /\ \A i \in DOMAIN history[s] : history[s][i] <= records

SeatsTyped ==
    /\ sessionOf \in [Meeting -> {"none", "active", "ended"}]
    /\ seats \in [Meeting -> Seq(Seat)]
    /\ \A s \in Meeting : Len(seats[s]) <= MaxParticipants
    /\ visit \in [Visit -> [at : {"absent", "found", "connected", "gone"},
                            session : 0..MaxSessions, color : 0..(Palette - 1)]]
    /\ colored \in [Meeting -> SUBSET Visit]
    /\ cursors \in [Meeting -> SUBSET Visit]
    /\ askedFor \subseteq Meeting
    /\ staleColor \subseteq Visit /\ movedLate \subseteq Visit

OneMeets == \A a, b \in Active \ askedFor : a = b

ColorsFollow ==
    \A s \in Meeting : \A j \in DOMAIN seats[s] :
        seats[s][j].color = (j - 1) % Palette \/ seats[s][j].who \in staleColor

CursorsFollow ==
    /\ EndedIsForgotten
    /\ \A v \in Visit : visit[v].at # "absent" => visit[v].session \in Meeting
    /\ \A s \in Meeting : \A v \in cursors[s] :
          visit[v].session = s /\ visit[v].at \in {"connected", "gone"}

SessionsInv == SeatsTyped /\ HistoryKept /\ OneMeets /\ ColorsFollow /\ CursorsFollow

\* The index of the entries, when they are in order.
LEMMA Positions ==
    ASSUME NEW M \in Nat, NEW h \in Seq(1..M), Increasing(h)
    PROVE  /\ DOMAIN PositionsOf(h) = {h[i] : i \in DOMAIN h}
           /\ \A i \in DOMAIN h : PositionsOf(h)[h[i]] = i
<1>1. DOMAIN h = 1..Len(h) /\ Len(h) \in Nat /\ \A i \in DOMAIN h : h[i] \in Nat
  OBVIOUS
<1>2. ASSUME NEW i \in DOMAIN h, NEW j \in DOMAIN h, h[i] = h[j]
      PROVE  i = j
  BY <1>1, <1>2 DEF Increasing
<1>3. ASSUME NEW i \in DOMAIN h
      PROVE  PositionsOf(h)[h[i]] = i
  <2>1. PositionsOf(h)[h[i]] = CHOOSE j \in DOMAIN h : h[j] = h[i]
    BY DEF PositionsOf
  <2> QED
    BY <2>1, <1>2
<1> QED
  BY <1>3 DEF PositionsOf

Grown(index, n, r) == [k \in DOMAIN index \cup {r} |-> IF k = r THEN n + 1 ELSE index[k]]

\* An operation that is recorded after the others has its place after them.
LEMMA IndexGrows ==
    ASSUME NEW M \in Nat, NEW h \in Seq(1..M), Increasing(h), NEW r \in 1..M,
           \A i \in DOMAIN h : h[i] < r
    PROVE  /\ Append(h, r) \in Seq(1..M) /\ Increasing(Append(h, r))
           /\ Len(Append(h, r)) = Len(h) + 1
           /\ \A i \in DOMAIN Append(h, r) : Append(h, r)[i] <= r
           /\ PositionsOf(Append(h, r)) = Grown(PositionsOf(h), Len(h), r)
<1>1. PICK g : g = Append(h, r)
  OBVIOUS
<1>2. /\ g \in Seq(1..M) /\ Len(g) = Len(h) + 1 /\ Len(h) \in Nat
      /\ DOMAIN h = 1..Len(h) /\ DOMAIN g = 1..(Len(h) + 1)
      /\ \A i \in 1..Len(h) : g[i] = h[i] /\ h[i] \in Nat
      /\ g[Len(h) + 1] = r
  BY <1>1
<1>3. Increasing(g) /\ \A i \in DOMAIN g : g[i] <= r
  <2>1. ASSUME NEW i \in DOMAIN g, NEW j \in DOMAIN g, i < j
        PROVE  g[i] < g[j]
    <3>1. i \in 1..Len(h)
      BY <1>2, <2>1
    <3>2. CASE j = Len(h) + 1
      BY <1>2, <3>1, <3>2
    <3>3. CASE j # Len(h) + 1
      <4>1. i \in DOMAIN h /\ j \in DOMAIN h /\ g[i] = h[i] /\ g[j] = h[j]
        BY <1>2, <3>1, <3>3
      <4> QED
        BY <4>1, <2>1 DEF Increasing
    <3> QED
      BY <3>2, <3>3
  <2>2. ASSUME NEW i \in DOMAIN g
        PROVE  g[i] <= r
    BY <1>2
  <2> QED
    BY <2>1, <2>2 DEF Increasing
<1>4. /\ DOMAIN PositionsOf(h) = {h[i] : i \in DOMAIN h}
      /\ \A i \in DOMAIN h : PositionsOf(h)[h[i]] = i
      /\ DOMAIN PositionsOf(g) = {g[i] : i \in DOMAIN g}
      /\ \A i \in DOMAIN g : PositionsOf(g)[g[i]] = i
  BY <1>2, <1>3, Positions
<1>5. PICK old, new : old = PositionsOf(h) /\ new = PositionsOf(g)
  OBVIOUS
<1>6. new = [n \in DOMAIN new |-> new[n]]
  BY <1>5 DEF PositionsOf
<1>7. DOMAIN new = DOMAIN old \cup {r}
  <2>1. DOMAIN g = DOMAIN h \cup {Len(h) + 1} /\ \A i \in DOMAIN h : g[i] = h[i]
    BY <1>2
  <2>2. {g[i] : i \in DOMAIN g} = {h[i] : i \in DOMAIN h} \cup {r}
    BY <1>2, <2>1
  <2> QED
    BY <1>4, <1>5, <2>2
<1>8. ASSUME NEW n \in DOMAIN new
      PROVE  new[n] = IF n = r THEN Len(h) + 1 ELSE old[n]
  <2>1. PICK i \in DOMAIN g : n = g[i]
    BY <1>4, <1>5
  <2>2. CASE i = Len(h) + 1
    BY <1>2, <1>4, <1>5, <2>1, <2>2
  <2>3. CASE i # Len(h) + 1
    <3>1. i \in DOMAIN h /\ n = h[i]
      BY <1>2, <2>1, <2>3
    <3>2. n # r /\ new[n] = i /\ old[n] = i
      BY <1>2, <1>4, <1>5, <2>1, <3>1
    <3> QED
      BY <3>2
  <2> QED
    BY <2>2, <2>3
<1>9. new = [n \in DOMAIN old \cup {r} |-> IF n = r THEN Len(h) + 1 ELSE old[n]]
  BY <1>6, <1>7, <1>8
<1> QED
  BY <1>1, <1>2, <1>3, <1>5, <1>9 DEF Grown

\* What is left when the first entries go.
LEMMA LastOnes ==
    ASSUME NEW M \in Nat, NEW h \in Seq(1..M), Increasing(h), NEW n \in Nat, n <= Len(h)
    PROVE  /\ SubSeq(h, n + 1, Len(h)) \in Seq(1..M)
           /\ Len(SubSeq(h, n + 1, Len(h))) = Len(h) - n
           /\ Increasing(SubSeq(h, n + 1, Len(h)))
           /\ \A i \in DOMAIN SubSeq(h, n + 1, Len(h)) :
                 \E j \in DOMAIN h : SubSeq(h, n + 1, Len(h))[i] = h[j]
<1>1. PICK g : g = SubSeq(h, n + 1, Len(h))
  OBVIOUS
<1>2. Len(h) \in Nat /\ n + 1 \in Int /\ Len(h) \in Int /\ \A i \in (n + 1)..Len(h) : h[i] \in 1..M
  OBVIOUS
<1>3. /\ g \in Seq(1..M) /\ Len(g) = Len(h) - n
      /\ \A i \in 1..(Len(h) - n) : g[i] = h[n + i]
  <2>1. /\ g \in Seq(1..M) /\ Len(g) = IF n + 1 <= Len(h) THEN Len(h) - (n + 1) + 1 ELSE 0
        /\ \A i \in 1..(Len(h) - (n + 1) + 1) : g[i] = h[(n + 1) + i - 1]
    BY <1>1, <1>2, SubSeqProperties
  <2>2. Len(g) = Len(h) - n
    BY <2>1, <1>2
  <2>3. ASSUME NEW i \in 1..(Len(h) - n)
        PROVE  g[i] = h[n + i]
    <3>1. i \in 1..(Len(h) - (n + 1) + 1) /\ (n + 1) + i - 1 = n + i
      BY <1>2
    <3> QED
      BY <3>1, <2>1
  <2> QED
    BY <2>1, <2>2, <2>3
<1>4. DOMAIN g = 1..(Len(h) - n) /\ DOMAIN h = 1..Len(h)
  BY <1>2, <1>3
<1>5. ASSUME NEW i \in DOMAIN g
      PROVE  n + i \in DOMAIN h /\ g[i] = h[n + i]
  <2>1. i \in 1..(Len(h) - n)
    BY <1>4
  <2>2. n + i \in 1..Len(h)
    BY <2>1, <1>2
  <2> QED
    BY <2>1, <2>2, <1>3, <1>4
<1>6. Increasing(g)
  <2>1. ASSUME NEW i \in DOMAIN g, NEW j \in DOMAIN g, i < j
        PROVE  g[i] < g[j]
    <3>1. n + i < n + j
      BY <2>1, <1>4
    <3> QED
      BY <3>1, <1>5 DEF Increasing
  <2> QED
    BY <2>1 DEF Increasing
<1> QED
  BY <1>1, <1>3, <1>5, <1>6

\* Those recorded after the cutoff are some of the entries, in their order.
LEMMA RecentOnes ==
    ASSUME NEW M \in Nat, NEW h \in Seq(1..M), Increasing(h), NEW cutoff \in Nat
    PROVE  /\ NewEntries(h, cutoff) \in Seq(1..M)
           /\ Len(NewEntries(h, cutoff)) <= Len(h)
           /\ Increasing(NewEntries(h, cutoff))
           /\ \A i \in DOMAIN NewEntries(h, cutoff) :
                 \E j \in DOMAIN h : NewEntries(h, cutoff)[i] = h[j]
<1> DEFINE N == Len(h)
           V == Seq(1..M)
           Rest(f) == [i \in 0..N |->
                          IF i = 0 THEN <<>>
                          ELSE IF h[i] > cutoff THEN Append(f[i - 1], h[i])
                          ELSE f[i - 1]]
           kept == CHOOSE f : f = Rest(f)
           step == [i \in 0..N |-> [v \in V |-> IF i # 0 /\ h[i] > cutoff THEN Append(v, h[i]) ELSE v]]
           before == [i \in 0..N |-> IF i = 0 THEN 0 ELSE i - 1]
           empty == [i \in 0..N |-> <<>>]
<1>1. N \in Nat /\ \A i \in 1..N : h[i] \in 1..M
  OBVIOUS
<1>2. kept = Rest(kept)
  <2>1. empty \in [0..N -> V]
    <3>1. <<>> \in V
      OBVIOUS
    <3> HIDE DEF V, N
    <3> QED
      BY <3>1
  <2>2. before \in [0..N -> 0..N] /\ \A i \in 0..N : i \notin {0} => before[i] < i /\ before[i] = i - 1
    <3> HIDE DEF N
    <3> QED
      BY <1>1
  <2>3. step \in [0..N -> [V -> V]]
    <3>1. ASSUME NEW i \in 0..N, NEW v \in V
          PROVE  (IF i # 0 /\ h[i] > cutoff THEN Append(v, h[i]) ELSE v) \in V
      <4>1. \A x \in 1..M : Append(v, x) \in V
        OBVIOUS
      <4>2. i # 0 => h[i] \in 1..M
        BY <1>1
      <4> QED
        BY <4>1, <4>2
    <3>2. ASSUME NEW i \in 0..N
          PROVE  [v \in V |-> IF i # 0 /\ h[i] > cutoff THEN Append(v, h[i]) ELSE v] \in [V -> V]
      <4> HIDE DEF N, V
      <4> QED
        BY <3>1
    <3> HIDE DEF N, V
    <3> QED
      BY <3>2
  <2>4. PICK f \in [0..N -> V] : Recurs(f, N, {0}, empty, before, step)
    <3> HIDE DEF N, V, empty, before, step
    <3> QED
      BY <1>1, <2>1, <2>2, <2>3, RecursionExists
  <2>5. ASSUME NEW i \in 0..N
        PROVE  (IF i \in {0} THEN empty[i] ELSE step[i][f[before[i]]]) = Rest(f)[i]
    <3>1. CASE i = 0
      BY <3>1
    <3>2. CASE i # 0
      <4>1. before[i] = i - 1 /\ i - 1 \in 0..N /\ f[i - 1] \in V
        <5> HIDE DEF N, V, before
        <5> QED
          BY <3>2, <2>2, <1>1
      <4>2. step[i][f[i - 1]] = IF h[i] > cutoff THEN Append(f[i - 1], h[i]) ELSE f[i - 1]
        <5> HIDE DEF N, V, before
        <5> QED
          BY <3>2, <4>1
      <4> QED
        BY <3>2, <4>1, <4>2
    <3> QED
      BY <3>1, <3>2
  <2>6. f = Rest(f)
    <3> HIDE DEF N, V, empty, before, step
    <3> QED
      BY <2>4, <2>5 DEF Recurs
  <2> HIDE DEF Rest
  <2> QED
    BY <2>6
<1>3. NewEntries(h, cutoff) = kept[N]
  BY DEF NewEntries
<1> HIDE DEF kept
<1>4. /\ kept[0] = <<>>
      /\ \A i \in 1..N : kept[i] = IF h[i] > cutoff THEN Append(kept[i - 1], h[i]) ELSE kept[i - 1]
  <2>1. 0 \in 0..N /\ \A i \in 1..N : i \in 0..N /\ i # 0
    BY <1>1
  <2> HIDE DEF N
  <2> QED
    BY <2>1, <1>2
<1> DEFINE good == {i \in 0..N : /\ kept[i] \in V /\ Len(kept[i]) <= i /\ Increasing(kept[i])
                                 /\ \A k \in DOMAIN kept[i] : \E j \in 1..i : kept[i][k] = h[j]}
<1> HIDE DEF N
<1>5. ASSUME NEW i \in 0..N, \A j \in 0..(i - 1) : j \in good
      PROVE  i \in good
  <2>1. CASE i = 0
    <3>1. kept[i] \in V /\ Len(kept[i]) = 0 /\ DOMAIN kept[i] = {}
      BY <2>1, <1>4
    <3>2. Increasing(kept[i])
      BY <3>1 DEF Increasing
    <3> HIDE DEF V
    <3> QED
      BY <2>1, <3>1, <3>2
  <2>2. CASE i # 0
    <3>1. PICK g : g = kept[i - 1]
      OBVIOUS
    <3>2. i - 1 \in good /\ i \in 1..N /\ i - 1 \in 0..(i - 1)
      BY <1>1, <1>5, <2>2
    <3>3. /\ g \in Seq(1..M) /\ Len(g) <= i - 1 /\ Increasing(g)
          /\ \A k \in DOMAIN g : \E j \in 1..(i - 1) : g[k] = h[j]
      BY <3>1, <3>2
    <3>4. h[i] \in 1..M /\ i \in DOMAIN h /\ \A j \in 1..(i - 1) : j \in DOMAIN h /\ j < i /\ j \in 1..i
      BY <1>1, <3>2 DEF N
    <3>5. \A j \in 1..(i - 1) : h[j] < h[i]
      BY <3>4 DEF Increasing
    <3>6. CASE h[i] > cutoff
      <4>1. \A k \in DOMAIN g : g[k] < h[i]
        BY <3>3, <3>5
      <4>2. PICK e : e = Append(g, h[i])
        OBVIOUS
      <4>3. e \in Seq(1..M) /\ Increasing(e) /\ Len(e) = Len(g) + 1
        BY <3>3, <3>4, <4>1, <4>2, IndexGrows
      <4>4. kept[i] = e
        BY <3>1, <3>2, <3>6, <4>2, <1>4
      <4>5. ASSUME NEW k \in DOMAIN e
            PROVE  \E j \in 1..i : e[k] = h[j]
        <5>1. CASE k \in DOMAIN g
          <6>1. e[k] = g[k]
            BY <3>3, <4>2, <5>1
          <6> QED
            BY <6>1, <5>1, <3>3, <3>4
        <5>2. CASE k \notin DOMAIN g
          <6>2. k = Len(g) + 1
            BY <3>3, <4>3, <5>2
          <6>1. e[k] = h[i] /\ i \in 1..i
            BY <3>2, <3>3, <4>2, <6>2
          <6> QED
            BY <6>1
        <5> QED
          BY <5>1, <5>2
      <4>6. Len(e) <= i
        BY <3>2, <3>3, <4>3
      <4> QED
        BY <4>3, <4>4, <4>5, <4>6
    <3>7. CASE ~(h[i] > cutoff)
      <4>1. kept[i] = g
        BY <3>1, <3>2, <3>7, <1>4
      <4>2. Len(g) <= i
        BY <3>2, <3>3
      <4>3. \A k \in DOMAIN g : \E j \in 1..i : g[k] = h[j]
        BY <3>3, <3>4
      <4> QED
        BY <3>3, <4>1, <4>2, <4>3
    <3> QED
      BY <3>6, <3>7
  <2> QED
    BY <2>1, <2>2
<1>6. N \in good
  <2> HIDE DEF good
  <2>1. 0..N \subseteq good
    BY <1>1, <1>5, FromBelow
  <2> QED
    BY <1>1, <2>1
<1>7. 1..N = DOMAIN h
  BY DEF N
<1> QED
  BY <1>3, <1>6, <1>7 DEF N

LEMMA Bounds ==
    /\ MaxSessions \in Nat \ {0} /\ MaxParticipants \in Nat \ {0} /\ Palette \in Nat \ {0}
    /\ HistoryTrim \in Nat \ {0} /\ HistoryCap \in Nat /\ HistoryTrim <= HistoryCap
    /\ MaxRecords \in Nat
  BY CollaborationAssumption

LEMMA HistoryStays ==
    ASSUME HistoryKept, UNCHANGED <<history, place, records>>
    PROVE  HistoryKept'
  BY DEF HistoryKept

LEMMA OperationIsRecorded ==
    ASSUME HistoryKept, NEW s \in Meeting, RecordOperation(s)
    PROVE  HistoryKept'
<1>1. PICK r : r = records + 1
  OBVIOUS
<1>2. records \in Nat /\ records < MaxRecords /\ records' = r /\ r \in 1..MaxRecords /\ records < r
      /\ records' \in 0..MaxRecords
  BY <1>1, Bounds DEF HistoryKept, RecordOperation
<1>3. PICK h : h = history[s]
  OBVIOUS
<1>4. /\ h \in Seq(1..MaxRecords) /\ Len(h) \in Nat /\ Len(h) <= HistoryCap /\ Increasing(h)
      /\ \A i \in DOMAIN h : h[i] <= records
      /\ place[s] = PositionsOf(h)
  BY <1>3 DEF HistoryKept
<1>5. PICK old : old = Trimmed(s)
  OBVIOUS
<1>6. PICK g : g = old.entries
  OBVIOUS
<1>7. /\ g \in Seq(1..MaxRecords) /\ Increasing(g) /\ Len(g) + 1 <= HistoryCap
      /\ \A i \in DOMAIN g : g[i] <= records
      /\ old.index = PositionsOf(g)
  <2>1. CASE Len(h) >= HistoryCap
    <3>1. g = SubSeq(h, HistoryTrim + 1, Len(h)) /\ old.index = PositionsOf(g)
      BY <1>3, <1>5, <1>6, <2>1 DEF Trimmed
    <3>2. HistoryTrim \in Nat /\ HistoryTrim <= Len(h)
      BY <2>1, <1>4, Bounds
    <3>3. /\ g \in Seq(1..MaxRecords) /\ Increasing(g) /\ Len(g) = Len(h) - HistoryTrim
          /\ \A i \in DOMAIN g : \E j \in DOMAIN h : g[i] = h[j]
      BY <3>1, <3>2, <1>4, Bounds, LastOnes
    <3>4. Len(g) + 1 <= HistoryCap
      BY <3>3, <1>4, <2>1, Bounds
    <3> QED
      BY <3>1, <3>3, <3>4, <1>4
  <2>2. CASE ~(Len(h) >= HistoryCap)
    <3>1. g = h /\ old.index = place[s]
      BY <1>3, <1>5, <1>6, <2>2 DEF Trimmed
    <3> QED
      BY <3>1, <2>2, <1>4, Bounds
  <2> QED
    BY <2>1, <2>2
<1>8. PICK e : e = Append(g, r)
  OBVIOUS
<1>9. \A i \in DOMAIN g : g[i] < r
  <2>1. \A i \in DOMAIN g : g[i] \in Nat
    BY <1>7, Bounds
  <2> QED
    BY <2>1, <1>2, <1>7
<1>10. /\ e \in Seq(1..MaxRecords) /\ Increasing(e) /\ Len(e) = Len(g) + 1
       /\ \A i \in DOMAIN e : e[i] <= r
       /\ PositionsOf(e) = Grown(PositionsOf(g), Len(g), r)
  <2>1. /\ Append(g, r) \in Seq(1..MaxRecords) /\ Increasing(Append(g, r))
        /\ Len(Append(g, r)) = Len(g) + 1
        /\ \A i \in DOMAIN Append(g, r) : Append(g, r)[i] <= r
        /\ PositionsOf(Append(g, r)) = Grown(PositionsOf(g), Len(g), r)
    BY <1>2, <1>7, <1>9, Bounds, IndexGrows
  <2> QED
    BY <2>1, <1>8
<1>11. /\ history' = [history EXCEPT ![s] = e] /\ place' = [place EXCEPT ![s] = PositionsOf(e)]
  <2>1. history' = [history EXCEPT ![s] = e]
    BY <1>2, <1>5, <1>6, <1>8 DEF RecordOperation
  <2>2. place' = [place EXCEPT ![s] = [n \in DOMAIN old.index \cup {r} |->
                                           IF n = r THEN Len(g) + 1 ELSE old.index[n]]]
    BY <1>2, <1>5, <1>6 DEF RecordOperation
  <2> QED
    BY <2>1, <2>2, <1>7, <1>10 DEF Grown
<1>12. history' \in [Meeting -> Seq(1..MaxRecords)] /\ history'[s] = e
       /\ \A t \in Meeting : t # s => history'[t] = history[t]
  BY <1>10, <1>11 DEF HistoryKept
<1>13. place' = [t \in Meeting |-> PositionsOf(history'[t])]
  <2>1. place = [t \in Meeting |-> PositionsOf(history[t])]
    BY DEF HistoryKept
  <2>2. place' = [t \in Meeting |-> IF t = s THEN PositionsOf(e) ELSE PositionsOf(history[t])]
    BY <2>1, <1>11
  <2>3. \A t \in Meeting : PositionsOf(history'[t]) = IF t = s THEN PositionsOf(e) ELSE PositionsOf(history[t])
    BY <1>12
  <2> QED
    BY <2>2, <2>3
<1>14. ASSUME NEW t \in Meeting
       PROVE  /\ Len(history'[t]) <= HistoryCap /\ Increasing(history'[t])
              /\ \A i \in DOMAIN history'[t] : history'[t][i] <= r
  <2>1. CASE t = s
    BY <2>1, <1>7, <1>10, <1>12
  <2>2. CASE t # s
    <3>1. /\ Len(history[t]) <= HistoryCap /\ Increasing(history[t])
          /\ \A i \in DOMAIN history[t] : history[t][i] <= records
          /\ history[t] \in Seq(1..MaxRecords)
      BY DEF HistoryKept
    <3>2. \A i \in DOMAIN history[t] : history[t][i] \in Nat
      BY <3>1, Bounds
    <3>3. \A i \in DOMAIN history[t] : history[t][i] <= r
      BY <3>1, <3>2, <1>2
    <3> QED
      BY <3>1, <3>3, <2>2, <1>12
  <2> QED
    BY <2>1, <2>2
<1> QED
  BY <1>2, <1>12, <1>13, <1>14 DEF HistoryKept

LEMMA HistoryIsCleaned ==
    ASSUME HistoryKept, NEW cutoff \in 1..MaxRecords, CleanupOldHistory(cutoff)
    PROVE  HistoryKept'
<1>1. PICK recent : recent = [s \in Meeting |-> NewEntries(history[s], cutoff)]
  OBVIOUS
<1>2. /\ records' = records /\ history' = recent
      /\ place' = [s \in Meeting |-> IF recent[s] = history[s] THEN place[s] ELSE PositionsOf(recent[s])]
  <2>1. /\ history' = [s \in Meeting |-> NewEntries(history[s], cutoff)]
        /\ place' = [s \in Meeting |-> IF NewEntries(history[s], cutoff) = history[s] THEN place[s]
                                       ELSE PositionsOf(NewEntries(history[s], cutoff))]
        /\ records' = records
    BY DEF CleanupOldHistory
  <2> QED
    BY <2>1, <1>1
<1>3. ASSUME NEW s \in Meeting
      PROVE  /\ recent[s] \in Seq(1..MaxRecords) /\ Increasing(recent[s])
             /\ Len(recent[s]) <= HistoryCap
             /\ \A i \in DOMAIN recent[s] : recent[s][i] <= records
  <2>1. PICK h : h = history[s]
    OBVIOUS
  <2>2. /\ h \in Seq(1..MaxRecords) /\ Increasing(h) /\ Len(h) <= HistoryCap /\ Len(h) \in Nat
        /\ \A i \in DOMAIN h : h[i] <= records
    BY <2>1 DEF HistoryKept
  <2>3. PICK g : g = NewEntries(h, cutoff)
    OBVIOUS
  <2>4. /\ g \in Seq(1..MaxRecords) /\ Len(g) <= Len(h) /\ Increasing(g)
        /\ \A i \in DOMAIN g : \E j \in DOMAIN h : g[i] = h[j]
    BY <2>2, <2>3, Bounds, RecentOnes
  <2>5. Len(g) <= HistoryCap
    BY <2>2, <2>4, Bounds
  <2>6. recent[s] = g
    BY <2>1, <2>3, <1>1
  <2> QED
    BY <2>2, <2>4, <2>5, <2>6
<1>4. place' = [s \in Meeting |-> PositionsOf(history'[s])]
  BY <1>2 DEF HistoryKept
<1>5. history' \in [Meeting -> Seq(1..MaxRecords)]
  <2>1. recent = [s \in Meeting |-> recent[s]]
    BY <1>1
  <2> QED
    BY <1>2, <1>3, <2>1
<1> QED
  BY <1>2, <1>3, <1>4, <1>5 DEF HistoryKept

\* What leaves the seats and the colours as they are.
LEMMA ColorsStay ==
    ASSUME ColorsFollow, UNCHANGED <<seats, staleColor>>
    PROVE  ColorsFollow'
  BY DEF ColorsFollow

LEMMA MeetingStays ==
    ASSUME OneMeets, UNCHANGED <<sessionOf, askedFor>>
    PROVE  OneMeets'
  BY DEF OneMeets, Active

LEMMA CursorsStay ==
    ASSUME CursorsFollow, UNCHANGED <<sessionOf, colored, cursors, movedLate, visit>>
    PROVE  CursorsFollow'
  BY DEF CursorsFollow, EndedIsForgotten

LEMMA SessionsStart == CollaborationInit => SessionsInv
<1> SUFFICES ASSUME CollaborationInit PROVE SessionsInv
  OBVIOUS
<1>1. <<>> \in Seq(Seat) /\ <<>> \in Seq(1..MaxRecords) /\ Len(<<>>) = 0 /\ DOMAIN <<>> = {}
  OBVIOUS
<1>2. 0 \in 0..(Palette - 1) /\ 0 \in 0..MaxSessions /\ 0 <= MaxParticipants /\ 0 <= HistoryCap
      /\ 0 \in 0..MaxRecords
  BY Bounds
<1>3. SeatsTyped
  BY <1>1, <1>2 DEF CollaborationInit, SeatsTyped
<1>4. \A s \in Meeting : history[s] = <<>>
  BY DEF CollaborationInit
<1>5. PositionsOf(<<>>) = <<>>
  <2>1. PositionsOf(<<>>) = [n \in {} |-> CHOOSE i \in {} : <<>>[i] = n]
    BY <1>1 DEF PositionsOf
  <2> QED
    BY <2>1
<1>6. place = [s \in Meeting |-> PositionsOf(history[s])]
  BY <1>4, <1>5 DEF CollaborationInit
<1>7. history \in [Meeting -> Seq(1..MaxRecords)] /\ records = 0
  BY <1>1 DEF CollaborationInit
<1>8. \A s \in Meeting : Len(history[s]) = 0 /\ DOMAIN history[s] = {}
  BY <1>1, <1>4
<1>9. HistoryKept
  BY <1>2, <1>6, <1>7, <1>8 DEF HistoryKept, Increasing
<1>10. OneMeets /\ CursorsFollow
  BY DEF CollaborationInit, OneMeets, Active, CursorsFollow, EndedIsForgotten
<1>11. \A s \in Meeting : DOMAIN seats[s] = {}
  BY <1>1 DEF CollaborationInit
<1>12. ColorsFollow
  BY <1>11 DEF ColorsFollow
<1> QED
  BY <1>3, <1>9, <1>10, <1>12 DEF SessionsInv

LEMMA SessionsStep ==
    ASSUME SessionsInv, CollaborationNext
    PROVE  SessionsInv'
<1> DEFINE Row == [at : {"absent", "found", "connected", "gone"},
                   session : 0..MaxSessions, color : 0..(Palette - 1)]
<1>0. /\ SeatsTyped /\ HistoryKept /\ OneMeets /\ ColorsFollow /\ CursorsFollow
      /\ sessionOf \in [Meeting -> {"none", "active", "ended"}]
      /\ seats \in [Meeting -> Seq(Seat)] /\ visit \in [Visit -> Row]
      /\ colored \in [Meeting -> SUBSET Visit] /\ cursors \in [Meeting -> SUBSET Visit]
      /\ \A s \in Meeting : s \in 0..MaxSessions
      /\ \A v \in Visit : visit[v] \in Row /\ visit[v].color \in 0..(Palette - 1)
                          /\ (visit[v].at # "absent" => visit[v].session \in Meeting)
      /\ \A s \in Meeting : /\ seats[s] \in Seq(Seat) /\ Len(seats[s]) \in Nat
                            /\ Len(seats[s]) % Palette \in 0..(Palette - 1)
  <2>1. \A n \in Nat : n % Palette \in 0..(Palette - 1)
    BY Bounds
  <2>2. SeatsTyped /\ HistoryKept /\ OneMeets /\ ColorsFollow /\ CursorsFollow
    BY DEF SessionsInv
  <2>3. /\ sessionOf \in [Meeting -> {"none", "active", "ended"}]
        /\ seats \in [Meeting -> Seq(Seat)] /\ visit \in [Visit -> Row]
        /\ colored \in [Meeting -> SUBSET Visit] /\ cursors \in [Meeting -> SUBSET Visit]
    BY <2>2 DEF SeatsTyped
  <2>4. \A s \in Meeting : s \in 0..MaxSessions
    BY Bounds DEF Meeting
  <2>5. \A v \in Visit : visit[v] \in Row /\ visit[v].color \in 0..(Palette - 1)
                          /\ (visit[v].at # "absent" => visit[v].session \in Meeting)
    BY <2>2, <2>3 DEF CursorsFollow
  <2>6. \A s \in Meeting : /\ seats[s] \in Seq(Seat) /\ Len(seats[s]) \in Nat
                            /\ Len(seats[s]) % Palette \in 0..(Palette - 1)
    BY <2>1, <2>3
  <2> QED
    BY <2>2, <2>3, <2>4, <2>5, <2>6
<1>1. ASSUME NEW cutoff \in 1..MaxRecords, CleanupOldHistory(cutoff)
      PROVE  SessionsInv'
  <2>1. HistoryKept'
    BY <1>0, <1>1, HistoryIsCleaned
  <2>2. UNCHANGED <<sessionOf, seats, visit, colored, cursors, askedFor, staleColor, movedLate>>
    BY <1>1 DEF CleanupOldHistory
  <2>3. SeatsTyped'
    BY <1>0, <2>2 DEF SeatsTyped
  <2>4. ColorsFollow' /\ OneMeets' /\ CursorsFollow'
    BY <1>0, <2>2, ColorsStay, MeetingStays, CursorsStay
  <2> QED
    BY <2>1, <2>3, <2>4 DEF SessionsInv
<1>2. ASSUME NEW s \in Meeting, CreateSession(s)
      PROVE  SessionsInv'
  <2>1. /\ sessionOf' = [sessionOf EXCEPT ![s] = "active"] /\ askedFor' = askedFor \cup {s}
        /\ UNCHANGED <<seats, visit, colored, cursors, history, place, records, staleColor, movedLate>>
        /\ sessionOf[s] = "none"
    BY <1>2 DEF CreateSession, Unused
  <2>2. SeatsTyped'
    BY <1>0, <2>1 DEF SeatsTyped
  <2>3. OneMeets'
    BY <1>0, <2>1 DEF OneMeets, Active
  <2>4. CursorsFollow'
    BY <1>0, <2>1 DEF CursorsFollow, EndedIsForgotten
  <2> QED
    BY <1>0, <2>1, <2>2, <2>3, <2>4, ColorsStay, HistoryStays DEF SessionsInv
<1>3. ASSUME NEW v \in Visit, NEW s \in Meeting, GetOrCreateSession(v, s)
      PROVE  SessionsInv'
  <2>1. PICK row : row = [at |-> "found", session |-> s, color |-> NextColor(s)]
    OBVIOUS
  <2>2. row \in Row /\ row.at = "found" /\ row.session = s
    BY <1>0, <2>1 DEF NextColor
  <2>3. /\ sessionOf' = [sessionOf EXCEPT ![s] = "active"] /\ visit' = [visit EXCEPT ![v] = row]
        /\ UNCHANGED <<seats, colored, cursors, history, place, records, askedFor, staleColor, movedLate>>
        /\ visit[v].at = "absent"
    BY <1>3, <2>1 DEF GetOrCreateSession
  <2>4. visit' \in [Visit -> Row] /\ visit'[v] = row /\ \A w \in Visit : w # v => visit'[w] = visit[w]
    BY <1>0, <2>2, <2>3
  <2>5. SeatsTyped'
    BY <1>0, <2>3, <2>4 DEF SeatsTyped
  <2>6. OneMeets'
    <3>1. CASE Active # {}
      <4>1. sessionOf[s] = "active"
        BY <1>3, <3>1 DEF GetOrCreateSession, Open, Active
      <4>2. sessionOf' = sessionOf
        BY <1>0, <2>3, <4>1
      <4> QED
        BY <1>0, <2>3, <4>2, MeetingStays
    <3>2. CASE Active = {}
      BY <1>0, <2>3, <3>2 DEF OneMeets, Active
    <3> QED
      BY <3>1, <3>2
  <2>7. CursorsFollow'
    <3>1. sessionOf[s] # "ended" /\ \A t \in Meeting : v \notin cursors[t]
      BY <1>0, <1>3, <2>3 DEF GetOrCreateSession, Open, Active, Unused, CursorsFollow
    <3>2. EndedIsForgotten'
      BY <1>0, <2>3, <3>1 DEF EndedIsForgotten, CursorsFollow
    <3> QED
      BY <1>0, <2>2, <2>3, <2>4, <3>1, <3>2 DEF CursorsFollow
  <2> QED
    BY <1>0, <2>3, <2>5, <2>6, <2>7, ColorsStay, HistoryStays DEF SessionsInv
<1>4. ASSUME NEW v \in Visit, JoinSession(v)
      PROVE  SessionsInv'
  <2>1. PICK s : s = visit[v].session
    OBVIOUS
  <2>2. /\ visit[v].at = "found" /\ sessionOf[s] = "active" /\ Len(seats[s]) < MaxParticipants
        /\ seats' = [seats EXCEPT ![s] = Append(@, [who |-> v, color |-> visit[v].color])]
        /\ colored' = [colored EXCEPT ![s] = @ \cup {v}]
        /\ visit' = [visit EXCEPT ![v].at = "connected"]
        /\ (staleColor' = IF visit[v].color = NextColor(s) THEN staleColor ELSE staleColor \cup {v})
        /\ RecordOperation(s)
        /\ UNCHANGED <<sessionOf, cursors, askedFor, movedLate>>
    BY <1>4, <2>1 DEF JoinSession, Admissible
  <2>3. s \in Meeting
    BY <1>0, <2>1, <2>2
  <2>4. PICK seat : seat = [who |-> v, color |-> visit[v].color]
    OBVIOUS
  <2>5. seat \in Seat /\ seat.who = v /\ seat.color = visit[v].color
    BY <1>0, <2>4 DEF Seat
  <2>6. PICK row : row = [visit[v] EXCEPT !.at = "connected"]
    OBVIOUS
  <2>7. row \in Row /\ row.at = "connected" /\ row.session = s
    BY <1>0, <2>1, <2>6
  <2>8. visit' = [visit EXCEPT ![v] = row]
    BY <2>2, <2>6
  <2>9. visit' \in [Visit -> Row] /\ visit'[v] = row /\ \A w \in Visit : w # v => visit'[w] = visit[w]
    BY <1>0, <2>7, <2>8
  <2>10. PICK q : q = Append(seats[s], seat)
    OBVIOUS
  <2>11. /\ q \in Seq(Seat) /\ Len(q) = Len(seats[s]) + 1 /\ Len(q) <= MaxParticipants
         /\ q[Len(seats[s]) + 1] = seat /\ \A j \in 1..Len(seats[s]) : q[j] = seats[s][j]
         /\ DOMAIN q = 1..(Len(seats[s]) + 1) /\ DOMAIN seats[s] = 1..Len(seats[s])
    BY <1>0, <2>2, <2>3, <2>5, <2>10, Bounds
  <2>12. seats' \in [Meeting -> Seq(Seat)] /\ seats'[s] = q
         /\ \A t \in Meeting : t # s => seats'[t] = seats[t]
    BY <1>0, <2>2, <2>3, <2>4, <2>10, <2>11
  <2>13. SeatsTyped'
    <3>1. \A t \in Meeting : Len(seats'[t]) <= MaxParticipants
      BY <1>0, <2>11, <2>12 DEF SeatsTyped
    <3>2. colored' \in [Meeting -> SUBSET Visit] /\ staleColor' \subseteq Visit
      BY <1>0, <2>2 DEF SeatsTyped
    <3> QED
      BY <1>0, <2>2, <2>9, <2>12, <3>1, <3>2 DEF SeatsTyped
  <2>14. HistoryKept'
    BY <1>0, <2>2, <2>3, OperationIsRecorded
  <2>15. ColorsFollow'
    <3>1. ASSUME NEW t \in Meeting, NEW j \in DOMAIN seats'[t]
          PROVE  seats'[t][j].color = (j - 1) % Palette \/ seats'[t][j].who \in staleColor'
      <4>1. staleColor \subseteq staleColor'
        BY <2>2
      <4>2. CASE t = s /\ j = Len(seats[s]) + 1
        <5>1. seats'[t][j] = seat /\ j - 1 = Len(seats[s])
          BY <1>0, <2>3, <2>11, <2>12, <4>2
        <5>2. seat.color = Len(seats[s]) % Palette \/ v \in staleColor'
          BY <2>2, <2>5 DEF NextColor
        <5> QED
          BY <2>5, <5>1, <5>2
      <4>3. CASE ~(t = s /\ j = Len(seats[s]) + 1)
        <5>1. j \in DOMAIN seats[t] /\ seats'[t][j] = seats[t][j]
          <6>1. CASE t = s
          BY <1>0, <2>3, <2>11, <2>12, <3>1, <4>3, <6>1
        <6>2. CASE t # s
          BY <2>12, <6>2
        <6> QED
          BY <6>1, <6>2
        <5> QED
          BY <1>0, <4>1, <5>1 DEF ColorsFollow
      <4> QED
        BY <4>2, <4>3
    <3> QED
      BY <3>1 DEF ColorsFollow
  <2>16. CursorsFollow'
    <3>1. \A t \in Meeting : v \notin cursors[t]
      BY <1>0, <2>2 DEF CursorsFollow
    <3>2. EndedIsForgotten'
      BY <1>0, <2>2 DEF CursorsFollow, EndedIsForgotten
    <3> QED
      BY <1>0, <2>2, <2>3, <2>7, <2>9, <3>1, <3>2 DEF CursorsFollow
  <2> QED
    BY <1>0, <2>2, <2>13, <2>14, <2>15, <2>16, MeetingStays DEF SessionsInv
<1>5. ASSUME NEW v \in Visit, visit[v].at \in {"found", "connected"},
             visit' = [visit EXCEPT ![v].at = "gone"],
             UNCHANGED <<sessionOf, seats, colored, cursors, history, place, records, askedFor,
                         staleColor, movedLate>>
      PROVE  SessionsInv'
  <2>1. PICK row : row = [visit[v] EXCEPT !.at = "gone"]
    OBVIOUS
  <2>2. row \in Row /\ row.at = "gone" /\ row.session = visit[v].session
    BY <1>0, <2>1
  <2>3. visit' = [visit EXCEPT ![v] = row]
    BY <1>5, <2>1
  <2>4. visit' \in [Visit -> Row] /\ visit'[v] = row /\ \A w \in Visit : w # v => visit'[w] = visit[w]
    BY <1>0, <2>2, <2>3
  <2>5. SeatsTyped'
    BY <1>0, <1>5, <2>4 DEF SeatsTyped
  <2>6. CursorsFollow'
    <3>1. EndedIsForgotten'
      BY <1>0, <1>5 DEF CursorsFollow, EndedIsForgotten
    <3> QED
      BY <1>0, <1>5, <2>2, <2>4, <3>1 DEF CursorsFollow
  <2> QED
    BY <1>0, <1>5, <2>5, <2>6, ColorsStay, HistoryStays, MeetingStays DEF SessionsInv
<1>6. ASSUME NEW v \in Visit, JoinRefused(v) \/ Disconnect(v)
      PROVE  SessionsInv'
  BY <1>5, <1>6 DEF JoinRefused, Disconnect, Connected
<1>7. ASSUME NEW s \in Meeting, EndMeetingPlace(s)
      PROVE  SessionsInv'
  <2>1. /\ sessionOf' = [sessionOf EXCEPT ![s] = "ended"] /\ cursors' = [cursors EXCEPT ![s] = {}]
        /\ colored' = [colored EXCEPT ![s] = {}] /\ movedLate' = {v \in movedLate : visit[v].session # s}
        /\ UNCHANGED <<seats, visit, history, place, records, askedFor, staleColor>>
    BY <1>7 DEF EndMeetingPlace
  <2>2. SeatsTyped'
    BY <1>0, <2>1 DEF SeatsTyped
  <2>3. OneMeets'
    BY <1>0, <2>1 DEF OneMeets, Active
  <2>4. EndedIsForgotten'
    <3>1. ASSUME NEW t \in Meeting, t # s, sessionOf[t] = "ended"
          PROVE  colored'[t] = {} /\ cursors'[t] \subseteq movedLate'
      BY <1>0, <2>1, <3>1 DEF CursorsFollow, EndedIsForgotten
    <3>2. colored'[s] = {} /\ cursors'[s] = {} /\ \A t \in Meeting : t # s => sessionOf'[t] = sessionOf[t]
      BY <1>0, <2>1
    <3> QED
      BY <3>1, <3>2 DEF EndedIsForgotten
  <2>5. CursorsFollow'
    <3>1. \A t \in Meeting : cursors'[t] \subseteq cursors[t]
      BY <1>0, <2>1
    <3> QED
      BY <1>0, <2>1, <2>4, <3>1 DEF CursorsFollow
  <2> QED
    BY <1>0, <2>1, <2>2, <2>3, <2>5, ColorsStay, HistoryStays DEF SessionsInv
<1>8. ASSUME NEW v \in Visit, HandleCursorUpdate(v)
      PROVE  SessionsInv'
  <2>1. PICK s : s = visit[v].session
    OBVIOUS
  <2>2. /\ visit[v].at = "connected" /\ cursors' = [cursors EXCEPT ![s] = @ \cup {v}]
        /\ (movedLate' = IF sessionOf[s] = "ended" THEN movedLate \cup {v} ELSE movedLate)
        /\ UNCHANGED <<sessionOf, seats, visit, colored, history, place, records, askedFor, staleColor>>
    BY <1>8, <2>1 DEF HandleCursorUpdate, Connected
  <2>3. s \in Meeting
    BY <1>0, <2>1, <2>2
  <2>4. SeatsTyped'
    BY <1>0, <2>2, <2>3 DEF SeatsTyped
  <2>5. EndedIsForgotten'
    <3>1. ASSUME NEW t \in Meeting, sessionOf[t] = "ended"
          PROVE  colored'[t] = {} /\ cursors'[t] \subseteq movedLate'
      BY <1>0, <2>2, <2>3, <3>1 DEF CursorsFollow, EndedIsForgotten
    <3> QED
      BY <2>2, <3>1 DEF EndedIsForgotten
  <2>6. CursorsFollow'
    BY <1>0, <2>1, <2>2, <2>3, <2>5 DEF CursorsFollow
  <2> QED
    BY <1>0, <2>2, <2>4, <2>6, ColorsStay, HistoryStays, MeetingStays DEF SessionsInv
<1>9. ASSUME NEW v \in Visit, RecordEdit(v)
      PROVE  SessionsInv'
  <2>1. /\ visit[v].at = "connected" /\ RecordOperation(visit[v].session)
        /\ UNCHANGED <<sessionOf, seats, visit, colored, cursors, askedFor, staleColor, movedLate>>
    BY <1>9 DEF RecordEdit, Connected
  <2>2. HistoryKept'
    BY <1>0, <2>1, OperationIsRecorded
  <2>3. SeatsTyped'
    BY <1>0, <2>1 DEF SeatsTyped
  <2> QED
    BY <1>0, <2>1, <2>2, <2>3, ColorsStay, MeetingStays, CursorsStay DEF SessionsInv
<1> QED
  BY <1>1, <1>2, <1>3, <1>4, <1>6, <1>7, <1>8, <1>9 DEF CollaborationNext

LEMMA SessionsStutter == SessionsInv /\ UNCHANGED meetingPlaceVars => SessionsInv'
<1> SUFFICES ASSUME SessionsInv, UNCHANGED meetingPlaceVars PROVE SessionsInv'
  OBVIOUS
<1>1. SeatsTyped'
  BY DEF SessionsInv, SeatsTyped, meetingPlaceVars
<1> QED
  BY <1>1, ColorsStay, HistoryStays, MeetingStays, CursorsStay DEF SessionsInv, meetingPlaceVars

LEMMA SessionsGood ==
    ASSUME SessionsInv
    PROVE  CollaborationTypeOK /\ TheyMeet /\ ColorsDiffer /\ EndedIsForgotten /\ HistoryIsIndexed
<1>1. CollaborationTypeOK
  BY DEF SessionsInv, SeatsTyped, HistoryKept, CollaborationTypeOK
<1>2. TheyMeet
  <2>1. IsFiniteSet(Active \ askedFor)
    <3>1. \A a, b \in Int : IsFiniteSet(a..b)
      BY FS_Interval
    <3>2. IsFiniteSet(Meeting)
      BY <3>1, Bounds DEF Meeting
    <3>3. Active \ askedFor \subseteq Meeting
      BY DEF Active
    <3> QED
      BY <3>2, <3>3, FS_Subset
  <2>2. Cardinality(Active \ askedFor) \in Nat
    BY <2>1, FS_CardinalityType
  <2>3. ~(Cardinality(Active \ askedFor) > 1)
    BY <2>1, MoreThanOne DEF SessionsInv, OneMeets
  <2> QED
    BY <2>2, <2>3 DEF TheyMeet
<1>3. ColorsDiffer
  <2>1. ASSUME NEW s \in Meeting, NEW i \in DOMAIN seats[s], NEW j \in DOMAIN seats[s],
               i < j, j <= Palette, seats[s][i].color = seats[s][j].color
        PROVE  {seats[s][i].who, seats[s][j].who} \cap staleColor # {}
    <3>1. i \in Nat /\ j \in Nat /\ 1 <= i /\ Palette \in Nat /\ Palette > 0
      BY Bounds DEF SessionsInv, SeatsTyped
    <3>2. (i - 1) % Palette = i - 1 /\ (j - 1) % Palette = j - 1
      BY <2>1, <3>1
    <3> QED
      BY <2>1, <3>1, <3>2 DEF SessionsInv, ColorsFollow
  <2> QED
    BY <2>1 DEF ColorsDiffer
<1>4. EndedIsForgotten
  BY DEF SessionsInv, CursorsFollow
<1>5. HistoryIsIndexed
  BY DEF SessionsInv, HistoryKept, HistoryIsIndexed, Increasing
<1> QED
  BY <1>1, <1>2, <1>3, <1>4, <1>5

-----------------------------------------------------------------------------
(* What hosts tell the participants of a meeting.  A join that copied the    *)
(* entries has what they were, but for those that were written since; who    *)
(* left is not written meanwhile, because that needs the mutex.              *)

CopyIsRecent ==
    Unlocked \/ /\ joining.user \in User /\ joining.copy \in Seq(Participant)
                /\ Len(joining.copy) = Len(entries) /\ Len(entries) < MaxEntries
                /\ \A p \in DOMAIN entries :
                      /\ p \notin overlapped => joining.copy[p] = entries[p]
                      /\ joining.copy[p].left = entries[p].left

ControlsRest == Len(given) = Len(entries) /\ CopyIsRecent

ControlsInv == ControlsTypeOK /\ ControlsAreKept /\ OneScreenShare /\ ControlsRest

LEMMA ControlsStart == ControlsInit => ControlsInv
<1> SUFFICES ASSUME ControlsInit PROVE ControlsInv
  OBVIOUS
<1>1. <<>> \in Seq(Participant) /\ Len(<<>>) = 0 /\ DOMAIN <<>> = {}
  OBVIOUS
<1>2. Len(entries) = 0 /\ DOMAIN entries = {} /\ Len(given) = 0 /\ entries \in Seq(Participant)
      /\ given \in Seq(Participant) /\ joining = NoJoin /\ leavers = {} /\ checked = {}
      /\ sharers = {} /\ over = FALSE /\ overlapped = {}
  BY <1>1 DEF ControlsInit
<1>3. ControlsTypeOK
  <2>1. entries \in Seq(Participant) /\ Len(entries) <= MaxEntries /\ given \in Seq(Participant)
    BY <1>2, EntryAssumption
  <2>2. joining = NoJoin \/ joining \in [user : User, copy : Seq(Participant)]
    BY <1>2
  <2>3. leavers \subseteq DOMAIN entries /\ checked \subseteq User /\ sharers \subseteq DOMAIN entries
        /\ over \in BOOLEAN /\ overlapped \subseteq DOMAIN entries
    BY <1>2
  <2> QED
    BY <2>1, <2>2, <2>3 DEF ControlsTypeOK
<1>4. ControlsAreKept /\ OneScreenShare /\ ControlsRest
  BY <1>2 DEF ControlsInit, ControlsAreKept, OneScreenShare, ControlsRest, CopyIsRecent, Unlocked
<1> QED
  BY <1>3, <1>4 DEF ControlsInv

LEMMA ControlsTyped ==
    ASSUME ControlsInv
    PROVE  /\ entries \in Seq(Participant) /\ given \in Seq(Participant)
           /\ DOMAIN entries = 1..Len(entries) /\ DOMAIN given = DOMAIN entries
           /\ Len(given) = Len(entries) /\ Len(entries) \in Nat /\ Len(entries) <= MaxEntries
           /\ \A p \in DOMAIN entries :
                 /\ entries[p] \in Participant /\ given[p] \in Participant
                 /\ entries[p].left = given[p].left
                 /\ p \notin overlapped => entries[p] = given[p]
           /\ leavers \in SUBSET DOMAIN entries /\ sharers \in SUBSET DOMAIN entries
           /\ overlapped \in SUBSET DOMAIN entries /\ checked \in SUBSET User /\ over \in BOOLEAN
  BY DEF ControlsInv, ControlsTypeOK, ControlsAreKept, ControlsRest

\* A change of some entries, made in both lists.
LEMMA ChangesKeep ==
    ASSUME ControlsInv, NEW told \in SUBSET DOMAIN entries,
           NEW change \in [Participant -> Participant],
           Unlocked \/ \A e \in Participant : change[e].left = e.left,
           entries' = [p \in DOMAIN entries |-> IF p \in told THEN change[entries[p]] ELSE entries[p]],
           given' = [p \in DOMAIN given |-> IF p \in told THEN change[given[p]] ELSE given[p]],
           overlapped' = IF Unlocked THEN overlapped ELSE overlapped \cup told,
           \A p \in told : change[entries[p]].left = change[given[p]].left,
           UNCHANGED <<joining, sharers>>,
           leavers' \in SUBSET leavers, checked' \in SUBSET User, over' \in BOOLEAN
    PROVE  ControlsInv'
<1>0. ControlsTyped!2
  BY ControlsTyped
<1>1. /\ entries' \in Seq(Participant) /\ given' \in Seq(Participant)
      /\ DOMAIN entries' = DOMAIN entries /\ DOMAIN given' = DOMAIN entries
      /\ Len(entries') = Len(entries) /\ Len(given') = Len(entries)
      /\ \A p \in DOMAIN entries :
            /\ entries'[p] = IF p \in told THEN change[entries[p]] ELSE entries[p]
            /\ given'[p] = IF p \in told THEN change[given[p]] ELSE given[p]
  <2>1. entries' \in [1..Len(entries) -> Participant] /\ given' \in [1..Len(entries) -> Participant]
    BY <1>0
  <2>2. entries' \in Seq(Participant) /\ given' \in Seq(Participant)
        /\ Len(entries') = Len(entries) /\ Len(given') = Len(entries)
    BY <2>1, <1>0
  <2> QED
    BY <2>1, <2>2, <1>0
<1>2. ControlsTypeOK'
  BY <1>0, <1>1 DEF ControlsTypeOK, ControlsInv
<1>3. ControlsAreKept'
  <2>1. ASSUME NEW p \in DOMAIN entries
        PROVE  entries'[p].left = given'[p].left
    BY <1>0, <1>1
  <2>2. ASSUME NEW p \in DOMAIN entries, p \notin overlapped'
        PROVE  entries'[p] = given'[p]
    BY <2>2, <1>0, <1>1
  <2> QED
    BY <2>1, <2>2, <1>1 DEF ControlsAreKept
<1>4. OneScreenShare'
  BY DEF ControlsInv, OneScreenShare
<1>5. ControlsRest'
  <2>1. CASE Unlocked
    BY <2>1, <1>1 DEF ControlsRest, CopyIsRecent, Unlocked
  <2>2. CASE ~Unlocked
    <3>1. ASSUME NEW p \in DOMAIN entries
          PROVE  /\ p \notin overlapped' => joining.copy[p] = entries'[p]
                 /\ joining.copy[p].left = entries'[p].left
      BY <2>2, <1>0, <1>1 DEF ControlsInv, ControlsRest, CopyIsRecent
    <3> QED
      BY <2>2, <3>1, <1>1 DEF ControlsInv, ControlsRest, CopyIsRecent, Unlocked
  <2> QED
    BY <2>1, <2>2
<1> QED
  BY <1>2, <1>3, <1>4, <1>5 DEF ControlsInv

\* What leaves the entries as they are.
LEMMA EntriesStay ==
    ASSUME ControlsInv, UNCHANGED <<entries, given, overlapped>>,
           \/ UNCHANGED joining
           \/ joining' = [user |-> joining'.user, copy |-> entries] /\ joining'.user \in User
              /\ Len(entries) < MaxEntries,
           leavers' \in SUBSET DOMAIN entries, sharers' \in SUBSET DOMAIN entries,
           \A p, q \in sharers' : p = q,
           checked' \in SUBSET User, over' \in BOOLEAN
    PROVE  ControlsInv'
<1>0. ControlsTyped!2
  BY ControlsTyped
<1>1. ControlsRest'
  BY <1>0 DEF ControlsInv, ControlsRest, CopyIsRecent, Unlocked
<1>2. ControlsTypeOK' /\ ControlsAreKept' /\ OneScreenShare'
  BY <1>0 DEF ControlsInv, ControlsTypeOK, ControlsAreKept, OneScreenShare
<1> QED
  BY <1>1, <1>2 DEF ControlsInv

LEMMA ControlsStep ==
    ASSUME ControlsInv, ControlsNext
    PROVE  ControlsInv'
<1>0. ControlsTyped!2
  BY ControlsTyped
<1>1. (\A p, q \in sharers : p = q) /\ (joining = NoJoin \/ joining.user \in User)
      /\ ((\A p, q \in sharers' : p = q) => OneScreenShare')
  BY DEF ControlsInv, OneScreenShare, ControlsRest, CopyIsRecent, Unlocked
<1>2. ASSUME NEW u \in User, JoinBegins(u)
      PROVE  ControlsInv'
  <2>1. joining' = [user |-> joining'.user, copy |-> entries] /\ joining'.user \in User
    BY <1>2 DEF JoinBegins
  <2> QED
    BY <1>0, <1>1, <1>2, <2>1, EntriesStay DEF JoinBegins
<1>3. ASSUME JoinEnds
      PROVE  ControlsInv'
  <2>1. PICK array \in {entries, joining.copy} : entries' = Append(array, NewEntry(joining.user))
    BY <1>3 DEF JoinEnds
  <2>2. PICK new : new = NewEntry(joining.user)
    OBVIOUS
  <2>3. joining.user \in User /\ ~Unlocked /\ joining' = NoJoin
    BY <1>3, <1>1 DEF JoinEnds, Unlocked
  <2>4. new \in Participant
    BY <2>2, <2>3 DEF NewEntry, Participant
  <2>5. /\ array \in Seq(Participant) /\ Len(array) = Len(entries) /\ Len(entries) < MaxEntries
        /\ \A p \in DOMAIN entries : /\ p \notin overlapped => array[p] = entries[p]
                                     /\ array[p].left = entries[p].left
    BY <2>1, <2>3, <1>0 DEF ControlsInv, ControlsRest, CopyIsRecent
  <2>6a. entries' = Append(array, new) /\ given' = Append(given, new)
    BY <2>1, <2>2, <1>3 DEF JoinEnds
  <2>6b. /\ entries' \in Seq(Participant) /\ Len(entries') = Len(entries) + 1
         /\ \A p \in 1..Len(entries) : entries'[p] = array[p]
         /\ entries'[Len(entries) + 1] = new
    BY <2>4, <2>5, <2>6a
  <2>6c. /\ given' \in Seq(Participant) /\ Len(given') = Len(entries) + 1
         /\ \A p \in 1..Len(entries) : given'[p] = given[p]
         /\ given'[Len(entries) + 1] = new
    BY <2>4, <2>6a, <1>0
  <2>6. /\ entries' \in Seq(Participant) /\ given' \in Seq(Participant)
        /\ Len(entries') = Len(entries) + 1 /\ Len(given') = Len(entries) + 1
        /\ DOMAIN entries' = 1..(Len(entries) + 1)
        /\ \A p \in DOMAIN entries : entries'[p] = array[p] /\ given'[p] = given[p]
        /\ entries'[Len(entries) + 1] = new /\ given'[Len(entries) + 1] = new
    BY <2>6b, <2>6c, <1>0
  <2>7. UNCHANGED <<leavers, checked, sharers, over, overlapped>>
    BY <1>3 DEF JoinEnds
  <2>8. ControlsTypeOK'
    BY <2>3, <2>5, <2>6, <2>7, <1>0, EntryAssumption DEF ControlsTypeOK
  <2>9. ControlsAreKept'
    <3>1. ASSUME NEW p \in DOMAIN entries'
          PROVE  (p \notin overlapped' => entries'[p] = given'[p]) /\ entries'[p].left = given'[p].left
      <4>1. CASE p = Len(entries) + 1
        BY <4>1, <2>6
      <4>2. CASE p # Len(entries) + 1
        BY <4>2, <2>5, <2>6, <2>7, <1>0
      <4> QED
        BY <4>1, <4>2
    <3> QED
      BY <3>1 DEF ControlsAreKept
  <2>10. OneScreenShare' /\ ControlsRest'
    BY <2>3, <2>6, <2>7, <1>1 DEF ControlsRest, CopyIsRecent, Unlocked
  <2> QED
    BY <2>8, <2>9, <2>10 DEF ControlsInv
<1>4. ASSUME NEW p \in 1..MaxEntries, LeaveService(p)
      PROVE  ControlsInv'
  BY <1>0, <1>1, <1>4, EntriesStay DEF LeaveService
<1>5. ASSUME NEW p \in leavers, LeaveRoom(p)
      PROVE  ControlsInv'
  <2> DEFINE change == [e \in Participant |-> [e EXCEPT !.left = TRUE]]
  <2>1. PICK c : c = change
    OBVIOUS
  <2>2. c \in [Participant -> Participant]
        /\ \A e \in Participant : c[e] = [e EXCEPT !.left = TRUE] /\ c[e].left = TRUE
    BY <2>1 DEF Participant
  <2> HIDE DEF change
  <2>3. /\ entries' = [q \in DOMAIN entries |-> IF q \in {p} THEN c[entries[q]] ELSE entries[q]]
        /\ given' = [q \in DOMAIN given |-> IF q \in {p} THEN c[given[q]] ELSE given[q]]
    <3>1. c[entries[p]] = [entries[p] EXCEPT !.left = TRUE] /\ c[given[p]] = [given[p] EXCEPT !.left = TRUE]
      BY <2>2, <1>0
    <3>2. entries' = [entries EXCEPT ![p] = c[entries[p]]] /\ given' = [given EXCEPT ![p] = c[given[p]]]
      BY <3>1, <1>5 DEF LeaveRoom
    <3> QED
      BY <3>2, <1>0
  <2>4. Unlocked /\ UNCHANGED <<joining, sharers, overlapped>> /\ leavers' \in SUBSET leavers
        /\ checked' \in SUBSET User /\ over' \in BOOLEAN /\ {p} \in SUBSET DOMAIN entries
        /\ (overlapped' = IF Unlocked THEN overlapped ELSE overlapped \cup {p})
    BY <1>0, <1>5 DEF LeaveRoom
  <2>5. \A q \in {p} : c[entries[q]].left = c[given[q]].left
    BY <2>2, <2>4, <1>0
  <2> QED
    BY <2>2, <2>3, <2>4, <2>5, ChangesKeep
<1>6. ASSUME NEW p \in Present, NEW audio \in BOOLEAN, SetOwnAudio(p, audio)
      PROVE  ControlsInv'
  <2> DEFINE change == [e \in Participant |-> [e EXCEPT !.audio = audio]]
  <2>1. PICK c : c = change
    OBVIOUS
  <2>2. c \in [Participant -> Participant]
        /\ \A e \in Participant : c[e] = [e EXCEPT !.audio = audio] /\ c[e].left = e.left
    BY <2>1 DEF Participant
  <2> HIDE DEF change
  <2>0. p \in DOMAIN entries
    BY <1>0 DEF Present
  <2>3. /\ entries' = [q \in DOMAIN entries |-> IF q \in {p} THEN c[entries[q]] ELSE entries[q]]
        /\ given' = [q \in DOMAIN given |-> IF q \in {p} THEN c[given[q]] ELSE given[q]]
    <3>1. c[entries[p]] = [entries[p] EXCEPT !.audio = audio] /\ c[given[p]] = [given[p] EXCEPT !.audio = audio]
      BY <2>0, <2>2, <1>0
    <3>2. entries' = [entries EXCEPT ![p] = c[entries[p]]] /\ given' = [given EXCEPT ![p] = c[given[p]]]
      BY <3>1, <1>6 DEF SetOwnAudio
    <3> QED
      BY <3>2, <1>0
  <2>4. Unlocked /\ UNCHANGED <<joining, sharers, overlapped>> /\ leavers' \in SUBSET leavers
        /\ checked' \in SUBSET User /\ over' \in BOOLEAN /\ {p} \in SUBSET DOMAIN entries
        /\ (overlapped' = IF Unlocked THEN overlapped ELSE overlapped \cup {p})
    BY <2>0, <1>0, <1>6 DEF SetOwnAudio
  <2>5. \A q \in {p} : c[entries[q]].left = c[given[q]].left
    BY <2>2, <2>0, <1>0
  <2> QED
    BY <2>2, <2>3, <2>4, <2>5, ChangesKeep
<1>7. ASSUME NEW u \in User, CheckCoHost(u)
      PROVE  ControlsInv'
  BY <1>0, <1>1, <1>7, EntriesStay DEF CheckCoHost
<1>8. ASSUME NEW u \in User, ActsAsModerator(u)
      PROVE  checked' \in SUBSET User
  BY <1>0, <1>8 DEF ActsAsModerator, ActsAsHost
<1>9. ASSUME NEW u \in User, NEW p \in DOMAIN entries, NEW role \in {"CoHost", "Participant"},
             UpdateParticipantRole(u, p, role)
      PROVE  ControlsInv'
  <2> DEFINE change == [e \in Participant |-> [e EXCEPT !.role = role]]
  <2>1. PICK c : c = change
    OBVIOUS
  <2>2. c \in [Participant -> Participant]
        /\ \A e \in Participant : c[e] = [e EXCEPT !.role = role] /\ c[e].left = e.left
    BY <2>1 DEF Participant
  <2> HIDE DEF change
  <2>3. /\ entries' = [q \in DOMAIN entries |-> IF q \in {p} THEN c[entries[q]] ELSE entries[q]]
        /\ given' = [q \in DOMAIN given |-> IF q \in {p} THEN c[given[q]] ELSE given[q]]
        /\ (overlapped' = IF Unlocked THEN overlapped ELSE overlapped \cup {p})
        /\ UNCHANGED <<joining, sharers, leavers, over>>
    BY <2>2, <1>0, <1>9 DEF UpdateParticipantRole, Tell
  <2>4. leavers' \in SUBSET leavers /\ checked' \in SUBSET User /\ over' \in BOOLEAN
        /\ {p} \in SUBSET DOMAIN entries
    BY <2>3, <1>0, <1>9 DEF UpdateParticipantRole, ActsAsHost
  <2>5. \A q \in {p} : c[entries[q]].left = c[given[q]].left
    BY <2>2, <1>0
  <2> QED
    BY <2>2, <2>3, <2>4, <2>5, ChangesKeep
<1>10. ASSUME NEW u \in User, NEW told \in SUBSET DOMAIN entries, checked' \in SUBSET User,
              Tell(told, LAMBDA e : [e EXCEPT !.audio = FALSE])
       PROVE  ControlsInv'
  <2> DEFINE change == [e \in Participant |-> [e EXCEPT !.audio = FALSE]]
  <2>1. PICK c : c = change
    OBVIOUS
  <2>2. c \in [Participant -> Participant]
        /\ \A e \in Participant : c[e] = [e EXCEPT !.audio = FALSE] /\ c[e].left = e.left
    BY <2>1 DEF Participant
  <2> HIDE DEF change
  <2>3. /\ entries' = [q \in DOMAIN entries |-> IF q \in told THEN c[entries[q]] ELSE entries[q]]
        /\ given' = [q \in DOMAIN given |-> IF q \in told THEN c[given[q]] ELSE given[q]]
        /\ (overlapped' = IF Unlocked THEN overlapped ELSE overlapped \cup told)
        /\ UNCHANGED <<joining, sharers, leavers, over>>
    BY <2>2, <1>0, <1>10 DEF Tell
  <2>4. leavers' \in SUBSET leavers /\ checked' \in SUBSET User /\ over' \in BOOLEAN
        /\ told \in SUBSET DOMAIN entries
    BY <2>3, <1>0, <1>10
  <2>5. \A q \in told : c[entries[q]].left = c[given[q]].left
    BY <2>2, <2>4, <1>0
  <2>6. c \in [Participant -> Participant] /\ \A e \in Participant : c[e].left = e.left
    BY <2>2
  <2>7. /\ entries' = [q \in DOMAIN entries |-> IF q \in told THEN c[entries[q]] ELSE entries[q]]
        /\ given' = [q \in DOMAIN given |-> IF q \in told THEN c[given[q]] ELSE given[q]]
        /\ (overlapped' = IF Unlocked THEN overlapped ELSE overlapped \cup told)
        /\ UNCHANGED <<joining, sharers>>
    BY <2>3
  <2> QED
    BY <2>4, <2>5, <2>6, <2>7, ChangesKeep
<1>11. ASSUME NEW u \in User, NEW p \in DOMAIN entries, MuteParticipant(u, p)
       PROVE  ControlsInv'
  <2>1. PICK told : told = {p}
    OBVIOUS
  <2>2. checked' \in SUBSET User /\ told \in SUBSET DOMAIN entries
    BY <2>1, <1>8, <1>11 DEF MuteParticipant
  <2>3. Tell(told, LAMBDA e : [e EXCEPT !.audio = FALSE])
    BY <2>1, <1>11 DEF MuteParticipant, Tell
  <2> QED
    BY <2>2, <2>3, <1>10
<1>12. ASSUME NEW u \in User, MuteAll(u)
       PROVE  ControlsInv'
  <2>1. checked' \in SUBSET User /\ {p \in DOMAIN entries : entries[p].role # "Host"} \in SUBSET DOMAIN entries
    BY <1>0, <1>12 DEF MuteAll, ActsAsHost
  <2> QED
    BY <2>1, <1>10, <1>12 DEF MuteAll
<1>13. ASSUME NEW u \in User, NEW p \in DOMAIN entries, KickParticipant(u, p)
       PROVE  ControlsInv'
  BY <1>0, <1>1, <1>8, <1>13, EntriesStay DEF KickParticipant
<1>14. ASSUME NEW u \in User, EndMeetingBy(u)
       PROVE  ControlsInv'
  BY <1>0, <1>1, <1>14, EntriesStay DEF EndMeetingBy
<1>15. ASSUME NEW p \in DOMAIN entries, StartScreenShare(p) \/ StopScreenShare(p)
       PROVE  ControlsInv'
  BY <1>0, <1>1, <1>15, EntriesStay DEF StartScreenShare, StopScreenShare
<1>16. ASSUME NEW u \in User, ForceStopScreenShare(u)
       PROVE  ControlsInv'
  BY <1>0, <1>1, <1>8, <1>16, EntriesStay DEF ForceStopScreenShare
<1> QED
  BY <1>2, <1>3, <1>4, <1>5, <1>6, <1>7, <1>9, <1>11, <1>12, <1>13, <1>14, <1>15, <1>16 DEF ControlsNext

LEMMA ControlsStutters == ControlsInv /\ UNCHANGED controlVars => ControlsInv'
<1> SUFFICES ASSUME ControlsInv, UNCHANGED controlVars PROVE ControlsInv'
  OBVIOUS
<1>1. ControlsTypeOK' /\ ControlsAreKept' /\ OneScreenShare'
  BY DEF ControlsInv, ControlsTypeOK, ControlsAreKept, OneScreenShare, controlVars
<1>2. ControlsRest'
  BY DEF ControlsInv, ControlsRest, CopyIsRecent, Unlocked, controlVars
<1> QED
  BY <1>1, <1>2 DEF ControlsInv

-----------------------------------------------------------------------------
(* Edits.  The runes of an edit are in the document it looked up first, but  *)
(* for the one about to be applied, which is in no document yet.             *)

Char == [id : Ids, value : Nat, deleted : BOOLEAN]
Document == [content : Seq(Char), version : Nat]

\* Where a character is found when another has been inserted at a place.
Shifted(k, i) == IF i < k THEN i ELSE i + 1

LEMMA Insertion ==
    ASSUME NEW S, NEW s \in Seq(S), NEW k \in 1..(Len(s) + 1), NEW e \in S
    PROVE  /\ InsertAt(s, k, e) \in Seq(S) /\ Len(InsertAt(s, k, e)) = Len(s) + 1
           /\ InsertAt(s, k, e)[k] = e
           /\ \A i \in 1..Len(s) : InsertAt(s, k, e)[Shifted(k, i)] = s[i]
<1>0. Len(s) \in Nat /\ DOMAIN s = 1..Len(s)
  OBVIOUS
<1>1. PICK f, g, h : f = SubSeq(s, 1, k - 1) /\ g = SubSeq(s, k, Len(s)) /\ h = <<e>>
  OBVIOUS
<1>2. /\ f \in Seq(S) /\ Len(f) = k - 1 /\ \A i \in 1..(k - 1) : f[i] = s[i]
  <2>1. /\ f \in Seq(S) /\ Len(f) = (IF 1 <= k - 1 THEN (k - 1) - 1 + 1 ELSE 0)
        /\ \A i \in 1..((k - 1) - 1 + 1) : f[i] = s[1 + i - 1]
    <3>1. 1 \in Int /\ k - 1 \in Int /\ \A i \in 1..(k - 1) : s[i] \in S
      BY <1>0
    <3> QED
      BY <1>1, <3>1, SubSeqProperties
  <2>2. \A i \in 1..(k - 1) : i \in 1..((k - 1) - 1 + 1) /\ 1 + i - 1 = i
    BY <1>0
  <2> QED
    BY <1>0, <2>1, <2>2
<1>3. /\ g \in Seq(S) /\ Len(g) = Len(s) + 1 - k /\ \A i \in 1..(Len(s) + 1 - k) : g[i] = s[k + i - 1]
  <2>1. /\ g \in Seq(S) /\ Len(g) = (IF k <= Len(s) THEN Len(s) - k + 1 ELSE 0)
        /\ \A i \in 1..(Len(s) - k + 1) : g[i] = s[k + i - 1]
    <3>1. k \in Int /\ Len(s) \in Int /\ \A i \in k..Len(s) : s[i] \in S
      BY <1>0
    <3> QED
      BY <1>1, <3>1, SubSeqProperties
  <2>2. Len(s) - k + 1 = Len(s) + 1 - k
    BY <1>0
  <2> QED
    BY <1>0, <2>1, <2>2
<1>4. PICK p, q : p = f \o h /\ q = p \o g
  OBVIOUS
<1>5. h \in Seq(S) /\ Len(h) = 1 /\ h[1] = e
  BY <1>1
<1>6. /\ p \in Seq(S) /\ Len(p) = k /\ p[k] = e /\ \A i \in 1..(k - 1) : p[i] = s[i]
  <2>1. /\ p \in Seq(S) /\ Len(p) = Len(f) + Len(h)
        /\ \A i \in 1..(Len(f) + Len(h)) : p[i] = IF i <= Len(f) THEN f[i] ELSE h[i - Len(f)]
    BY <1>2, <1>4, <1>5, ConcatProperties
  <2>2. Len(f) + Len(h) = k /\ k \in 1..k /\ ~(k <= k - 1) /\ k - (k - 1) = 1
    BY <1>0, <1>2, <1>5
  <2>3. p[k] = e
    BY <1>2, <1>5, <2>1, <2>2
  <2>4. \A i \in 1..(k - 1) : i \in 1..k /\ i <= k - 1
    BY <1>0
  <2> QED
    BY <1>2, <2>1, <2>2, <2>3, <2>4
<1>7. /\ q \in Seq(S) /\ Len(q) = Len(s) + 1 /\ q[k] = e
      /\ \A i \in 1..(k - 1) : q[i] = s[i]
      /\ \A i \in k..Len(s) : q[i + 1] = s[i]
  <2>1. /\ q \in Seq(S) /\ Len(q) = Len(p) + Len(g)
        /\ \A i \in 1..(Len(p) + Len(g)) : q[i] = IF i <= Len(p) THEN p[i] ELSE g[i - Len(p)]
    <3>1. p \in Seq(S) /\ g \in Seq(S) /\ q = p \o g
      BY <1>3, <1>4, <1>6
    <3> QED
      BY <3>1, ConcatProperties
  <2>2. Len(p) + Len(g) = Len(s) + 1
    BY <1>0, <1>3, <1>6
  <2>3. \A i \in 1..k : i \in 1..(Len(s) + 1) /\ i <= k
    BY <1>0
  <2>4. \A i \in 1..k : q[i] = p[i]
    BY <1>6, <2>1, <2>2, <2>3
  <2>5. ASSUME NEW i \in k..Len(s)
        PROVE  q[i + 1] = s[i]
    <3>1. i + 1 \in 1..(Len(s) + 1) /\ ~(i + 1 <= k) /\ i + 1 - k \in 1..(Len(s) + 1 - k) /\ k + (i + 1 - k) - 1 = i
      BY <1>0
    <3> QED
      BY <1>3, <1>6, <2>1, <2>2, <3>1
  <2>6. k \in 1..k /\ \A i \in 1..(k - 1) : i \in 1..k
    BY <1>0
  <2> QED
    BY <1>6, <2>1, <2>2, <2>4, <2>5, <2>6
<1>8. InsertAt(s, k, e) = q
  BY <1>1, <1>4 DEF InsertAt
<1>9. ASSUME NEW i \in 1..Len(s)
      PROVE  q[Shifted(k, i)] = s[i]
  <2>1. CASE i < k
    <3>1. i \in 1..(k - 1)
      BY <1>0, <2>1
    <3> QED
      BY <1>7, <2>1, <3>1 DEF Shifted
  <2>2. CASE ~(i < k)
    <3>1. i \in k..Len(s)
      BY <1>0, <2>2
    <3> QED
      BY <1>7, <2>2, <3>1 DEF Shifted
  <2> QED
    BY <2>1, <2>2
<1> QED
  BY <1>7, <1>8, <1>9

LEMMA ShiftedPlaces ==
    ASSUME NEW n \in Nat, NEW k \in 1..(n + 1)
    PROVE  /\ \A i \in 1..n : Shifted(k, i) \in 1..(n + 1) /\ Shifted(k, i) # k
           /\ \A i, j \in 1..n : i < j => Shifted(k, i) < Shifted(k, j)
           /\ \A m \in 1..(n + 1) : m # k => \E i \in 1..n : m = Shifted(k, i)
<1>1. \A i \in 1..n : Shifted(k, i) \in 1..(n + 1) /\ Shifted(k, i) # k
  BY DEF Shifted
<1>2. \A i, j \in 1..n : i < j => Shifted(k, i) < Shifted(k, j)
  BY DEF Shifted
<1>3. ASSUME NEW m \in 1..(n + 1), m # k
      PROVE  \E i \in 1..n : m = Shifted(k, i)
  <2>1. CASE m < k
    <3>1. m \in 1..n /\ m = Shifted(k, m)
      BY <2>1 DEF Shifted
    <3> QED
      BY <3>1
  <2>2. CASE ~(m < k)
    <3>1. m - 1 \in 1..n /\ m = Shifted(k, m - 1)
      BY <1>3, <2>2 DEF Shifted
    <3> QED
      BY <3>1
  <2> QED
    BY <2>1, <2>2
<1> QED
  BY <1>1, <1>2, <1>3

\* The first place with the identifier, and the place of an insert, are in the text.
LEMMA PlaceFound ==
    ASSUME NEW content \in Seq(Char), NEW id
    PROVE  IndexOfId(content, id) \in 0..Len(content)
<1>1. PICK I : I = {i \in 1..Len(content) : content[i].id = id}
  OBVIOUS
<1>2. I \subseteq Nat /\ I \subseteq 1..Len(content) /\ Len(content) \in Nat
  BY <1>1
<1>3. IndexOfId(content, id) = IF I # {} THEN Min(I) ELSE 0
  BY <1>1 DEF IndexOfId, SelectInSeq
<1>4. I # {} => Min(I) \in 1..Len(content)
  <2>1. I # {} => Min(I) \in I
    BY <1>2, Least DEF Min
  <2> QED
    BY <1>2, <2>1
<1>5. 0 \in 0..Len(content) /\ \A i \in 1..Len(content) : i \in 0..Len(content)
  BY <1>2
<1> QED
  BY <1>3, <1>4, <1>5

LEMMA InsertPlace ==
    ASSUME NEW content \in Seq(Char), NEW op
    PROVE  InsertIndex(content, op) \in 1..(Len(content) + 1)
<1>1. PICK start : start = (IF op.after = NoId THEN 0 ELSE IndexOfId(content, op.after)) + 1
  OBVIOUS
<1>2. Len(content) \in Nat /\ start \in 1..(Len(content) + 1)
  BY <1>1, PlaceFound
<1>3. PICK I : I = {i \in start..Len(content) : StopsAt(op, content[i])}
  OBVIOUS
<1>4. I \subseteq Nat /\ I \subseteq 1..Len(content)
  BY <1>2, <1>3
<1>5. PICK stop : stop = IF I # {} THEN Min(I) ELSE 0
  OBVIOUS
<1>6. I # {} => Min(I) \in 1..Len(content)
  <2>1. I # {} => Min(I) \in I
    BY <1>4, Least DEF Min
  <2> QED
    BY <1>4, <2>1
<1>7. stop \in 0..Len(content)
  <2>1. 0 \in 0..Len(content) /\ \A i \in 1..Len(content) : i \in 0..Len(content)
    BY <1>2
  <2> QED
    BY <1>5, <1>6, <2>1
<1>8. InsertIndex(content, op) = IF stop = 0 THEN Len(content) + 1 ELSE stop
  BY <1>1, <1>3, <1>5 DEF InsertIndex, SelectInSubSeq
<1> QED
  BY <1>2, <1>7, <1>8

\* A document after an insert.
LEMMA InsertGives ==
    ASSUME NEW doc \in Document, NEW op, op.id \in Ids, op.value \in Nat
    PROVE  /\ ApplyInsert(doc, op) \in Document /\ ApplyInsert(doc, op).version = doc.version + 1
           /\ \E k \in 1..(Len(doc.content) + 1) :
                 /\ Len(ApplyInsert(doc, op).content) = Len(doc.content) + 1
                 /\ ApplyInsert(doc, op).content[k].value = op.value
                 /\ \A i \in 1..Len(doc.content) :
                       ApplyInsert(doc, op).content[Shifted(k, i)] = doc.content[i]
<1>1. PICK s : s = doc.content
  OBVIOUS
<1>2. s \in Seq(Char) /\ doc.version \in Nat /\ Len(s) \in Nat
  BY <1>1 DEF Document
<1>3. PICK e : e = [id |-> op.id, value |-> op.value, deleted |-> FALSE]
  OBVIOUS
<1>4. e \in Char /\ e.value = op.value
  BY <1>3 DEF Char
<1>5. PICK k \in 1..(Len(s) + 1) : k = InsertIndex(s, op)
  BY <1>2, InsertPlace
<1>6. PICK t : t = InsertAt(s, k, e)
  OBVIOUS
<1>7. /\ t \in Seq(Char) /\ Len(t) = Len(s) + 1 /\ t[k] = e
      /\ \A i \in 1..Len(s) : t[Shifted(k, i)] = s[i]
  BY <1>2, <1>4, <1>6, Insertion
<1>8. ApplyInsert(doc, op) = [content |-> t, version |-> doc.version + 1]
  BY <1>1, <1>3, <1>5, <1>6 DEF ApplyInsert
<1>9. ApplyInsert(doc, op) \in Document
  BY <1>2, <1>7, <1>8 DEF Document
<1>10. ApplyInsert(doc, op).content = t /\ ApplyInsert(doc, op).version = doc.version + 1
  BY <1>8
<1> QED
  BY <1>1, <1>4, <1>7, <1>9, <1>10

\* A document after a delete.
LEMMA DeleteGives ==
    ASSUME NEW doc \in Document, NEW op
    PROVE  /\ ApplyDelete(doc, op) \in Document
           /\ ApplyDelete(doc, op) = doc \/ ApplyDelete(doc, op).version = doc.version + 1
           /\ Len(ApplyDelete(doc, op).content) = Len(doc.content)
           /\ \A i \in 1..Len(doc.content) :
                 /\ ApplyDelete(doc, op).content[i].id = doc.content[i].id
                 /\ ApplyDelete(doc, op).content[i].value = doc.content[i].value
                 /\ doc.content[i].deleted => ApplyDelete(doc, op).content[i].deleted
<1>1. PICK s : s = doc.content
  OBVIOUS
<1>2. s \in Seq(Char) /\ doc.version \in Nat /\ Len(s) \in Nat /\ DOMAIN s = 1..Len(s)
  BY <1>1 DEF Document
<1>3. PICK i \in 0..Len(s) : i = IndexOfId(s, op.id)
  BY <1>2, PlaceFound
<1>4. CASE i = 0
  <2>1. ApplyDelete(doc, op) = doc
    BY <1>1, <1>3, <1>4 DEF ApplyDelete
  <2> QED
    BY <2>1
<1>5. CASE i # 0
  <2>1. PICK c : c = [s[i] EXCEPT !.deleted = TRUE]
    OBVIOUS
  <2>2. i \in 1..Len(s) /\ s[i] \in Char
    BY <1>2, <1>5
  <2>3. c \in Char /\ c.id = s[i].id /\ c.value = s[i].value /\ c.deleted
    BY <2>1, <2>2 DEF Char
  <2>4. PICK t : t = [s EXCEPT ![i] = c]
    OBVIOUS
  <2>5. t \in Seq(Char) /\ Len(t) = Len(s) /\ t[i] = c /\ \A j \in 1..Len(s) : j # i => t[j] = s[j]
    BY <1>2, <2>2, <2>3, <2>4
  <2>6. ApplyDelete(doc, op) = [content |-> t, version |-> doc.version + 1]
    <3>1. ApplyDelete(doc, op) = [content |-> [doc.content EXCEPT ![i].deleted = TRUE],
                                  version |-> doc.version + 1]
      BY <1>1, <1>3, <1>5 DEF ApplyDelete
    <3>2. [doc.content EXCEPT ![i].deleted = TRUE] = t
      BY <1>1, <2>1, <2>4
    <3> QED
      BY <3>1, <3>2
  <2>7. ApplyDelete(doc, op) \in Document
    BY <1>2, <2>5, <2>6 DEF Document
  <2>8. ApplyDelete(doc, op).content = t /\ ApplyDelete(doc, op).version = doc.version + 1
    BY <2>6
  <2> QED
    BY <1>1, <2>3, <2>5, <2>7, <2>8
<1> QED
  BY <1>4, <1>5

\* What a text becomes when an operation is applied: every character keeps its
\* place among the others, and there is one new rune of F at most.
Follows(old, new, F) ==
    \E spot \in [DOMAIN old -> DOMAIN new] :
        /\ \A i, j \in DOMAIN old : i < j => spot[i] < spot[j]
        /\ \A i \in DOMAIN old : /\ new[spot[i]].id = old[i].id /\ new[spot[i]].value = old[i].value
                                 /\ old[i].deleted => new[spot[i]].deleted
        /\ \A k \in DOMAIN new : new[k].value \in F \/ \E i \in DOMAIN old : k = spot[i]
        /\ \A k, l \in DOMAIN new : new[k].value \in F /\ new[l].value \in F => k = l
        /\ \A v \in F : \E k \in DOMAIN new : new[k].value = v

LEMMA InsertFollows ==
    ASSUME NEW doc \in Document, NEW op, op.id \in Ids, op.value \in Nat,
           \A i \in DOMAIN doc.content : doc.content[i].value # op.value
    PROVE  Follows(doc.content, ApplyInsert(doc, op).content, {op.value})
<1>1. PICK s, t : s = doc.content /\ t = ApplyInsert(doc, op).content
  OBVIOUS
<1>2. PICK k \in 1..(Len(s) + 1) :
          /\ Len(t) = Len(s) + 1 /\ t[k].value = op.value
          /\ \A i \in 1..Len(s) : t[Shifted(k, i)] = s[i]
  BY <1>1, InsertGives
<1>3. /\ s \in Seq(Char) /\ t \in Seq(Char) /\ Len(s) \in Nat /\ DOMAIN s = 1..Len(s)
      /\ DOMAIN t = 1..(Len(s) + 1)
  <2>1. ApplyInsert(doc, op) \in Document
    BY InsertGives
  <2>2. s \in Seq(Char) /\ t \in Seq(Char)
    BY <1>1, <2>1 DEF Document
  <2> QED
    BY <1>2, <2>2
<1>4. /\ \A i \in DOMAIN s : Shifted(k, i) \in DOMAIN t /\ Shifted(k, i) # k
      /\ \A i, j \in DOMAIN s : i < j => Shifted(k, i) < Shifted(k, j)
      /\ \A m \in DOMAIN t : m # k => \E i \in DOMAIN s : m = Shifted(k, i)
  <2>1. /\ \A i \in 1..Len(s) : Shifted(k, i) \in 1..(Len(s) + 1) /\ Shifted(k, i) # k
        /\ \A i, j \in 1..Len(s) : i < j => Shifted(k, i) < Shifted(k, j)
        /\ \A m \in 1..(Len(s) + 1) : m # k => \E i \in 1..Len(s) : m = Shifted(k, i)
    BY <1>3, ShiftedPlaces
  <2> QED
    BY <1>3, <2>1
<1>5. PICK spot : spot = [i \in DOMAIN s |-> Shifted(k, i)]
  OBVIOUS
<1>6. spot \in [DOMAIN s -> DOMAIN t] /\ \A i \in DOMAIN s : spot[i] = Shifted(k, i) /\ t[spot[i]] = s[i]
  BY <1>2, <1>3, <1>4, <1>5
<1>7. \A m \in DOMAIN t : m = k \/ \E i \in DOMAIN s : m = spot[i]
  BY <1>4, <1>6
<1>8. \A m \in DOMAIN t : t[m].value = op.value => m = k
  BY <1>1, <1>6, <1>7
<1>9. k \in DOMAIN t /\ t[k].value = op.value
  BY <1>2, <1>3
<1>10. /\ \A i, j \in DOMAIN s : i < j => spot[i] < spot[j]
       /\ \A i \in DOMAIN s : /\ t[spot[i]].id = s[i].id /\ t[spot[i]].value = s[i].value
                              /\ s[i].deleted => t[spot[i]].deleted
  BY <1>4, <1>6
<1>11. \A m \in DOMAIN t : t[m].value \in {op.value} \/ \E i \in DOMAIN s : m = spot[i]
  BY <1>7, <1>9
<1>12. \A m, l \in DOMAIN t : t[m].value \in {op.value} /\ t[l].value \in {op.value} => m = l
  BY <1>8
<1>13. \A v \in {op.value} : \E m \in DOMAIN t : t[m].value = v
  BY <1>9
<1>14. Follows(s, t, {op.value})
  BY <1>6, <1>10, <1>11, <1>12, <1>13 DEF Follows
<1> QED
  BY <1>1, <1>14

LEMMA DeleteFollows ==
    ASSUME NEW doc \in Document, NEW op
    PROVE  Follows(doc.content, ApplyDelete(doc, op).content, {})
<1>1. PICK s, t : s = doc.content /\ t = ApplyDelete(doc, op).content
  OBVIOUS
<1>2. /\ Len(t) = Len(s)
      /\ \A i \in 1..Len(s) : t[i].id = s[i].id /\ t[i].value = s[i].value /\ (s[i].deleted => t[i].deleted)
  BY <1>1, DeleteGives
<1>3. s \in Seq(Char) /\ t \in Seq(Char) /\ DOMAIN s = 1..Len(s) /\ DOMAIN t = 1..Len(s)
  <2>1. ApplyDelete(doc, op) \in Document
    BY DeleteGives
  <2>2. s \in Seq(Char) /\ t \in Seq(Char)
    BY <1>1, <2>1 DEF Document
  <2> QED
    BY <1>2, <2>2
<1>4. PICK spot : spot = [i \in DOMAIN s |-> i]
  OBVIOUS
<1>5. spot \in [DOMAIN s -> DOMAIN t] /\ \A i \in DOMAIN s : spot[i] = i
  BY <1>3, <1>4
<1>6. Follows(s, t, {})
  BY <1>2, <1>3, <1>5 DEF Follows
<1> QED
  BY <1>1, <1>6

Unique(s) == \A i, j \in DOMAIN s : s[i].value = s[j].value => i = j

LEMMA FollowsGrows ==
    ASSUME NEW s \in Seq(Char), NEW t \in Seq(Char), NEW F, Follows(s, t, F), Unique(s),
           \A i \in DOMAIN s : s[i].value \notin F
    PROVE  Grows(s, t) /\ Unique(t)
<1>1. PICK spot \in [DOMAIN s -> DOMAIN t] :
        /\ \A i, j \in DOMAIN s : i < j => spot[i] < spot[j]
        /\ \A i \in DOMAIN s : /\ t[spot[i]].id = s[i].id /\ t[spot[i]].value = s[i].value
                               /\ s[i].deleted => t[spot[i]].deleted
        /\ \A k \in DOMAIN t : t[k].value \in F \/ \E i \in DOMAIN s : k = spot[i]
        /\ \A k, l \in DOMAIN t : t[k].value \in F /\ t[l].value \in F => k = l
  BY DEF Follows
<1>2. ASSUME NEW k \in DOMAIN t, NEW i \in DOMAIN s, t[k].value = s[i].value
      PROVE  k = spot[i]
  <2>1. t[k].value \notin F
    BY <1>2
  <2>2. PICK j \in DOMAIN s : k = spot[j]
    BY <1>1, <2>1
  <2>3. s[j].value = s[i].value
    BY <1>1, <1>2, <2>2
  <2>4. i = j
    BY <2>3 DEF Unique
  <2> QED
    BY <2>2, <2>4
<1>3. Grows(s, t)
  BY <1>1, <1>2 DEF Grows
<1>4. ASSUME NEW k \in DOMAIN t, NEW l \in DOMAIN t, t[k].value = t[l].value
      PROVE  k = l
  <2>1. CASE t[k].value \in F
    BY <1>1, <1>4, <2>1
  <2>2. CASE t[k].value \notin F
    <3>1. PICK i \in DOMAIN s : k = spot[i]
      BY <1>1, <2>2
    <3>2. t[l].value = s[i].value /\ t[k].value = s[i].value
      BY <1>1, <1>4, <3>1
    <3> QED
      BY <1>2, <3>2
  <2> QED
    BY <2>1, <2>2
<1>5. Unique(t)
  BY <1>4 DEF Unique
<1> QED
  BY <1>3, <1>5

\* A rune that is in a text, or waits to be applied.
In(s, v) == \E i \in DOMAIN s : s[i].value = v
Waiting(e) == e.pc = "apply" /\ e.type = "insert"

LEMMA FollowsHas ==
    ASSUME NEW s, NEW t, NEW F, Follows(s, t, F), NEW v
    PROVE  In(t, v) <=> In(s, v) \/ v \in F
<1>1. PICK spot \in [DOMAIN s -> DOMAIN t] :
        /\ \A i \in DOMAIN s : t[spot[i]].value = s[i].value
        /\ \A k \in DOMAIN t : t[k].value \in F \/ \E i \in DOMAIN s : k = spot[i]
        /\ \A w \in F : \E k \in DOMAIN t : t[k].value = w
  BY DEF Follows
<1>2. ASSUME NEW i \in DOMAIN s, s[i].value = v
      PROVE  \E k \in DOMAIN t : t[k].value = v
  BY <1>1, <1>2
<1>3. ASSUME NEW k \in DOMAIN t, t[k].value = v, v \notin F
      PROVE  \E i \in DOMAIN s : s[i].value = v
  BY <1>1, <1>3
<1> QED
  BY <1>1, <1>2, <1>3 DEF In

-----------------------------------------------------------------------------
EditRow(e) ==
    /\ e = [pc |-> e.pc, type |-> e.type, position |-> e.position, runes |-> e.runes, done |-> e.done,
            clock |-> e.clock, doc |-> e.doc, source |-> e.source, op |-> e.op, first |-> e.first,
            values |-> e.values]
    /\ e.position \in Nat /\ e.runes \in Nat /\ e.done \in Nat /\ e.clock \in Nat

TextsFit ==
    \A d \in DOMAIN docs : /\ Unique(docs[d].content)
                           /\ \A i \in DOMAIN docs[d].content : docs[d].content[i].value \in 1..typed

RowFits(c, e) ==
    /\ e.done <= e.runes
    /\ e.doc \in 0..Len(docs) /\ (e.pc # "idle" => e.doc # 0)
    /\ e.pc \in {"create", "apply"} => e.done < e.runes
    /\ e.pc = "apply" => e.op.type = e.type
    /\ Waiting(e) => /\ e.op.id \in Ids /\ e.op.value \in e.values
                     /\ \A d \in DOMAIN docs : ~In(docs[d].content, e.op.value)
    /\ e.values \subseteq 1..typed
    /\ \A v \in e.values : \/ Waiting(e) /\ v = e.op.value
                           \/ e.doc \in DOMAIN docs /\ In(docs[e.doc].content, v)
    /\ e.pc \notin {"idle", "clock"} => e.clock < clocks[UserOf[c]]

EditingInv ==
    /\ docs \in Seq(Document) /\ current \in 0..Len(docs) /\ clocks \in [Users -> Nat] /\ typed \in Nat
    /\ edit = [c \in Editors |-> edit[c]]
    /\ \A c \in Editors : EditRow(edit[c]) /\ RowFits(c, edit[c])
    /\ TextsFit
    /\ \A c, d \in Editors : c # d => edit[c].values \cap edit[d].values = {}
    /\ ClocksDiffer

LEMMA UserNumbers == \A c \in Editors : UserOf[c] \in Users /\ UserOf[c] \in Nat
  BY EditingAssumption DEF Users

LEMMA EditingStart == EditingInit => EditingInv
<1> SUFFICES ASSUME EditingInit PROVE EditingInv
  OBVIOUS
<1>1. /\ docs = << >> /\ current = 0 /\ clocks = [u \in Users |-> 0] /\ typed = 0
      /\ edit = [c \in Editors |-> Idle]
  BY DEF EditingInit
<1>2. docs \in Seq(Document) /\ DOMAIN docs = {} /\ Len(docs) = 0
  BY <1>1
<1>3. EditRow(Idle)
  BY DEF EditRow, Idle
<1>4. \A c \in Editors : edit[c] = Idle
  BY <1>1
<1>5. ASSUME NEW c \in Editors
      PROVE  RowFits(c, Idle)
  BY <1>2 DEF RowFits, Idle, Waiting
<1>6. TextsFit
  BY <1>2 DEF TextsFit
<1>7. ClocksDiffer
  <2>1. \A c, d \in Editors : "idle" \in {edit[c].pc, edit[d].pc} \cap {"idle", "clock"}
    <3>1. Idle.pc = "idle"
      BY DEF Idle
    <3> QED
      BY <1>4, <3>1
  <2> QED
    BY <2>1 DEF ClocksDiffer
<1>8. \A c \in Editors : edit[c].values = {}
  BY <1>4 DEF Idle
<1>9. clocks \in [Users -> Nat]
  BY <1>1
<1> QED
  BY <1>1, <1>2, <1>3, <1>4, <1>5, <1>6, <1>7, <1>8, <1>9 DEF EditingInv

\* An edit that does nothing itself while others go on.
LEMMA RowStays ==
    ASSUME docs \in Seq(Document), docs' \in Seq(Document), Len(docs) <= Len(docs'),
           typed \in Nat, typed' \in Nat, typed <= typed',
           clocks \in [Users -> Nat], clocks' \in [Users -> Nat], \A u \in Users : clocks[u] <= clocks'[u],
           NEW c \in Editors, NEW e, EditRow(e), RowFits(c, e),
           \A d \in DOMAIN docs : \A v \in 1..typed :
               In(docs[d].content, v) => In(docs'[d].content, v),
           Waiting(e) => \A d \in DOMAIN docs' : ~In(docs'[d].content, e.op.value)
    PROVE  RowFits(c, e)'
<1>1. Len(docs) \in Nat /\ Len(docs') \in Nat /\ DOMAIN docs = 1..Len(docs) /\ DOMAIN docs' = 1..Len(docs')
  OBVIOUS
<1>2. DOMAIN docs \subseteq DOMAIN docs' /\ \A n \in 0..Len(docs) : n \in 0..Len(docs')
  BY <1>1
<1>3. \A v \in 1..typed : v \in 1..typed'
  OBVIOUS
<1>4. e.clock \in Nat /\ clocks[UserOf[c]] \in Nat /\ clocks'[UserOf[c]] \in Nat /\ clocks[UserOf[c]] <= clocks'[UserOf[c]]
  BY UserNumbers DEF EditRow
<1>5. e.clock < clocks[UserOf[c]] => e.clock < clocks'[UserOf[c]]
  BY <1>4
<1>6. \A v \in e.values : \/ Waiting(e) /\ v = e.op.value
                          \/ e.doc \in DOMAIN docs' /\ In(docs'[e.doc].content, v)
  BY <1>2 DEF RowFits
<1>7. /\ e.done <= e.runes
      /\ e.doc \in 0..Len(docs') /\ (e.pc # "idle" => e.doc # 0)
      /\ e.pc \in {"create", "apply"} => e.done < e.runes
      /\ e.pc = "apply" => e.op.type = e.type
      /\ Waiting(e) => e.op.id \in Ids /\ e.op.value \in e.values
      /\ e.values \subseteq 1..typed'
  BY <1>2, <1>3 DEF RowFits
<1>8. e.pc \notin {"idle", "clock"} => e.clock < clocks'[UserOf[c]]
  BY <1>5 DEF RowFits
<1> QED
  BY <1>6, <1>7, <1>8 DEF RowFits

\* A connection whose edit goes on.
LEMMA EditMoves ==
    ASSUME EditingInv, NEW c \in Editors, NEW r, EditRow(r), edit' = [edit EXCEPT ![c] = r],
           docs' \in Seq(Document), Len(docs) <= Len(docs'), current' \in 0..Len(docs'),
           typed' \in Nat, typed <= typed',
           clocks' \in [Users -> Nat], \A u \in Users : clocks[u] <= clocks'[u],
           \A d \in DOMAIN docs : \A v \in 1..typed :
               In(docs[d].content, v) => In(docs'[d].content, v),
           TextsFit', RowFits(c, r)',
           \A e \in Editors : e # c =>
               /\ r.values \cap edit[e].values = {}
               /\ Waiting(edit[e]) => \A d \in DOMAIN docs' : ~In(docs'[d].content, edit[e].op.value)
               /\ (UserOf[e] = UserOf[c] /\ {r.pc, edit[e].pc} \cap {"idle", "clock"} = {})
                     => r.clock # edit[e].clock
    PROVE  EditingInv'
<1>1. /\ edit' = [e \in Editors |-> edit'[e]] /\ edit'[c] = r
      /\ \A e \in Editors : e # c => edit'[e] = edit[e]
  BY DEF EditingInv
<1>2. ASSUME NEW e \in Editors
      PROVE  (EditRow(edit[e]) /\ RowFits(e, edit[e]))'
  <2>1. PICK q : q = edit'[e]
    OBVIOUS
  <2>2. EditRow(q) /\ RowFits(e, q)'
    <3>1. CASE e = c
      BY <1>1, <2>1, <3>1
    <3>2. CASE e # c
      <4>1. q = edit[e] /\ EditRow(q) /\ RowFits(e, q)
        BY <1>1, <2>1, <3>2 DEF EditingInv
      <4>2. docs \in Seq(Document) /\ clocks \in [Users -> Nat] /\ typed \in Nat
        BY DEF EditingInv
      <4>3. Waiting(q) => \A d \in DOMAIN docs' : ~In(docs'[d].content, q.op.value)
        BY <3>2, <4>1
      <4> QED
        BY <4>1, <4>2, <4>3, RowStays
    <3> QED
      BY <3>1, <3>2
  <2> QED
    BY <2>1, <2>2 DEF EditRow, RowFits
<1>3. ASSUME NEW x \in Editors, NEW y \in Editors, x # y
      PROVE  edit'[x].values \cap edit'[y].values = {}
  BY <1>1, <1>3 DEF EditingInv
<1>4. ClocksDiffer'
  <2>1. SUFFICES ASSUME NEW x \in Editors, NEW y \in Editors, x # y, UserOf[x] = UserOf[y],
                        {edit'[x].pc, edit'[y].pc} \cap {"idle", "clock"} = {}
                 PROVE  edit'[x].clock # edit'[y].clock
    BY DEF ClocksDiffer
  <2>2. CASE x = c
    BY <1>1, <2>1, <2>2
  <2>3. CASE y = c
    BY <1>1, <2>1, <2>3
  <2>4. CASE x # c /\ y # c
    BY <1>1, <2>1, <2>4 DEF EditingInv, ClocksDiffer
  <2> QED
    BY <2>2, <2>3, <2>4
<1> QED
  BY <1>1, <1>2, <1>3, <1>4 DEF EditingInv

\* The document looked up, which is a new one when the session has none.
LEMMA LookedUp ==
    ASSUME EditingInv, GetOrCreateDocument, UNCHANGED typed
    PROVE  /\ docs' \in Seq(Document) /\ Len(docs) <= Len(docs') /\ current' \in 1..Len(docs')
           /\ \A d \in DOMAIN docs : docs'[d] = docs[d]
           /\ \A d \in DOMAIN docs' : \A v : In(docs'[d].content, v) => d \in DOMAIN docs /\ In(docs[d].content, v)
           /\ TextsFit'
           /\ current' \in 0..Len(docs')
<1>1. /\ docs \in Seq(Document) /\ current \in 0..Len(docs) /\ TextsFit /\ Len(docs) \in Nat
      /\ DOMAIN docs = 1..Len(docs)
  BY DEF EditingInv
<1>2. CASE current # 0
  <2>1. UNCHANGED <<docs, current>>
    BY <1>2 DEF GetOrCreateDocument
  <2>2. TextsFit'
    BY <1>1, <2>1 DEF TextsFit
  <2>3. current \in 1..Len(docs)
    BY <1>1, <1>2
  <2> QED
    BY <1>1, <2>1, <2>2, <2>3
<1>3. CASE current = 0
  <2>1. docs' = Append(docs, EmptyDocument) /\ current' = Len(docs) + 1
    BY <1>3 DEF GetOrCreateDocument
  <2>2. EmptyDocument \in Document /\ EmptyDocument.content = << >>
    BY DEF EmptyDocument, Document
  <2>3. /\ docs' \in Seq(Document) /\ Len(docs') = Len(docs) + 1 /\ docs'[Len(docs) + 1] = EmptyDocument
        /\ \A d \in DOMAIN docs : docs'[d] = docs[d]
    BY <1>1, <2>1, <2>2
  <2>4. \A d \in DOMAIN docs' : d \in DOMAIN docs \/ d = Len(docs) + 1
    BY <1>1, <2>3
  <2>5. \A v : ~In(EmptyDocument.content, v)
    BY <2>2 DEF In
  <2>6. ASSUME NEW d \in DOMAIN docs'
        PROVE  /\ Unique(docs'[d].content)
               /\ \A i \in DOMAIN docs'[d].content : docs'[d].content[i].value \in 1..typed'
    <3>1. CASE d \in DOMAIN docs
      BY <1>1, <2>3, <3>1 DEF TextsFit
    <3>2. CASE d = Len(docs) + 1
      BY <2>2, <2>3, <3>2 DEF Unique
    <3> QED
      BY <2>4, <3>1, <3>2
  <2>7. TextsFit'
    BY <2>6 DEF TextsFit
  <2>8. ASSUME NEW d \in DOMAIN docs', NEW v, In(docs'[d].content, v)
        PROVE  d \in DOMAIN docs /\ In(docs[d].content, v)
    BY <2>3, <2>4, <2>5, <2>8
  <2>9. current' \in 1..Len(docs') /\ Len(docs) <= Len(docs')
    BY <1>1, <2>1, <2>3
  <2>10. current' \in 0..Len(docs')
    BY <2>3, <2>9
  <2> QED
    BY <2>3, <2>7, <2>8, <2>9, <2>10
<1> QED
  BY <1>2, <1>3

\* The document of an edit after its operation was applied.
LEMMA Applied ==
    ASSUME EditingInv, NEW c \in Editors, Apply(c)
    PROVE  \E D \in DOMAIN docs, F \in SUBSET (1..typed) :
              /\ D = edit[c].doc
              /\ F = (IF Waiting(edit[c]) THEN {edit[c].op.value} ELSE {})
              /\ docs' \in Seq(Document) /\ Len(docs') = Len(docs)
              /\ \A d \in DOMAIN docs : d # D => docs'[d] = docs[d]
              /\ Follows(docs[D].content, docs'[D].content, F)
              /\ Grows(docs[D].content, docs'[D].content)
              /\ docs'[D].version > docs[D].version \/ docs'[D] = docs[D]
              /\ TextsFit'
<1>1. /\ docs \in Seq(Document) /\ TextsFit /\ Len(docs) \in Nat /\ DOMAIN docs = 1..Len(docs) /\ typed \in Nat
      /\ EditRow(edit[c]) /\ RowFits(c, edit[c])
  BY DEF EditingInv
<1>2. PICK e : e = edit[c]
  OBVIOUS
<1>3. PICK D \in DOMAIN docs : D = e.doc
  <2>1. e.doc \in 0..Len(docs) /\ e.doc # 0
    BY <1>1, <1>2 DEF Apply, RowFits
  <2> QED
    BY <1>1, <2>1
<1>4. PICK old : old = docs[D]
  OBVIOUS
<1>5. /\ old \in Document /\ old.content \in Seq(Char) /\ old.version \in Nat /\ Unique(old.content)
      /\ \A i \in DOMAIN old.content : old.content[i].value \in 1..typed
  <2>1. old \in Document
    BY <1>1, <1>3, <1>4
  <2>2. old.content \in Seq(Char) /\ old.version \in Nat
    BY <2>1 DEF Document
  <2> QED
    BY <1>1, <1>3, <1>4, <2>1, <2>2 DEF TextsFit
<1>6. PICK new : new = ApplyOperation(old, e.op)
  OBVIOUS
<1>7. PICK F : F = IF Waiting(e) THEN {e.op.value} ELSE {}
  OBVIOUS
<1>8. e.pc = "apply" /\ e.op.type = e.type /\ UNCHANGED typed
  BY <1>1, <1>2 DEF Apply, RowFits
<1>9. /\ new \in Document /\ Follows(old.content, new.content, F)
      /\ new.version > old.version \/ new = old
      /\ \A i \in DOMAIN old.content : old.content[i].value \notin F
      /\ F \subseteq 1..typed
  <2>1. CASE e.type = "insert"
    <3>1. Waiting(e) /\ F = {e.op.value}
      BY <1>7, <1>8, <2>1 DEF Waiting
    <3>2. e.op.id \in Ids /\ e.op.value \in 1..typed /\ ~In(old.content, e.op.value)
      BY <1>1, <1>2, <1>3, <1>4, <3>1 DEF RowFits
    <3>3. \A i \in DOMAIN old.content : old.content[i].value # e.op.value
      BY <3>2 DEF In
    <3>4. new = ApplyInsert(old, e.op)
      BY <1>6, <1>8, <2>1 DEF ApplyOperation
    <3>5. e.op.value \in Nat
      BY <1>1, <3>2
    <3>6. new \in Document /\ new.version = old.version + 1
      BY <1>5, <3>2, <3>4, <3>5, InsertGives
    <3>7. Follows(old.content, new.content, {e.op.value})
      BY <1>5, <3>2, <3>3, <3>4, <3>5, InsertFollows
    <3>8. new.version > old.version
      BY <1>5, <3>6
    <3> QED
      BY <3>1, <3>2, <3>3, <3>6, <3>7, <3>8
  <2>2. CASE e.type # "insert"
    <3>1. F = {}
      BY <1>7, <2>2 DEF Waiting
    <3>2. new = ApplyDelete(old, e.op)
      BY <1>6, <1>8, <2>2 DEF ApplyOperation
    <3>3. new \in Document /\ (new = old \/ new.version = old.version + 1)
      BY <1>5, <3>2, DeleteGives
    <3>4. Follows(old.content, new.content, {})
      BY <1>5, <3>2, DeleteFollows
    <3>5. new.version = old.version + 1 => new.version > old.version
      BY <1>5
    <3> QED
      BY <3>1, <3>3, <3>4, <3>5
  <2> QED
    BY <2>1, <2>2
<1>10. Grows(old.content, new.content) /\ Unique(new.content)
  <2>1. new.content \in Seq(Char)
    BY <1>9 DEF Document
  <2> QED
    BY <1>5, <1>9, <2>1, FollowsGrows
<1>11. docs' = [docs EXCEPT ![D] = new]
  BY <1>2, <1>3, <1>4, <1>6 DEF Apply
<1>12. /\ docs' \in Seq(Document) /\ Len(docs') = Len(docs) /\ docs'[D] = new
       /\ \A d \in DOMAIN docs : d # D => docs'[d] = docs[d]
  BY <1>1, <1>9, <1>11
<1>13. \A k \in DOMAIN new.content : new.content[k].value \in 1..typed
  <2>1. SUFFICES ASSUME NEW k \in DOMAIN new.content PROVE new.content[k].value \in 1..typed
    OBVIOUS
  <2>2. PICK v : v = new.content[k].value
    OBVIOUS
  <2>3. In(new.content, v)
    BY <2>2 DEF In
  <2>4. In(old.content, v) \/ v \in F
    BY <1>9, <2>3, FollowsHas
  <2> QED
    BY <1>5, <1>9, <2>2, <2>4 DEF In
<1>14. TextsFit'
  <2>1. ASSUME NEW d \in DOMAIN docs'
        PROVE  Unique(docs'[d].content) /\ \A i \in DOMAIN docs'[d].content : docs'[d].content[i].value \in 1..typed'
    <3>1. d \in DOMAIN docs
      BY <1>1, <1>12, <2>1
    <3>2. CASE d = D
      BY <1>8, <1>10, <1>12, <1>13, <3>2
    <3>3. CASE d # D
      BY <1>1, <1>8, <1>12, <3>1, <3>3 DEF TextsFit
    <3> QED
      BY <3>2, <3>3
  <2> QED
    BY <2>1 DEF TextsFit
<1> QED
  BY <1>2, <1>3, <1>4, <1>7, <1>9, <1>10, <1>12, <1>14

LEMMA EditingStep ==
    ASSUME EditingInv, EditingNext
    PROVE  EditingInv'
<1>1. /\ docs \in Seq(Document) /\ current \in 0..Len(docs) /\ clocks \in [Users -> Nat] /\ typed \in Nat
      /\ Len(docs) \in Nat /\ DOMAIN docs = 1..Len(docs) /\ TextsFit
      /\ \A c \in Editors : EditRow(edit[c]) /\ RowFits(c, edit[c])
      /\ edit = [c \in Editors |-> edit[c]]
      /\ \A c, d \in Editors : c # d => edit[c].values \cap edit[d].values = {}
  BY DEF EditingInv
<1>2. /\ \A u \in Users : clocks[u] <= clocks[u] /\ clocks[u] \in Nat
      /\ typed <= typed /\ Len(docs) <= Len(docs)
  BY <1>1
<1>3. ASSUME NEW c \in Editors, ClocksDiffer
      PROVE  \A e \in Editors : e # c => edit[c].values \cap edit[e].values = {}
                 /\ (Waiting(edit[e]) => \A d \in DOMAIN docs : ~In(docs[d].content, edit[e].op.value))
  BY <1>1, <1>3 DEF RowFits
<1>4. ASSUME NEW c \in Editors, NEW e \in Editors, e # c, UserOf[e] = UserOf[c], NEW p,
             p \notin {"idle", "clock"}, edit[c].pc \notin {"idle", "clock"},
             {p, edit[e].pc} \cap {"idle", "clock"} = {}
      PROVE  edit[c].clock # edit[e].clock
  <2>1. {edit[c].pc, edit[e].pc} \cap {"idle", "clock"} = {}
    BY <1>4
  <2> QED
    BY <1>4, <2>1 DEF EditingInv, ClocksDiffer
<1>5. ASSUME NEW c \in Editors, NEW type \in {"insert", "delete"}, NEW position \in 0..MaxPosition,
             NEW runes \in 1..MaxRunes, StartEdit(c, type, position, runes)
      PROVE  EditingInv'
  <2>1. PICK n : n = current'
    OBVIOUS
  <2>2. PICK r : r = [Idle EXCEPT !.pc = "clock", !.type = type, !.position = position,
                                  !.runes = runes, !.doc = n]
    OBVIOUS
  <2>3. edit' = [edit EXCEPT ![c] = r] /\ GetOrCreateDocument /\ UNCHANGED <<clocks, typed>>
    BY <1>5, <2>1, <2>2 DEF StartEdit
  <2>4. /\ docs' \in Seq(Document) /\ Len(docs) <= Len(docs') /\ current' \in 1..Len(docs')
        /\ \A d \in DOMAIN docs : docs'[d] = docs[d]
        /\ \A d \in DOMAIN docs' : \A v : In(docs'[d].content, v) => d \in DOMAIN docs /\ In(docs[d].content, v)
        /\ TextsFit' /\ current' \in 0..Len(docs')
    BY <2>3, LookedUp
  <2>5. /\ r.pc = "clock" /\ r.doc = n /\ r.values = {} /\ r.done = 0 /\ r.runes = runes
        /\ r.position = position /\ r.clock = 0
        /\ r = [pc |-> r.pc, type |-> r.type, position |-> r.position, runes |-> r.runes, done |-> r.done,
                clock |-> r.clock, doc |-> r.doc, source |-> r.source, op |-> r.op, first |-> r.first,
                values |-> r.values]
    BY <2>2 DEF Idle
  <2>6. runes \in Nat /\ position \in Nat /\ 0 <= runes
    BY EditingAssumption
  <2>7. EditRow(r)
    BY <2>5, <2>6 DEF EditRow
  <2>8. RowFits(c, r)'
    <3>1. ~Waiting(r) /\ n \in 0..Len(docs') /\ n # 0
      BY <2>1, <2>4, <2>5 DEF Waiting
    <3> QED
      BY <2>5, <2>6, <3>1 DEF RowFits
  <2>9. ASSUME NEW e \in Editors, e # c
        PROVE  /\ r.values \cap edit[e].values = {}
               /\ Waiting(edit[e]) => \A d \in DOMAIN docs' : ~In(docs'[d].content, edit[e].op.value)
               /\ (UserOf[e] = UserOf[c] /\ {r.pc, edit[e].pc} \cap {"idle", "clock"} = {})
                     => r.clock # edit[e].clock
    <3>1. RowFits(e, edit[e])
      BY <1>1
    <3>2. Waiting(edit[e]) => \A d \in DOMAIN docs' : ~In(docs'[d].content, edit[e].op.value)
      BY <2>4, <3>1 DEF RowFits
    <3>3. "clock" \in {r.pc, edit[e].pc} \cap {"idle", "clock"}
      BY <2>5
    <3> QED
      BY <2>5, <3>2, <3>3
  <2>10. \A d \in DOMAIN docs : \A v \in 1..typed : In(docs[d].content, v) => In(docs'[d].content, v)
    BY <2>4
  <2> QED
    BY <1>1, <1>2, <2>3, <2>4, <2>7, <2>8, <2>9, <2>10, EditMoves
<1>6. ASSUME NEW c \in Editors, DrawClock(c)
      PROVE  EditingInv'
  <2>1. PICK u, k : u = UserOf[c] /\ k = clocks[u]
    OBVIOUS
  <2>2. u \in Users /\ k \in Nat
    BY <1>1, <2>1, UserNumbers
  <2>3. PICK q : q = edit[c]
    OBVIOUS
  <2>4. PICK r : r = [q EXCEPT !.pc = "lookup", !.clock = k]
    OBVIOUS
  <2>5. /\ edit' = [edit EXCEPT ![c] = r] /\ clocks' = [clocks EXCEPT ![u] = k + 1]
        /\ UNCHANGED <<docs, current, typed>> /\ q.pc = "clock"
    <3>1. edit' = [edit EXCEPT ![c].pc = "lookup", ![c].clock = k]
      BY <1>6, <2>1 DEF DrawClock
    <3>2. edit' = [edit EXCEPT ![c] = r]
      BY <1>1, <2>3, <2>4, <3>1
    <3> QED
      BY <1>6, <2>1, <2>3, <3>2 DEF DrawClock
  <2>6. EditRow(q) /\ RowFits(c, q)
    BY <1>1, <2>3
  <2>7. /\ r.pc = "lookup" /\ r.clock = k /\ r.type = q.type /\ r.position = q.position /\ r.runes = q.runes
        /\ r.done = q.done /\ r.doc = q.doc /\ r.op = q.op /\ r.values = q.values
        /\ EditRow(r)
    BY <2>2, <2>4, <2>6 DEF EditRow
  <2>8. clocks' \in [Users -> Nat] /\ clocks'[u] = k + 1 /\ \A w \in Users : clocks[w] <= clocks'[w]
    BY <1>1, <1>2, <2>1, <2>2, <2>5
  <2>9. RowFits(c, r)'
    <3>1. ~Waiting(r) /\ ~Waiting(q)
      BY <2>5, <2>7 DEF Waiting
    <3>2. k < clocks'[UserOf[c]]
      BY <2>1, <2>2, <2>8
    <3> QED
      BY <2>5, <2>6, <2>7, <3>1, <3>2 DEF RowFits
  <2>10. ASSUME NEW e \in Editors, e # c
        PROVE  /\ r.values \cap edit[e].values = {}
               /\ Waiting(edit[e]) => \A d \in DOMAIN docs' : ~In(docs'[d].content, edit[e].op.value)
               /\ (UserOf[e] = UserOf[c] /\ {r.pc, edit[e].pc} \cap {"idle", "clock"} = {})
                     => r.clock # edit[e].clock
    <3>1. RowFits(e, edit[e]) /\ EditRow(edit[e])
      BY <1>1
    <3>2. Waiting(edit[e]) => \A d \in DOMAIN docs' : ~In(docs'[d].content, edit[e].op.value)
      BY <2>5, <3>1 DEF RowFits
    <3>3. ASSUME UserOf[e] = UserOf[c], {r.pc, edit[e].pc} \cap {"idle", "clock"} = {}
          PROVE  r.clock # edit[e].clock
      <4>1. edit[e].pc \notin {"idle", "clock"}
        BY <3>3
      <4>2. edit[e].clock < k /\ edit[e].clock \in Nat
        BY <2>1, <3>1, <3>3, <4>1 DEF RowFits, EditRow
      <4> QED
        BY <2>2, <2>7, <4>2
    <3> QED
      BY <1>1, <2>3, <2>7, <2>10, <3>2, <3>3
  <2>11. TextsFit'
    BY <1>1, <2>5 DEF TextsFit
  <2> QED
    BY <1>1, <1>2, <2>5, <2>7, <2>8, <2>9, <2>10, <2>11, EditMoves
<1>7. ASSUME NEW c \in Editors, LookUp(c)
      PROVE  EditingInv'
  <2>1. PICK n : n = current'
    OBVIOUS
  <2>2. PICK q : q = edit[c]
    OBVIOUS
  <2>3. PICK r : r = [q EXCEPT !.pc = "create", !.source = n]
    OBVIOUS
  <2>4. /\ edit' = [edit EXCEPT ![c] = r] /\ GetOrCreateDocument /\ UNCHANGED <<clocks, typed>>
        /\ q.pc = "lookup" /\ q.done < q.runes
    <3>1. edit' = [edit EXCEPT ![c].pc = "create", ![c].source = n]
      BY <1>7, <2>1 DEF LookUp
    <3>2. edit' = [edit EXCEPT ![c] = r]
      BY <1>1, <2>2, <2>3, <3>1
    <3> QED
      BY <1>7, <2>2, <3>2 DEF LookUp
  <2>5. EditRow(q) /\ RowFits(c, q)
    BY <1>1, <2>2
  <2>6. /\ r.pc = "create" /\ r.clock = q.clock /\ r.type = q.type /\ r.position = q.position /\ r.runes = q.runes
        /\ r.done = q.done /\ r.doc = q.doc /\ r.op = q.op /\ r.values = q.values
        /\ EditRow(r)
    BY <2>3, <2>5 DEF EditRow
  <2>7. /\ docs' \in Seq(Document) /\ Len(docs) <= Len(docs') /\ current' \in 1..Len(docs')
        /\ \A d \in DOMAIN docs : docs'[d] = docs[d]
        /\ \A d \in DOMAIN docs' : \A v : In(docs'[d].content, v) => d \in DOMAIN docs /\ In(docs[d].content, v)
        /\ TextsFit' /\ current' \in 0..Len(docs')
    BY <2>4, LookedUp
  <2>8. \A d \in DOMAIN docs : \A v \in 1..typed : In(docs[d].content, v) => In(docs'[d].content, v)
    BY <2>7
  <2>9. RowFits(c, r)'
    <3>1. ~Waiting(r) /\ ~Waiting(q)
      BY <2>4, <2>6 DEF Waiting
    <3>2. RowFits(c, q)'
      BY <1>1, <1>2, <2>4, <2>5, <2>7, <2>8, <3>1, RowStays
    <3> QED
      BY <2>4, <2>6, <3>1, <3>2 DEF RowFits
  <2>10. ASSUME NEW e \in Editors, e # c
        PROVE  /\ r.values \cap edit[e].values = {}
               /\ Waiting(edit[e]) => \A d \in DOMAIN docs' : ~In(docs'[d].content, edit[e].op.value)
               /\ (UserOf[e] = UserOf[c] /\ {r.pc, edit[e].pc} \cap {"idle", "clock"} = {})
                     => r.clock # edit[e].clock
    <3>1. RowFits(e, edit[e])
      BY <1>1
    <3>2. Waiting(edit[e]) => \A d \in DOMAIN docs' : ~In(docs'[d].content, edit[e].op.value)
      BY <2>7, <3>1 DEF RowFits
    <3>3. (UserOf[e] = UserOf[c] /\ {r.pc, edit[e].pc} \cap {"idle", "clock"} = {}) => r.clock # edit[e].clock
      BY <1>4, <2>2, <2>4, <2>6, <2>10
    <3> QED
      BY <1>1, <2>2, <2>6, <2>10, <3>2, <3>3
  <2> QED
    BY <1>1, <1>2, <2>4, <2>6, <2>7, <2>8, <2>9, <2>10, EditMoves
<1>8. ASSUME NEW c \in Editors, NEW r, EditRow(r), UNCHANGED <<docs, current, clocks>>,
             edit' = [edit EXCEPT ![c] = r], typed' \in Nat, typed <= typed',
             r.clock = edit[c].clock, edit[c].pc \notin {"idle", "clock"} \/ r.pc = "idle",
             r.values \subseteq edit[c].values \cup ((typed + 1)..typed'),
             RowFits(c, r)'
      PROVE  EditingInv'
  <2>1. TextsFit'
    <3>1. \A v \in 1..typed : v \in 1..typed'
      BY <1>1, <1>8
    <3> QED
      BY <1>1, <1>8, <3>1 DEF TextsFit
  <2>2. ASSUME NEW e \in Editors, e # c
        PROVE  /\ r.values \cap edit[e].values = {}
               /\ Waiting(edit[e]) => \A d \in DOMAIN docs' : ~In(docs'[d].content, edit[e].op.value)
               /\ (UserOf[e] = UserOf[c] /\ {r.pc, edit[e].pc} \cap {"idle", "clock"} = {})
                     => r.clock # edit[e].clock
    <3>1. RowFits(e, edit[e])
      BY <1>1
    <3>2. Waiting(edit[e]) => \A d \in DOMAIN docs' : ~In(docs'[d].content, edit[e].op.value)
      BY <1>8, <3>1 DEF RowFits
    <3>3. (UserOf[e] = UserOf[c] /\ {r.pc, edit[e].pc} \cap {"idle", "clock"} = {}) => r.clock # edit[e].clock
      BY <1>4, <1>8, <2>2
    <3>4. edit[e].values \subseteq 1..typed
      BY <3>1 DEF RowFits
    <3>5. \A v \in 1..typed : v \notin (typed + 1)..typed'
      BY <1>1, <1>8
    <3>6. edit[c].values \cap edit[e].values = {}
      BY <1>1, <2>2
    <3>7. r.values \cap edit[e].values = {}
      BY <1>8, <3>4, <3>5, <3>6
    <3> QED
      BY <3>2, <3>3, <3>7
  <2> QED
    BY <1>1, <1>2, <1>8, <2>1, <2>2, EditMoves
<1>9. ASSUME NEW c \in Editors, CreateInsertOperation(c)
      PROVE  EditingInv'
  <2>1. PICK q : q = edit[c]
    OBVIOUS
  <2>2. PICK o : o = CreateInsert(docs[q.source].content, UserOf[c], q.position + q.done, q.clock + q.done, typed + 1)
    OBVIOUS
  <2>3. PICK w : w = q.values \cup {typed + 1}
    OBVIOUS
  <2>4. PICK r : r = [q EXCEPT !.pc = "apply", !.op = o, !.values = w]
    OBVIOUS
  <2>5. EditRow(q) /\ RowFits(c, q)
    BY <1>1, <2>1
  <2>6. /\ edit' = [edit EXCEPT ![c] = r] /\ typed' = typed + 1 /\ UNCHANGED <<docs, current, clocks>>
        /\ q.pc = "create" /\ q.type = "insert"
    <3>1. edit' = [edit EXCEPT ![c].pc = "apply", ![c].op = o, ![c].values = @ \cup {typed + 1}]
      BY <1>9, <2>1, <2>2 DEF CreateInsertOperation
    <3>2. edit' = [edit EXCEPT ![c] = r]
      BY <1>1, <2>1, <2>3, <2>4, <2>5, <3>1 DEF EditRow
    <3> QED
      BY <1>9, <2>1, <3>2 DEF CreateInsertOperation
  <2>7. /\ r.pc = "apply" /\ r.clock = q.clock /\ r.type = q.type /\ r.position = q.position /\ r.runes = q.runes
        /\ r.done = q.done /\ r.doc = q.doc /\ r.op = o /\ r.values = w
        /\ EditRow(r)
    BY <2>4, <2>5 DEF EditRow
  <2>8. o.type = "insert" /\ o.value = typed + 1 /\ o.id \in Ids
    <3>1. /\ o.type = "insert" /\ o.value = typed + 1
          /\ o.id = [site |-> UserOf[c], clock |-> q.clock + q.done, offset |-> q.position + q.done]
      BY <2>2 DEF CreateInsert
    <3>2. q.clock + q.done \in Nat /\ q.position + q.done \in Nat
      BY <2>5 DEF EditRow
    <3> QED
      BY <3>1, <3>2, UserNumbers DEF Ids
  <2>9. typed + 1 \in 1..typed' /\ typed' \in Nat /\ typed <= typed' /\ (\A v \in 1..typed : v \in 1..typed')
        /\ typed + 1 \notin 1..typed /\ typed + 1 \in (typed + 1)..typed'
    BY <1>1, <2>6
  <2>10. \A d \in DOMAIN docs : ~In(docs[d].content, typed + 1)
    BY <1>1, <2>9 DEF TextsFit, In
  <2>11. RowFits(c, r)'
    <3>1. Waiting(r) /\ ~Waiting(q)
      BY <2>6, <2>7 DEF Waiting
    <3>2. \A v \in r.values : \/ Waiting(r) /\ v = r.op.value
                              \/ r.doc \in DOMAIN docs' /\ In(docs'[r.doc].content, v)
      BY <2>3, <2>5, <2>6, <2>7, <2>8, <3>1 DEF RowFits
    <3>3. r.values \subseteq 1..typed' /\ r.op.value \in r.values
      BY <2>3, <2>5, <2>7, <2>8, <2>9 DEF RowFits
    <3>4. \A d \in DOMAIN docs' : ~In(docs'[d].content, r.op.value)
      BY <2>6, <2>7, <2>8, <2>10
    <3>5. /\ r.done <= r.runes /\ r.done < r.runes /\ r.doc \in 0..Len(docs') /\ r.doc # 0
          /\ r.op.type = r.type /\ r.op.id \in Ids /\ r.clock < clocks'[UserOf[c]]
      BY <2>5, <2>6, <2>7, <2>8 DEF RowFits
    <3> QED
      BY <3>1, <3>2, <3>3, <3>4, <3>5 DEF RowFits
  <2> QED
    BY <1>8, <2>1, <2>3, <2>6, <2>7, <2>9, <2>11
<1>10. ASSUME NEW c \in Editors, CreateDeleteOperation(c)
       PROVE  EditingInv'
  <2>1. PICK q : q = edit[c]
    OBVIOUS
  <2>2. PICK o : o = CreateDelete(docs[q.source].content, q.position)
    OBVIOUS
  <2>3. EditRow(q) /\ RowFits(c, q)
    BY <1>1, <2>1
  <2>0. PICK k \in Nat : k = q.done + 1
    BY <2>3 DEF EditRow
  <2>4. PICK r : r = IF o.id = NoId THEN [q EXCEPT !.pc = "lookup", !.done = k]
                                    ELSE [q EXCEPT !.pc = "apply", !.op = o]
    OBVIOUS
  <2>5. /\ edit' = [edit EXCEPT ![c] = r] /\ UNCHANGED <<docs, current, clocks, typed>>
        /\ q.pc = "create" /\ q.type = "delete"
    <3>1. \/ o.id = NoId /\ edit' = [edit EXCEPT ![c].pc = "lookup", ![c].done = @ + 1]
          \/ o.id # NoId /\ edit' = [edit EXCEPT ![c].pc = "apply", ![c].op = o]
      BY <1>10, <2>1, <2>2 DEF CreateDeleteOperation
    <3>2. edit' = [edit EXCEPT ![c] = r]
      <4>1. CASE o.id = NoId
        <5>1. edit' = [edit EXCEPT ![c].pc = "lookup", ![c].done = @ + 1]
          BY <3>1, <4>1
        <5>2. r = [q EXCEPT !.pc = "lookup", !.done = k]
          BY <2>4, <4>1
        <5> QED
          BY <1>1, <2>0, <2>1, <2>3, <5>1, <5>2 DEF EditRow
      <4>2. CASE o.id # NoId
        <5>1. edit' = [edit EXCEPT ![c].pc = "apply", ![c].op = o]
          BY <3>1, <4>2
        <5>2. r = [q EXCEPT !.pc = "apply", !.op = o]
          BY <2>4, <4>2
        <5> QED
          BY <1>1, <2>1, <2>3, <5>1, <5>2 DEF EditRow
      <4> QED
        BY <4>1, <4>2
    <3> QED
      BY <1>10, <2>1, <3>2 DEF CreateDeleteOperation
  <2>6. /\ r.clock = q.clock /\ r.type = q.type /\ r.position = q.position /\ r.runes = q.runes
        /\ r.doc = q.doc /\ r.values = q.values /\ EditRow(r)
        /\ \/ r.pc = "lookup" /\ r.done = q.done + 1
           \/ r.pc = "apply" /\ r.done = q.done /\ r.op = o
    <3>1. CASE o.id = NoId
      <4>1. r = [q EXCEPT !.pc = "lookup", !.done = k]
        BY <2>4, <3>1
      <4> QED
        BY <2>0, <2>3, <4>1 DEF EditRow
    <3>2. CASE o.id # NoId
      BY <2>3, <2>4, <3>2 DEF EditRow
    <3> QED
      BY <3>1, <3>2
  <2>7. o.type = "delete"
    BY <2>2 DEF CreateDelete
  <2>8. RowFits(c, r)'
    <3>1. ~Waiting(r) /\ ~Waiting(q)
      BY <2>5, <2>6 DEF Waiting
    <3>2. q.done + 1 <= q.runes /\ q.done < q.runes
      BY <2>3, <2>5 DEF RowFits, EditRow
    <3>3. r.done <= r.runes /\ (r.pc \in {"create", "apply"} => r.done < r.runes)
      BY <2>3, <2>6, <3>2 DEF EditRow
    <3>4. r.pc = "apply" => r.op.type = r.type
      BY <2>5, <2>6, <2>7
    <3>5. /\ r.doc \in 0..Len(docs') /\ r.doc # 0 /\ r.values \subseteq 1..typed'
          /\ (\A v \in r.values : r.doc \in DOMAIN docs' /\ In(docs'[r.doc].content, v))
          /\ r.clock < clocks'[UserOf[c]]
      BY <2>3, <2>5, <2>6, <3>1 DEF RowFits
    <3> QED
      BY <3>1, <3>3, <3>4, <3>5 DEF RowFits
  <2>9. typed' \in Nat /\ typed <= typed' /\ q.pc \notin {"idle", "clock"}
    BY <1>1, <1>2, <2>5
  <2> QED
    BY <1>8, <2>1, <2>5, <2>6, <2>8, <2>9
<1>11. ASSUME NEW c \in Editors, Apply(c)
       PROVE  EditingInv'
  <2>1. PICK q : q = edit[c]
    OBVIOUS
  <2>2. EditRow(q) /\ RowFits(c, q)
    BY <1>1, <2>1
  <2>0. PICK k \in Nat : k = q.done + 1
    BY <2>2 DEF EditRow
  <2>3. PICK r : r = [q EXCEPT !.pc = "lookup", !.done = k, !.op = NoId]
    OBVIOUS
  <2>4. /\ edit' = [edit EXCEPT ![c] = r] /\ UNCHANGED <<current, clocks, typed>> /\ q.pc = "apply"
    <3>1. edit' = [edit EXCEPT ![c].pc = "lookup", ![c].done = @ + 1, ![c].op = NoId]
      BY <1>11 DEF Apply
    <3>2. edit' = [edit EXCEPT ![c] = r]
      BY <1>1, <2>0, <2>1, <2>2, <2>3, <3>1 DEF EditRow
    <3> QED
      BY <1>11, <2>1, <3>2 DEF Apply
  <2>5. /\ r.pc = "lookup" /\ r.clock = q.clock /\ r.type = q.type /\ r.position = q.position /\ r.runes = q.runes
        /\ r.done = q.done + 1 /\ r.doc = q.doc /\ r.values = q.values
        /\ EditRow(r)
    BY <2>0, <2>2, <2>3 DEF EditRow
  <2>6. PICK D \in DOMAIN docs, F \in SUBSET (1..typed) :
              /\ D = edit[c].doc
              /\ F = (IF Waiting(edit[c]) THEN {edit[c].op.value} ELSE {})
              /\ docs' \in Seq(Document) /\ Len(docs') = Len(docs)
              /\ \A d \in DOMAIN docs : d # D => docs'[d] = docs[d]
              /\ Follows(docs[D].content, docs'[D].content, F)
              /\ TextsFit'
    BY <1>11, Applied
  <2>7. DOMAIN docs' = DOMAIN docs
    BY <1>1, <2>6
  <2>8. \A v : In(docs'[D].content, v) <=> In(docs[D].content, v) \/ v \in F
    BY <2>6, FollowsHas
  <2>9. \A d \in DOMAIN docs : \A v : In(docs[d].content, v) => In(docs'[d].content, v)
    BY <2>6, <2>8
  <2>10. \A d \in DOMAIN docs' : \A v : In(docs'[d].content, v) => In(docs[d].content, v) \/ v \in F
    BY <2>6, <2>7, <2>8
  <2>11. F \subseteq q.values
    BY <2>1, <2>2, <2>6 DEF RowFits
  <2>12. RowFits(c, r)'
    <3>1. ~Waiting(r)
      BY <2>5 DEF Waiting
    <3>2. r.done <= r.runes
      BY <2>2, <2>4, <2>5 DEF EditRow, RowFits
    <3>3. ASSUME NEW v \in r.values
          PROVE  r.doc \in DOMAIN docs' /\ In(docs'[r.doc].content, v)
      <4>1. r.doc = D /\ ((Waiting(q) /\ v = q.op.value) \/ In(docs[D].content, v))
        BY <2>1, <2>2, <2>5, <2>6, <3>3 DEF RowFits
      <4>2. v \in F \/ In(docs[D].content, v)
        BY <2>1, <2>6, <4>1
      <4> QED
        BY <2>7, <2>8, <4>1, <4>2
    <3>4. /\ r.doc \in 0..Len(docs') /\ r.doc # 0 /\ r.values \subseteq 1..typed'
          /\ r.clock < clocks'[UserOf[c]]
      BY <2>2, <2>4, <2>5, <2>6 DEF RowFits
    <3> QED
      BY <2>5, <3>1, <3>2, <3>3, <3>4 DEF RowFits
  <2>13. ASSUME NEW e \in Editors, e # c
        PROVE  /\ r.values \cap edit[e].values = {}
               /\ Waiting(edit[e]) => \A d \in DOMAIN docs' : ~In(docs'[d].content, edit[e].op.value)
               /\ (UserOf[e] = UserOf[c] /\ {r.pc, edit[e].pc} \cap {"idle", "clock"} = {})
                     => r.clock # edit[e].clock
    <3>1. RowFits(e, edit[e]) /\ q.values \cap edit[e].values = {}
      BY <1>1, <2>1, <2>13
    <3>2. ASSUME Waiting(edit[e]), NEW d \in DOMAIN docs', In(docs'[d].content, edit[e].op.value)
          PROVE  FALSE
      <4>1. edit[e].op.value \in edit[e].values /\ ~In(docs[d].content, edit[e].op.value)
        BY <2>7, <3>1, <3>2 DEF RowFits
      <4>2. edit[e].op.value \in F
        BY <2>10, <3>2, <4>1
      <4> QED
        BY <2>11, <3>1, <4>1, <4>2
    <3>3. (UserOf[e] = UserOf[c] /\ {r.pc, edit[e].pc} \cap {"idle", "clock"} = {}) => r.clock # edit[e].clock
      BY <1>4, <2>1, <2>4, <2>5, <2>13
    <3> QED
      BY <2>5, <3>1, <3>2, <3>3
  <2>14. /\ typed' \in Nat /\ typed <= typed' /\ clocks' \in [Users -> Nat] /\ current' \in 0..Len(docs')
         /\ Len(docs) <= Len(docs') /\ \A u \in Users : clocks[u] <= clocks'[u]
    BY <1>1, <1>2, <2>4, <2>6
  <2> QED
    BY <2>4, <2>5, <2>6, <2>9, <2>12, <2>13, <2>14, EditMoves
<1>12. ASSUME NEW c \in Editors, Acknowledge(c)
       PROVE  EditingInv'
  <2>1. PICK q : q = edit[c]
    OBVIOUS
  <2>2. PICK r : r = Idle
    OBVIOUS
  <2>3. edit' = [edit EXCEPT ![c] = r] /\ UNCHANGED <<docs, current, clocks, typed>>
    BY <1>12, <2>2 DEF Acknowledge
  <2>4. EditRow(r) /\ r.pc = "idle" /\ r.values = {} /\ r.doc = 0 /\ r.done = 0 /\ r.runes = 0 /\ r.clock = 0
    BY <2>2 DEF EditRow, Idle
  <2>5. RowFits(c, r)'
    <3>1. ~Waiting(r) /\ 0 \in 0..Len(docs')
      BY <1>1, <2>3, <2>4 DEF Waiting
    <3> QED
      BY <2>4, <3>1 DEF RowFits
  <2>6. TextsFit'
    BY <1>1, <2>3 DEF TextsFit
  <2>7. ASSUME NEW e \in Editors, e # c
        PROVE  /\ r.values \cap edit[e].values = {}
               /\ Waiting(edit[e]) => \A d \in DOMAIN docs' : ~In(docs'[d].content, edit[e].op.value)
               /\ (UserOf[e] = UserOf[c] /\ {r.pc, edit[e].pc} \cap {"idle", "clock"} = {})
                     => r.clock # edit[e].clock
    <3>1. RowFits(e, edit[e])
      BY <1>1
    <3>2. Waiting(edit[e]) => \A d \in DOMAIN docs' : ~In(docs'[d].content, edit[e].op.value)
      BY <2>3, <3>1 DEF RowFits
    <3>3. "idle" \in {r.pc, edit[e].pc} \cap {"idle", "clock"}
      BY <2>4
    <3> QED
      BY <2>4, <3>2, <3>3
  <2>8. /\ typed' \in Nat /\ typed <= typed' /\ clocks' \in [Users -> Nat] /\ current' \in 0..Len(docs')
        /\ docs' \in Seq(Document)
        /\ Len(docs) <= Len(docs') /\ \A u \in Users : clocks[u] <= clocks'[u]
    BY <1>1, <1>2, <2>3
  <2> QED
    BY <2>3, <2>4, <2>5, <2>6, <2>7, <2>8, EditMoves
<1>13. ASSUME EndSession
       PROVE  EditingInv'
  <2>1. UNCHANGED <<docs, clocks, edit, typed>> /\ current' = 0
    BY <1>13 DEF EndSession
  <2>2. current' \in 0..Len(docs')
    BY <1>1, <2>1
  <2>3. \A c \in Editors : (EditRow(edit[c]) /\ RowFits(c, edit[c]))'
    BY <1>1, <2>1 DEF EditRow, RowFits
  <2>4. TextsFit'
    BY <1>1, <2>1 DEF TextsFit
  <2>5. ClocksDiffer'
    BY <2>1 DEF EditingInv, ClocksDiffer
  <2> QED
    BY <1>1, <2>1, <2>2, <2>3, <2>4, <2>5 DEF EditingInv
<1> QED
  BY <1>5, <1>6, <1>7, <1>9, <1>10, <1>11, <1>12, <1>13 DEF EditingNext

LEMMA EditingStutters == EditingInv /\ UNCHANGED editingVars => EditingInv'
<1> SUFFICES ASSUME EditingInv, UNCHANGED editingVars PROVE EditingInv'
  OBVIOUS
<1>1. UNCHANGED <<docs, current, ended, clocks, edit, requested, typed>>
  BY DEF editingVars
<1>2. \A c \in Editors : (EditRow(edit[c]) /\ RowFits(c, edit[c]))'
  BY <1>1 DEF EditingInv, EditRow, RowFits
<1>3. TextsFit'
  BY <1>1 DEF EditingInv, TextsFit
<1>4. ClocksDiffer'
  BY <1>1 DEF EditingInv, ClocksDiffer
<1> QED
  BY <1>1, <1>2, <1>3, <1>4 DEF EditingInv

LEMMA EditingGood == EditingInv => EditingTypeOK /\ InsertsAreWhole /\ ClocksDiffer
<1> SUFFICES ASSUME EditingInv PROVE EditingTypeOK /\ InsertsAreWhole
  BY DEF EditingInv
<1>1. /\ docs \in Seq(Document) /\ TextsFit /\ \A c \in Editors : EditRow(edit[c]) /\ RowFits(c, edit[c])
  BY DEF EditingInv
<1>2. \A d \in DOMAIN docs : docs[d].version \in Nat /\ docs[d].content \in Seq(Char)
  <2>1. \A d \in DOMAIN docs : docs[d] \in Document
    BY <1>1
  <2> QED
    BY <2>1 DEF Document
<1>3. \A d \in DOMAIN docs : \A i \in DOMAIN docs[d].content : docs[d].content[i].id \in Ids
  <2>1. SUFFICES ASSUME NEW d \in DOMAIN docs, NEW i \in DOMAIN docs[d].content
                 PROVE  docs[d].content[i].id \in Ids
    OBVIOUS
  <2>2. docs[d].content[i] \in Char
    BY <1>2
  <2> QED
    BY <2>2 DEF Char
<1>4. \A c \in Editors : edit[c].doc \in 0..Len(docs) /\ edit[c].done \in 0..edit[c].runes
  <2>1. SUFFICES ASSUME NEW c \in Editors
                 PROVE  edit[c].doc \in 0..Len(docs) /\ edit[c].done \in 0..edit[c].runes
    OBVIOUS
  <2>2. edit[c].done \in Nat /\ edit[c].runes \in Nat
    BY <1>1 DEF EditRow
  <2>3. edit[c].doc \in 0..Len(docs) /\ edit[c].done <= edit[c].runes
    BY <1>1 DEF RowFits
  <2> QED
    BY <2>2, <2>3
<1>5. EditingTypeOK
  BY <1>2, <1>3, <1>4 DEF EditingInv, EditingTypeOK
<1>6. InsertsAreWhole
  <2>1. SUFFICES ASSUME NEW c \in Editors, edit[c].pc = "lookup", edit[c].type = "insert",
                        NEW v \in edit[c].values
                 PROVE  Cardinality({i \in DOMAIN docs[edit[c].doc].content :
                                        docs[edit[c].doc].content[i].value = v}) = 1
    BY DEF InsertsAreWhole
  <2>2. PICK s : s = docs[edit[c].doc].content
    OBVIOUS
  <2>3. ~Waiting(edit[c])
    BY <2>1 DEF Waiting
  <2>4. edit[c].doc \in DOMAIN docs /\ In(s, v)
    BY <1>1, <2>2, <2>3 DEF RowFits
  <2>5. Unique(s)
    BY <1>1, <2>2, <2>4 DEF TextsFit
  <2>6. PICK i \in DOMAIN s : s[i].value = v
    BY <2>4 DEF In
  <2>7. {j \in DOMAIN s : s[j].value = v} = {i}
    BY <2>5, <2>6 DEF Unique
  <2>8. Cardinality({i}) = 1
    BY FS_Singleton
  <2> QED
    BY <2>2, <2>7, <2>8
<1> QED
  BY <1>5, <1>6

\* A text that stays as it is.
LEMMA SameGrows == \A s : Unique(s) => Grows(s, s)
<1> SUFFICES ASSUME NEW s, Unique(s) PROVE Grows(s, s)
  OBVIOUS
<1>1. PICK spot : spot = [i \in DOMAIN s |-> i]
  OBVIOUS
<1>2. spot \in [DOMAIN s -> DOMAIN s] /\ \A i \in DOMAIN s : spot[i] = i
  BY <1>1
<1>3. \A k \in DOMAIN s, i \in DOMAIN s : s[k].value = s[i].value => k = spot[i]
  BY <1>2 DEF Unique
<1> QED
  BY <1>2, <1>3 DEF Grows

LEMMA EditingGrows ==
    ASSUME EditingInv, EditingNext
    PROVE  DocumentsGrow /\ VersionTellsTexts
<1>1. /\ docs \in Seq(Document) /\ TextsFit /\ \A d \in DOMAIN docs : Unique(docs[d].content)
  BY DEF EditingInv, TextsFit
<1>2. ASSUME \A d \in DOMAIN docs : docs'[d] = docs[d]
      PROVE  DocumentsGrow /\ VersionTellsTexts
  BY <1>1, <1>2, SameGrows DEF DocumentsGrow, VersionTellsTexts
<1>3. ASSUME GetOrCreateDocument
      PROVE  \A d \in DOMAIN docs : docs'[d] = docs[d]
  BY <1>1, <1>3 DEF GetOrCreateDocument
<1>4. ASSUME UNCHANGED docs
      PROVE  DocumentsGrow /\ VersionTellsTexts
  BY <1>2, <1>4
<1>5. ASSUME NEW c \in Editors, NEW type, NEW p, NEW n, StartEdit(c, type, p, n)
      PROVE  DocumentsGrow /\ VersionTellsTexts
  BY <1>2, <1>3, <1>5 DEF StartEdit
<1>6. ASSUME NEW c \in Editors, LookUp(c)
      PROVE  DocumentsGrow /\ VersionTellsTexts
  BY <1>2, <1>3, <1>6 DEF LookUp
<1>7. ASSUME NEW c \in Editors, Apply(c)
      PROVE  DocumentsGrow /\ VersionTellsTexts
  <2>1. PICK D \in DOMAIN docs :
              /\ \A d \in DOMAIN docs : d # D => docs'[d] = docs[d]
              /\ Grows(docs[D].content, docs'[D].content)
              /\ docs'[D].version > docs[D].version \/ docs'[D] = docs[D]
    BY <1>7, Applied
  <2>2. ASSUME NEW d \in DOMAIN docs
        PROVE  /\ Grows(docs[d].content, docs'[d].content)
               /\ docs'[d].version > docs[d].version \/ docs'[d] = docs[d]
    <3>1. CASE d = D
      BY <2>1, <3>1
    <3>2. CASE d # D
      BY <1>1, <2>1, <3>2, SameGrows
    <3> QED
      BY <3>1, <3>2
  <2> QED
    BY <2>2 DEF DocumentsGrow, VersionTellsTexts
<1>8. ASSUME NEW c \in Editors, DrawClock(c) \/ CreateInsertOperation(c) \/ CreateDeleteOperation(c)
                                \/ Acknowledge(c) \/ EndSession
      PROVE  DocumentsGrow /\ VersionTellsTexts
  <2>1. UNCHANGED docs
    BY <1>8 DEF DrawClock, CreateInsertOperation, CreateDeleteOperation, Acknowledge, EndSession
  <2> QED
    BY <1>4, <2>1
<1>9. ASSUME EndSession
      PROVE  DocumentsGrow /\ VersionTellsTexts
  <2>1. UNCHANGED docs
    BY <1>9 DEF EndSession
  <2> QED
    BY <1>4, <2>1
<1> QED
  BY <1>5, <1>6, <1>7, <1>8, <1>9 DEF EditingNext

-----------------------------------------------------------------------------
(* Hot reload.  The subscribers in the slice are distinct and their channels *)
(* open.  A notification has a copy of the slice: its array is the current   *)
(* one or an earlier one, which is not written any more.  Until somebody     *)
(* unsubscribes, its slots hold the subscribers it found, and those before   *)
(* the next one are the ones that were told or were too slow.                *)

Notification == [at : {"idle", "sending", "done", "panicked"}, slice : Slice, next : 1..5,
                 audience : SUBSET Subscriber, told : SUBSET Subscriber, full : SUBSET Subscriber,
                 again : BOOLEAN, disturbed : BOOLEAN]

SliceHolds(arr, ch, out) ==
    /\ ch \in Slice
    /\ ch.array = 0 => ch.len = 0
    /\ ch.array # 0 => ch.len <= ArraySize[ch.array]
    /\ \A i \in 1..ch.len : arr[ch.array][i] \in Subscriber \ out
    /\ \A i, j \in 1..ch.len : arr[ch.array][i] = arr[ch.array][j] => i = j

Passed(m, arr) == {arr[m.slice.array][i] : i \in 1..(m.next - 1)}

Telling(m, arr, ch, out) ==
    /\ m.slice.array <= ch.array /\ (m.slice.array = 0 => m.slice.len = 0)
    /\ m.next <= m.slice.len + 1
    /\ \A i \in 1..m.slice.len : arr[m.slice.array][i] \in Subscriber
    /\ ~m.disturbed =>
          /\ ~m.again
          /\ m.slice.array = ch.array => m.slice.len <= ch.len
          /\ \A i, j \in 1..m.slice.len : arr[m.slice.array][i] = arr[m.slice.array][j] => i = j
          /\ m.audience = {arr[m.slice.array][i] : i \in 1..m.slice.len}
          /\ m.audience \cap out = {}
          /\ m.told = Passed(m, arr) \ m.full
          /\ m.full \subseteq Passed(m, arr)

Told(m) == ~m.disturbed => /\ m.at # "panicked" /\ ~m.again
                           /\ m.at = "done" => m.told = m.audience \ m.full

HotReloadInv ==
    /\ arrays \in [1..3 -> [Slot -> Subscriber \cup {NoSubscriber}]]
    /\ queue \in [Subscriber -> 0..QueueSize] /\ closed \subseteq Subscriber
    /\ SliceHolds(arrays, channels, closed)
    /\ notifier \in [Notifier -> Notification]
    /\ \A n \in Notifier :
          /\ Told(notifier[n])
          /\ notifier[n].at = "sending" => Telling(notifier[n], arrays, channels, closed)

LEMMA Sizes ==
    /\ ArraySize[1] = 1 /\ ArraySize[2] = 2 /\ ArraySize[3] = 4
    /\ \A a \in 1..3 : ArraySize[a] \in 1..4
    /\ QueueSize \in Nat \ {0}
<1>1. ArraySize[1] = 1 /\ ArraySize[2] = 2 /\ ArraySize[3] = 4
  BY DEF ArraySize
<1>2. \A a \in 1..3 : a = 1 \/ a = 2 \/ a = 3
  OBVIOUS
<1> QED
  BY <1>1, <1>2, HotReloadAssumption

LEMMA NotBegunTyped ==
    NotBegun \in Notification /\ NotBegun.at = "idle" /\ ~NotBegun.disturbed /\ ~NotBegun.again
    /\ Told(NotBegun)
  BY DEF NotBegun, Notification, Slice, Told

LEMMA HotReloadStart == HotReloadInit => HotReloadInv
<1> SUFFICES ASSUME HotReloadInit PROVE HotReloadInv
  OBVIOUS
<1>1. PICK m : m = NotBegun
  OBVIOUS
<1>2. notifier = [n \in Notifier |-> m] /\ m \in Notification /\ m.at = "idle" /\ Told(m)
  BY <1>1, NotBegunTyped DEF HotReloadInit
<1>3. SliceHolds(arrays, channels, closed)
  <2>1. channels \in Slice /\ channels.array = 0 /\ channels.len = 0
    BY DEF HotReloadInit, Slice
  <2> QED
    BY <2>1 DEF SliceHolds
<1>4. arrays \in [1..3 -> [Slot -> Subscriber \cup {NoSubscriber}]]
      /\ queue \in [Subscriber -> 0..QueueSize] /\ closed \subseteq Subscriber
  BY Sizes DEF HotReloadInit
<1> QED
  BY <1>2, <1>3, <1>4 DEF HotReloadInv

\* Four who have subscribed leave nobody to subscribe.
LEMMA FourAreAll ==
    ASSUME NEW arr, \A i \in 1..4 : arr[i] \in Subscriber,
           \A i, j \in 1..4 : arr[i] = arr[j] => i = j,
           NEW s \in Subscriber
    PROVE  \E i \in 1..4 : arr[i] = s
<1> SUFFICES ASSUME \A i \in 1..4 : arr[i] # s PROVE FALSE
  OBVIOUS
<1> DEFINE one == {arr[1]}
           two == one \cup {arr[2]}
           three == two \cup {arr[3]}
           four == three \cup {arr[4]}
           five == four \cup {s}
<1>1. /\ arr[2] \notin one /\ arr[3] \notin two /\ arr[4] \notin three /\ s \notin four
      /\ five \subseteq Subscriber
  OBVIOUS
<1>2. IsFiniteSet(one) /\ Cardinality(one) = 1
  BY FS_Singleton
<1>a. ASSUME NEW S, NEW x, IsFiniteSet(S), x \notin S
      PROVE  IsFiniteSet(S \cup {x}) /\ Cardinality(S \cup {x}) = Cardinality(S) + 1
  BY <1>a, FS_AddElement
<1> HIDE DEF one
<1>3. IsFiniteSet(two) /\ Cardinality(two) = 2
  BY <1>1, <1>2, <1>a
<1> HIDE DEF two
<1>4. IsFiniteSet(three) /\ Cardinality(three) = 3
  <2>1. IsFiniteSet(three) /\ Cardinality(three) = Cardinality(two) + 1
    BY <1>1, <1>3, <1>a
  <2> QED
    BY <1>3, <2>1
<1> HIDE DEF three
<1>5. IsFiniteSet(four) /\ Cardinality(four) = 4
  <2>1. IsFiniteSet(four) /\ Cardinality(four) = Cardinality(three) + 1
    BY <1>1, <1>4, <1>a
  <2> QED
    BY <1>4, <2>1
<1> HIDE DEF four
<1>6. IsFiniteSet(five) /\ Cardinality(five) = 5
  <2>1. IsFiniteSet(five) /\ Cardinality(five) = Cardinality(four) + 1
    BY <1>1, <1>5, <1>a
  <2> QED
    BY <1>5, <2>1
<1> HIDE DEF five
<1>7. Cardinality(five) <= Cardinality(Subscriber) /\ Cardinality(Subscriber) \in Nat
  BY <1>1, HotReloadAssumption, FS_Subset, FS_CardinalityType
<1> QED
  BY <1>6, <1>7, HotReloadAssumption

\* A notification goes on when its slots are left alone, or when it is disturbed and they
\* hold subscribers.
LEMMA GoesOn ==
    ASSUME NEW m \in Notification, NEW arr, NEW ch \in Slice, NEW out, Telling(m, arr, ch, out),
           NEW arr2, NEW ch2 \in Slice, NEW out2, NEW m2 \in Notification,
           ch.array <= ch2.array,
           m2.slice = m.slice, m2.next = m.next,
           \A i \in 1..m.slice.len : arr2[m.slice.array][i] \in Subscriber,
           \/ m2.disturbed
           \/ /\ m2 = m /\ out2 = out
              /\ m.slice.array = ch2.array => m.slice.array = ch.array /\ ch.len <= ch2.len
              /\ ~m.disturbed => \A i \in 1..m.slice.len : arr2[m.slice.array][i] = arr[m.slice.array][i]
    PROVE  Telling(m2, arr2, ch2, out2)
<1>1. /\ m.slice \in Slice /\ m.next \in 1..5 /\ m.slice.array \in Nat /\ m.slice.len \in Nat
      /\ ch.array \in Nat /\ ch2.array \in Nat /\ ch.len \in Nat /\ ch2.len \in Nat
  BY DEF Notification, Slice
<1>2. /\ m2.slice.array <= ch2.array /\ (m2.slice.array = 0 => m2.slice.len = 0)
      /\ m2.next <= m2.slice.len + 1
      /\ \A i \in 1..m2.slice.len : arr2[m2.slice.array][i] \in Subscriber
  BY <1>1 DEF Telling
<1>3. CASE m2.disturbed
  BY <1>2, <1>3 DEF Telling
<1>4. CASE ~m2.disturbed
  <2>1. /\ m2 = m /\ out2 = out /\ ~m.disturbed
        /\ (m.slice.array = ch2.array => m.slice.array = ch.array /\ ch.len <= ch2.len)
        /\ \A i \in 1..m.slice.len : arr2[m.slice.array][i] = arr[m.slice.array][i]
    BY <1>4
  <2>2. \A i \in 1..(m.next - 1) : i \in 1..m.slice.len
    BY <1>1, <1>2, <2>1
  <2>3. Passed(m, arr2) = Passed(m, arr)
    BY <2>1, <2>2 DEF Passed
  <2>4. /\ ~m.again
        /\ m.slice.array = ch2.array => m.slice.len <= ch2.len
        /\ \A i, j \in 1..m.slice.len : arr2[m.slice.array][i] = arr2[m.slice.array][j] => i = j
    BY <1>1, <2>1 DEF Telling
  <2>5. m.audience = {arr2[m.slice.array][i] : i \in 1..m.slice.len}
    BY <2>1 DEF Telling
  <2>6. m.audience \cap out2 = {} /\ m.told = Passed(m, arr2) \ m.full /\ m.full \subseteq Passed(m, arr2)
    BY <2>1, <2>3 DEF Telling
  <2> QED
    BY <1>2, <2>1, <2>4, <2>5, <2>6 DEF Telling
<1> QED
  BY <1>3, <1>4

\* A slot that is passed.
LEMMA OnePasses ==
    ASSUME NEW m \in Notification, NEW arr, NEW ch \in Slice, NEW out,
           Telling(m, arr, ch, out), m.next <= m.slice.len,
           NEW m2 \in Notification, m2.slice = m.slice, m2.next = m.next + 1,
           m2.audience = m.audience, m2.disturbed = m.disturbed,
           \/ /\ m2.told = m.told \cup {arr[m.slice.array][m.next]} /\ m2.full = m.full
              /\ (m2.again <=> m.again \/ arr[m.slice.array][m.next] \in m.told)
           \/ /\ m2.full = m.full \cup {arr[m.slice.array][m.next]} /\ m2.told = m.told
              /\ m2.again = m.again
    PROVE  Telling(m2, arr, ch, out)
<1>1. /\ m.slice \in Slice /\ m.next \in 1..5 /\ m.slice.array \in Nat /\ m.slice.len \in Nat
      /\ ch.array \in Nat /\ ch.len \in Nat
  BY DEF Notification, Slice
<1>2. PICK s : s = arr[m.slice.array][m.next]
  OBVIOUS
<1>3. CASE m.disturbed
  BY <1>1, <1>3 DEF Telling
<1>4. CASE ~m.disturbed
  <2>1. Passed(m2, arr) = Passed(m, arr) \cup {s}
    <3>1. 1..(m2.next - 1) = (1..(m.next - 1)) \cup {m.next}
      BY <1>1
    <3>2. Passed(m2, arr) = {arr[m.slice.array][i] : i \in (1..(m.next - 1)) \cup {m.next}}
      BY <3>1 DEF Passed
    <3> QED
      BY <1>2, <3>2 DEF Passed
  <2>2. s \notin Passed(m, arr)
    <3>1. ASSUME NEW i \in 1..(m.next - 1)
          PROVE  arr[m.slice.array][i] # s
      <4>1. i \in 1..m.slice.len /\ m.next \in 1..m.slice.len /\ i # m.next
        BY <1>1
      <4> QED
        BY <1>2, <1>4, <4>1 DEF Telling
    <3> QED
      BY <3>1 DEF Passed
  <2>3. m.told = Passed(m, arr) \ m.full /\ m.full \subseteq Passed(m, arr) /\ ~m.again
    BY <1>4 DEF Telling
  <2>4. m2.told = Passed(m2, arr) \ m2.full /\ m2.full \subseteq Passed(m2, arr) /\ ~m2.again
    BY <1>2, <2>1, <2>2, <2>3
  <2>5. m2.next <= m2.slice.len + 1
    BY <1>1
  <2> QED
    BY <1>4, <2>4, <2>5 DEF Telling
<1> QED
  BY <1>3, <1>4

\* What a notification does to its own record.
LEMMA OneMoves ==
    ASSUME HotReloadInv, NEW n \in Notifier, NEW m \in Notification,
           Told(m), m.at = "sending" => Telling(m, arrays, channels, closed),
           notifier' = [notifier EXCEPT ![n] = m], queue' \in [Subscriber -> 0..QueueSize],
           UNCHANGED <<arrays, channels, closed>>
    PROVE  HotReloadInv'
<1>1. notifier' \in [Notifier -> Notification] /\ notifier'[n] = m
      /\ \A k \in Notifier : k # n => notifier'[k] = notifier[k]
  BY DEF HotReloadInv
<1>2. ASSUME NEW k \in Notifier
      PROVE  Told(notifier'[k])
             /\ (notifier'[k].at = "sending" => Telling(notifier'[k], arrays, channels, closed))
  BY <1>1 DEF HotReloadInv
<1> QED
  BY <1>1, <1>2 DEF HotReloadInv

LEMMA Subscribes ==
    ASSUME HotReloadInv, NEW s \in Subscriber, SubscribeToChanges(s)
    PROVE  HotReloadInv'
<1>1. PICK a, len, out : a = channels.array /\ len = channels.len /\ out = closed
  OBVIOUS
<1>2. PICK arr, ch : arr = arrays /\ ch = channels
  OBVIOUS
<1>3. /\ arr \in [1..3 -> [Slot -> Subscriber \cup {NoSubscriber}]] /\ SliceHolds(arr, ch, out)
      /\ ch \in Slice /\ a = ch.array /\ len = ch.len /\ a \in 0..3 /\ len \in 0..4
      /\ (a = 0 => len = 0) /\ (a # 0 => len <= ArraySize[a])
      /\ \A i \in 1..len : arr[a][i] \in Subscriber \ out
      /\ \A i, j \in 1..len : arr[a][i] = arr[a][j] => i = j
      /\ out \subseteq Subscriber
  BY <1>1, <1>2 DEF HotReloadInv, SliceHolds, Slice
<1>4. s \notin out /\ \A i \in 1..len : arr[a][i] # s
  BY <1>1, <1>2 DEF SubscribeToChanges, Subscribed, InSlice
<1>5. PICK room \in BOOLEAN : room <=> (a # 0 /\ len < ArraySize[a])
  OBVIOUS
<1>6. PICK into, from : into = (IF room THEN a ELSE a + 1) /\ from = (IF a = 0 THEN arr[1] ELSE arr[a])
  OBVIOUS
<1>7. PICK row : row = [i \in Slot |-> IF i = len + 1 THEN s
                                      ELSE IF i <= len \/ room THEN from[i] ELSE NoSubscriber]
  OBVIOUS
<1>8. /\ arrays' = [arr EXCEPT ![into] = row] /\ channels' = [array |-> into, len |-> len + 1]
      /\ UNCHANGED <<queue, closed, notifier>>
  BY <1>1, <1>2, <1>5, <1>6, <1>7 DEF SubscribeToChanges
<1>9. into \in 1..3 /\ len + 1 <= ArraySize[into] /\ len + 1 \in 1..4
  <2>1. CASE room
    <3>1. into = a /\ a \in 1..3 /\ len < ArraySize[a] /\ ArraySize[a] \in 1..4
      BY <2>1, <1>3, <1>5, <1>6, Sizes
    <3> QED
      BY <3>1, <1>3
  <2>2. CASE ~room /\ a = 3
    <3>1. len = 4
      BY <2>2, <1>3, <1>5, Sizes
    <3>2. \E i \in 1..4 : arr[a][i] = s
      <4>1. PICK old : old = arr[a]
        OBVIOUS
      <4>2. (\A i \in 1..4 : old[i] \in Subscriber) /\ (\A i, j \in 1..4 : old[i] = old[j] => i = j)
        BY <1>3, <3>1, <4>1
      <4>3. \E i \in 1..4 : old[i] = s
        BY <4>2, FourAreAll
      <4> QED
        BY <4>1, <4>3
    <3> QED
      BY <1>4, <3>1, <3>2
  <2>3. CASE ~room /\ a # 3
    <3>1. into = a + 1 /\ (a = 0 \/ a = 1 \/ a = 2) /\ (a # 0 => len = ArraySize[a])
      <4>1. a # 0 => a \in 1..3 /\ ArraySize[a] \in 1..4 /\ len <= ArraySize[a] /\ ~(len < ArraySize[a])
        BY <2>3, <1>3, <1>5, Sizes
      <4> QED
        BY <2>3, <4>1, <1>3, <1>6
    <3> QED
      BY <3>1, <1>3, Sizes
  <2> QED
    BY <2>1, <2>2, <2>3
<1>10. from \in [Slot -> Subscriber \cup {NoSubscriber}] /\ (a # 0 => from = arr[a])
  BY <1>3, <1>6
<1>11. /\ row \in [Slot -> Subscriber \cup {NoSubscriber}]
       /\ row[len + 1] = s
       /\ \A i \in 1..len : row[i] = arr[a][i]
       /\ \A i \in Slot : room /\ i # len + 1 => row[i] = arr[a][i]
  <2>1. len + 1 \in Slot /\ \A i \in 1..len : i \in Slot /\ i # len + 1 /\ i <= len /\ a # 0
    BY <1>3, <1>9 DEF Slot
  <2>2. room => a # 0
    BY <1>5
  <2> QED
    BY <1>7, <1>10, <2>1, <2>2
<1>12. PICK arr2, ch2 : arr2 = arrays' /\ ch2 = channels'
  OBVIOUS
<1>13. /\ arr2 \in [1..3 -> [Slot -> Subscriber \cup {NoSubscriber}]] /\ arr2[into] = row
       /\ \A b \in 1..3 : b # into => arr2[b] = arr[b]
       /\ ch2 \in Slice /\ ch2.array = into /\ ch2.len = len + 1
  BY <1>3, <1>8, <1>9, <1>11, <1>12 DEF Slice
<1>14. SliceHolds(arr2, ch2, out)
  <2>1. ASSUME NEW i \in 1..(len + 1)
        PROVE  row[i] \in Subscriber \ out /\ (i # len + 1 => i \in 1..len /\ row[i] = arr[a][i] /\ row[i] # s)
    <3>1. CASE i = len + 1
      BY <3>1, <1>4, <1>11
    <3>2. CASE i # len + 1
      <4>1. i \in 1..len
        BY <3>2, <1>3
      <4> QED
        BY <4>1, <1>3, <1>4, <1>11
    <3> QED
      BY <3>1, <3>2
  <2>2. ASSUME NEW i \in 1..(len + 1), NEW j \in 1..(len + 1), row[i] = row[j]
        PROVE  i = j
    BY <2>1, <2>2, <1>3, <1>11
  <2> QED
    BY <1>9, <1>13, <2>1, <2>2 DEF SliceHolds
<1>15. ASSUME NEW n \in Notifier, notifier[n].at = "sending"
       PROVE  Telling(notifier[n], arr2, ch2, out)
  <2>1. PICK m : m = notifier[n]
    OBVIOUS
  <2>2. m \in Notification /\ Telling(m, arr, ch, out)
    BY <1>1, <1>2, <1>15, <2>1 DEF HotReloadInv
  <2>3. /\ m.slice.array \in 0..3 /\ m.slice.len \in 0..4 /\ m.slice.array <= a
        /\ (m.slice.array = 0 => m.slice.len = 0)
        /\ \A i \in 1..m.slice.len : arr[m.slice.array][i] \in Subscriber
        /\ (~m.disturbed /\ m.slice.array = a => m.slice.len <= len)
    BY <1>3, <2>2 DEF Telling, Notification, Slice
  <2>4. ASSUME NEW i \in 1..m.slice.len
        PROVE  /\ arr2[m.slice.array][i] \in Subscriber
               /\ ~m.disturbed => arr2[m.slice.array][i] = arr[m.slice.array][i]
    <3>1. m.slice.array \in 1..3 /\ i \in Slot
      BY <2>3 DEF Slot
    <3>2. CASE m.slice.array # into
      BY <3>1, <3>2, <2>3, <1>13
    <3>3. CASE m.slice.array = into
      <4>1. room /\ into = a
        BY <3>3, <2>3, <1>3, <1>6
      <4>2. CASE i = len + 1
        BY <4>1, <4>2, <3>3, <2>3, <1>3, <1>11, <1>13
      <4>3. CASE i # len + 1
        BY <4>1, <4>3, <3>1, <3>3, <2>3, <1>11, <1>13
      <4> QED
        BY <4>2, <4>3
    <3> QED
      BY <3>2, <3>3
  <2>5. m.slice.array = ch2.array => m.slice.array = ch.array /\ ch.len <= ch2.len
    BY <1>3, <1>6, <1>13, <2>3
  <2>6. ch.array <= ch2.array
    BY <1>3, <1>6, <1>13
  <2>7. Telling(m, arr2, ch2, out)
    <3>1. \A i \in 1..m.slice.len : arr2[m.slice.array][i] \in Subscriber
      BY <2>4
    <3>2. ~m.disturbed => \A i \in 1..m.slice.len : arr2[m.slice.array][i] = arr[m.slice.array][i]
      BY <2>4
    <3>3. \/ m.disturbed
          \/ /\ m = m /\ out = out
             /\ m.slice.array = ch2.array => m.slice.array = ch.array /\ ch.len <= ch2.len
             /\ ~m.disturbed => \A i \in 1..m.slice.len : arr2[m.slice.array][i] = arr[m.slice.array][i]
      BY <2>5, <3>2
    <3>4. m.slice = m.slice /\ m.next = m.next /\ ch \in Slice /\ ch2 \in Slice
      BY <1>3, <1>13
    <3> QED
      BY <2>2, <2>6, <3>1, <3>3, <3>4, GoesOn
  <2> QED
    BY <2>1, <2>7
<1> QED
  BY <1>1, <1>8, <1>12, <1>13, <1>14, <1>15 DEF HotReloadInv

LEMMA Unsubscribes ==
    ASSUME HotReloadInv, NEW s \in Subscriber, Cleanup(s)
    PROVE  HotReloadInv'
<1>1. PICK a, len, out : a = channels.array /\ len = channels.len /\ out = closed
  OBVIOUS
<1>2. PICK arr, ch : arr = arrays /\ ch = channels
  OBVIOUS
<1>3. /\ arr \in [1..3 -> [Slot -> Subscriber \cup {NoSubscriber}]] /\ SliceHolds(arr, ch, out)
      /\ ch \in Slice /\ a = ch.array /\ len = ch.len /\ a \in 0..3 /\ len \in 0..4
      /\ (a = 0 => len = 0) /\ (a # 0 => len <= ArraySize[a])
      /\ \A i \in 1..len : arr[a][i] \in Subscriber \ out
      /\ \A i, j \in 1..len : arr[a][i] = arr[a][j] => i = j
      /\ out \subseteq Subscriber
  BY <1>1, <1>2 DEF HotReloadInv, SliceHolds, Slice
<1>c. PICK k \in 1..channels.len :
          /\ arrays[channels.array][k] = s
          /\ arrays' = [arrays EXCEPT ![channels.array] = [i \in Slot |->
                            IF i >= k /\ i < channels.len THEN @[i + 1] ELSE @[i]]]
  BY DEF Cleanup
<1>4. k \in 1..len /\ arr[a][k] = s
  BY <1>1, <1>2, <1>c
<1>5. PICK row : row = [i \in Slot |-> IF i >= k /\ i < len THEN arr[a][i + 1] ELSE arr[a][i]]
  OBVIOUS
<1>6. /\ arrays' = [arr EXCEPT ![a] = row] /\ channels' = [ch EXCEPT !.len = len - 1]
      /\ closed' = out \cup {s} /\ queue' = queue
      /\ notifier' = [n \in Notifier |-> IF notifier[n].at = "sending"
                                         THEN [notifier[n] EXCEPT !.disturbed = TRUE]
                                         ELSE notifier[n]]
  BY <1>1, <1>2, <1>c, <1>5 DEF Cleanup
<1>7. a \in 1..3 /\ len \in 1..4 /\ arr[a] \in [Slot -> Subscriber \cup {NoSubscriber}]
  BY <1>3, <1>4
<1>8. /\ row \in [Slot -> Subscriber \cup {NoSubscriber}]
      /\ \A i \in Slot : arr[a][i] \in Subscriber => row[i] \in Subscriber
  <2>1. ASSUME NEW i \in Slot, i >= k, i < len
        PROVE  i + 1 \in Slot /\ i + 1 \in 1..len
    BY <1>7, <2>1 DEF Slot
  <2>2. ASSUME NEW i \in Slot
        PROVE  /\ row[i] = IF i >= k /\ i < len THEN arr[a][i + 1] ELSE arr[a][i]
               /\ row[i] \in Subscriber \cup {NoSubscriber}
               /\ arr[a][i] \in Subscriber => row[i] \in Subscriber
    BY <2>1, <1>3, <1>5, <1>7
  <2> QED
    BY <2>2, <1>5
<1>9. ASSUME NEW i \in 1..(len - 1)
      PROVE  \E f \in 1..len : row[i] = arr[a][f] /\ f = (IF i >= k THEN i + 1 ELSE i)
  BY <1>5, <1>7 DEF Slot
<1>10. PICK arr2, ch2 : arr2 = arrays' /\ ch2 = channels'
  OBVIOUS
<1>11. /\ arr2 \in [1..3 -> [Slot -> Subscriber \cup {NoSubscriber}]] /\ arr2[a] = row
       /\ \A b \in 1..3 : b # a => arr2[b] = arr[b]
       /\ ch2 \in Slice /\ ch2.array = a /\ ch2.len = len - 1
  BY <1>3, <1>6, <1>7, <1>8, <1>10 DEF Slice
<1>12. PICK out2 : out2 = out \cup {s}
  OBVIOUS
<1>13. SliceHolds(arr2, ch2, out2)
  <2>1. ASSUME NEW i \in 1..(len - 1)
        PROVE  row[i] \in Subscriber \ out2
    <3>1. PICK f \in 1..len : row[i] = arr[a][f] /\ f = (IF i >= k THEN i + 1 ELSE i)
      BY <1>9
    <3>2. f # k
      BY <3>1, <1>7
    <3> QED
      BY <3>1, <3>2, <1>3, <1>4, <1>12
  <2>2. ASSUME NEW i \in 1..(len - 1), NEW j \in 1..(len - 1), row[i] = row[j]
        PROVE  i = j
    <3>1. PICK f \in 1..len : row[i] = arr[a][f] /\ f = (IF i >= k THEN i + 1 ELSE i)
      BY <1>9
    <3>2. PICK g \in 1..len : row[j] = arr[a][g] /\ g = (IF j >= k THEN j + 1 ELSE j)
      BY <1>9
    <3>3. f = g
      BY <2>2, <3>1, <3>2, <1>3
    <3> QED
      BY <3>1, <3>2, <3>3, <1>7
  <2>3. ch2.array # 0 => ch2.len <= ArraySize[ch2.array]
    BY <1>3, <1>7, <1>11, Sizes
  <2>4. ch2.array # 0
    BY <1>7, <1>11
  <2> QED
    BY <1>11, <2>1, <2>2, <2>3, <2>4 DEF SliceHolds
<1>14. ASSUME NEW n \in Notifier
       PROVE  /\ notifier'[n] \in Notification /\ Told(notifier'[n])
              /\ notifier'[n].at = "sending" => Telling(notifier'[n], arr2, ch2, out2)
  <2>1. PICK m : m = notifier[n]
    OBVIOUS
  <2>2. m \in Notification /\ Told(m) /\ (m.at = "sending" => Telling(m, arr, ch, out))
    BY <1>1, <1>2, <2>1 DEF HotReloadInv
  <2>3. CASE m.at # "sending"
    BY <1>6, <2>1, <2>2, <2>3
  <2>4. CASE m.at = "sending"
    <3>1. PICK m2 : m2 = [m EXCEPT !.disturbed = TRUE]
      OBVIOUS
    <3>2. m2 \in Notification /\ m2.disturbed /\ m2.slice = m.slice /\ m2.next = m.next
          /\ notifier'[n] = m2
      BY <1>6, <2>1, <2>2, <2>4, <3>1 DEF Notification
    <3>3. /\ m.slice.array \in 0..3 /\ m.slice.len \in 0..4
          /\ (m.slice.array = 0 => m.slice.len = 0)
          /\ \A i \in 1..m.slice.len : arr[m.slice.array][i] \in Subscriber
      BY <2>2, <2>4 DEF Telling, Notification, Slice
    <3>4. ASSUME NEW i \in 1..m.slice.len
          PROVE  arr2[m.slice.array][i] \in Subscriber
      <4>1. m.slice.array \in 1..3 /\ i \in Slot
        BY <3>3 DEF Slot
      <4> QED
        BY <4>1, <3>3, <1>8, <1>11
    <3>5. ch.array <= ch2.array
      BY <1>3, <1>11
    <3>6. Telling(m2, arr2, ch2, out2)
      BY <1>3, <1>11, <2>2, <2>4, <3>2, <3>4, <3>5, GoesOn
    <3>7. Told(m2)
      BY <3>2 DEF Told
    <3> QED
      BY <3>2, <3>6, <3>7
  <2> QED
    BY <2>3, <2>4
<1>15. notifier' \in [Notifier -> Notification]
  <2>1. notifier' = [n \in Notifier |-> notifier'[n]]
    BY <1>6
  <2> QED
    BY <2>1, <1>14
<1>16. closed' = out2 /\ out2 \subseteq Subscriber
  BY <1>3, <1>6, <1>12
<1>17. queue' \in [Subscriber -> 0..QueueSize]
  BY <1>6 DEF HotReloadInv
<1> QED
  BY <1>10, <1>11, <1>13, <1>14, <1>15, <1>16, <1>17 DEF HotReloadInv

LEMMA HotReloadStep ==
    ASSUME HotReloadInv, HotReloadNext
    PROVE  HotReloadInv'
<1>0. /\ notifier \in [Notifier -> Notification] /\ queue \in [Subscriber -> 0..QueueSize]
      /\ \A n \in Notifier :
            /\ notifier[n] \in Notification /\ Told(notifier[n]) /\ notifier[n].slice \in Slice
            /\ notifier[n].slice.len \in 0..4 /\ notifier[n].next \in 1..5
            /\ notifier[n].at = "sending" => Telling(notifier[n], arrays, channels, closed)
      /\ channels \in Slice /\ SliceHolds(arrays, channels, closed)
  BY DEF HotReloadInv, Notification, Slice, SliceHolds
<1>1. ASSUME NEW s \in Subscriber, Receive(s)
      PROVE  HotReloadInv'
  <2>1. queue' \in [Subscriber -> 0..QueueSize] /\ UNCHANGED <<arrays, channels, closed, notifier>>
    BY <1>0, <1>1, Sizes DEF Receive
  <2> QED
    BY <2>1 DEF HotReloadInv
<1>2. ASSUME NEW n \in Notifier, NotifyFileChange(n)
      PROVE  HotReloadInv'
  <2>1. PICK m : m = [NotBegun EXCEPT !.at = "sending", !.slice = channels, !.audience = Subscribed]
    OBVIOUS
  <2>2. Subscribed = {arrays[channels.array][i] : i \in 1..channels.len}
        /\ Subscribed \subseteq Subscriber /\ Subscribed \cap closed = {}
    BY <1>0 DEF Subscribed, InSlice, SliceHolds
  <2>3. /\ m \in Notification /\ m.at = "sending" /\ m.slice = channels /\ m.audience = Subscribed
        /\ m.next = 1 /\ m.told = {} /\ m.full = {} /\ ~m.again /\ ~m.disturbed
    <3>1. PICK none : none = NotBegun
      OBVIOUS
    <3>2. /\ none \in Notification /\ none.next = 1 /\ none.told = {} /\ none.full = {}
          /\ ~none.again /\ ~none.disturbed
      BY <3>1, NotBegunTyped DEF NotBegun
    <3>3. m = [none EXCEPT !.at = "sending", !.slice = channels, !.audience = Subscribed]
      BY <2>1, <3>1
    <3>4. PICK heard : heard = Subscribed
      OBVIOUS
    <3>5. heard \in SUBSET Subscriber /\ channels \in Slice
      BY <1>0, <2>2, <3>4
    <3> QED
      BY <3>2, <3>3, <3>4, <3>5 DEF Notification
  <2>4. channels.array \in Nat /\ channels.len \in Nat
    BY <1>0 DEF Slice
  <2>5. Passed(m, arrays) = {}
    <3>1. 1..(m.next - 1) = {}
      BY <2>3
    <3> QED
      BY <3>1 DEF Passed
  <2>6. Telling(m, arrays, channels, closed)
    <3>1. /\ m.slice.array <= channels.array /\ (m.slice.array = 0 => m.slice.len = 0)
          /\ m.next <= m.slice.len + 1
          /\ \A i \in 1..m.slice.len : arrays[m.slice.array][i] \in Subscriber
          /\ \A i, j \in 1..m.slice.len : arrays[m.slice.array][i] = arrays[m.slice.array][j] => i = j
      BY <1>0, <2>3, <2>4 DEF SliceHolds
    <3>2. /\ m.audience = {arrays[m.slice.array][i] : i \in 1..m.slice.len} /\ m.audience \cap closed = {}
      BY <2>2, <2>3
    <3>3. m.slice.array = channels.array => m.slice.len <= channels.len
      BY <2>3, <2>4
    <3> QED
      BY <2>3, <2>5, <3>1, <3>2, <3>3 DEF Telling
  <2>7. notifier' = [notifier EXCEPT ![n] = m] /\ UNCHANGED <<arrays, channels, queue, closed>>
    BY <1>2, <2>1 DEF NotifyFileChange
  <2>8. Told(m)
    BY <2>3 DEF Told
  <2> QED
    BY <1>0, <2>3, <2>6, <2>7, <2>8, OneMoves
<1>3. ASSUME NEW n \in Notifier, SendEvent(n)
      PROVE  HotReloadInv'
  <2>1. PICK m, s, k : m = notifier[n] /\ s = Receiver(n) /\ k = m.next + 1
    OBVIOUS
  <2>2. PICK told, again : told = m.told \cup {s} /\ again = (m.again \/ s \in m.told)
    OBVIOUS
  <2>3. PICK m2 : m2 = [m EXCEPT !.told = told, !.next = k, !.again = again]
    OBVIOUS
  <2>4. /\ m \in Notification /\ m.slice \in Slice /\ m.slice.len \in 0..4 /\ m.next \in 1..5
        /\ m.at = "sending" /\ m.next <= m.slice.len
        /\ Telling(m, arrays, channels, closed) /\ s = arrays[m.slice.array][m.next]
    BY <1>0, <1>3, <2>1 DEF SendEvent, Receiver
  <2>5. s \in Subscriber /\ k \in 1..5 /\ told \subseteq Subscriber /\ again \in BOOLEAN
    <3>1. m.next \in 1..m.slice.len
      BY <2>4
    <3>2. s \in Subscriber
      BY <2>4, <3>1 DEF Telling
    <3>3. m.told \subseteq Subscriber /\ m.again \in BOOLEAN
      BY <2>4 DEF Notification
    <3> QED
      BY <2>1, <2>2, <2>4, <3>2, <3>3
  <2>6. /\ m2 \in Notification /\ m2.at = "sending" /\ m2.slice = m.slice /\ m2.next = k
        /\ m2.audience = m.audience /\ m2.disturbed = m.disturbed /\ m2.full = m.full
        /\ m2.told = told /\ m2.again = again
    BY <2>3, <2>4, <2>5 DEF Notification
  <2>7. Telling(m2, arrays, channels, closed)
    <3>1. m2.told = m.told \cup {arrays[m.slice.array][m.next]} /\ m2.full = m.full
          /\ (m2.again <=> (m.again \/ arrays[m.slice.array][m.next] \in m.told))
      BY <2>2, <2>4, <2>6
    <3>2. m2.next = m.next + 1
      BY <2>1, <2>6
    <3> QED
      BY <1>0, <2>4, <2>6, <3>1, <3>2, OnePasses
  <2>8. Told(m2)
    BY <2>6, <2>7 DEF Told, Telling
  <2>9. /\ notifier' = [notifier EXCEPT ![n] = m2] /\ UNCHANGED <<arrays, channels, closed>>
        /\ queue' \in [Subscriber -> 0..QueueSize]
    <3>1. /\ notifier' = [notifier EXCEPT ![n].told = @ \cup {s}, ![n].next = @ + 1,
                                          ![n].again = @ \/ s \in notifier[n].told]
          /\ queue[s] < QueueSize /\ queue' = [queue EXCEPT ![s] = @ + 1]
          /\ UNCHANGED <<arrays, channels, closed>>
      BY <1>3, <2>1 DEF SendEvent
    <3>2. notifier' = [notifier EXCEPT ![n] = m2]
      BY <1>0, <2>1, <2>2, <2>3, <3>1
    <3>3. queue[s] \in 0..QueueSize /\ QueueSize \in Nat
      BY <1>0, <2>5, Sizes
    <3>4. queue[s] + 1 \in 0..QueueSize
      BY <3>1, <3>3
    <3>5. queue' \in [Subscriber -> 0..QueueSize]
      BY <1>0, <2>5, <3>1, <3>4
    <3> QED
      BY <3>1, <3>2, <3>5
  <2> QED
    BY <2>6, <2>7, <2>8, <2>9, OneMoves
<1>4. ASSUME NEW n \in Notifier, SendTimesOut(n)
      PROVE  HotReloadInv'
  <2>1. PICK m, s, k : m = notifier[n] /\ s = Receiver(n) /\ k = m.next + 1
    OBVIOUS
  <2>2. PICK full : full = m.full \cup {s}
    OBVIOUS
  <2>3. PICK m2 : m2 = [m EXCEPT !.full = full, !.next = k]
    OBVIOUS
  <2>4. /\ m \in Notification /\ m.slice \in Slice /\ m.slice.len \in 0..4 /\ m.next \in 1..5
        /\ m.at = "sending" /\ m.next <= m.slice.len
        /\ Telling(m, arrays, channels, closed) /\ s = arrays[m.slice.array][m.next]
    BY <1>0, <1>4, <2>1 DEF SendTimesOut, Receiver
  <2>5. s \in Subscriber /\ k \in 1..5 /\ full \subseteq Subscriber
    <3>1. m.next \in 1..m.slice.len
      BY <2>4
    <3>2. s \in Subscriber
      BY <2>4, <3>1 DEF Telling
    <3>3. m.full \subseteq Subscriber
      BY <2>4 DEF Notification
    <3> QED
      BY <2>1, <2>2, <2>4, <3>2, <3>3
  <2>6. /\ m2 \in Notification /\ m2.at = "sending" /\ m2.slice = m.slice /\ m2.next = k
        /\ m2.audience = m.audience /\ m2.disturbed = m.disturbed /\ m2.full = full
        /\ m2.told = m.told /\ m2.again = m.again
    BY <2>3, <2>4, <2>5 DEF Notification
  <2>7. Telling(m2, arrays, channels, closed)
    <3>1. m2.full = m.full \cup {arrays[m.slice.array][m.next]} /\ m2.told = m.told /\ m2.again = m.again
      BY <2>2, <2>4, <2>6
    <3>2. m2.next = m.next + 1
      BY <2>1, <2>6
    <3> QED
      BY <1>0, <2>4, <2>6, <3>1, <3>2, OnePasses
  <2>8. Told(m2)
    BY <2>6, <2>7 DEF Told, Telling
  <2>9. notifier' = [notifier EXCEPT ![n] = m2] /\ UNCHANGED <<arrays, channels, closed, queue>>
    BY <1>0, <1>4, <2>1, <2>2, <2>3 DEF SendTimesOut
  <2> QED
    BY <1>0, <2>6, <2>7, <2>8, <2>9, OneMoves
<1>5. ASSUME NEW n \in Notifier, NEW end \in {"panicked", "done"}, notifier[n].at = "sending",
             notifier' = [notifier EXCEPT ![n].at = end],
             Told([notifier[n] EXCEPT !.at = end]),
             UNCHANGED <<arrays, channels, queue, closed>>
      PROVE  HotReloadInv'
  <2>1. PICK m : m = [notifier[n] EXCEPT !.at = end]
    OBVIOUS
  <2>2. m \in Notification /\ m.at # "sending" /\ Told(m)
    BY <1>0, <1>5, <2>1 DEF Notification
  <2>3. notifier' = [notifier EXCEPT ![n] = m]
    BY <1>5, <2>1
  <2> QED
    BY <1>0, <1>5, <2>2, <2>3, OneMoves
<1>6. ASSUME NEW n \in Notifier, SendPanics(n)
      PROVE  HotReloadInv'
  <2>1. PICK m : m = notifier[n]
    OBVIOUS
  <2>2. /\ m \in Notification /\ m.at = "sending" /\ Telling(m, arrays, channels, closed)
        /\ m.next \in 1..m.slice.len /\ arrays[m.slice.array][m.next] \in closed
    BY <1>0, <1>6, <2>1 DEF SendPanics, Receiver
  <2>3. m.disturbed
    <3>1. SUFFICES ASSUME ~m.disturbed PROVE FALSE
      OBVIOUS
    <3>2. m.audience = {arrays[m.slice.array][i] : i \in 1..m.slice.len} /\ m.audience \cap closed = {}
      BY <2>2, <3>1 DEF Telling
    <3> QED
      BY <2>2, <3>2
  <2>4. Told([m EXCEPT !.at = "panicked"])
    BY <2>2, <2>3 DEF Told, Notification
  <2> QED
    BY <1>5, <1>6, <2>1, <2>2, <2>4 DEF SendPanics
<1>7. ASSUME NEW n \in Notifier, NotificationDone(n)
      PROVE  HotReloadInv'
  <2>1. PICK m : m = notifier[n]
    OBVIOUS
  <2>2. /\ m \in Notification /\ m.at = "sending" /\ Telling(m, arrays, channels, closed)
        /\ m.next > m.slice.len /\ m.next \in 1..5 /\ m.slice.len \in 0..4
    BY <1>0, <1>7, <2>1 DEF NotificationDone
  <2>3. ~m.disturbed => ~m.again /\ m.told = m.audience \ m.full
    <3>1. 1..(m.next - 1) = 1..m.slice.len
      BY <2>2 DEF Telling
    <3>2. Passed(m, arrays) = {arrays[m.slice.array][i] : i \in 1..m.slice.len}
      BY <3>1 DEF Passed
    <3> QED
      BY <2>2, <3>2 DEF Telling
  <2>4. PICK m2 : m2 = [m EXCEPT !.at = "done"]
    OBVIOUS
  <2>5. /\ m2.at = "done" /\ m2.disturbed = m.disturbed /\ m2.again = m.again
        /\ m2.told = m.told /\ m2.audience = m.audience /\ m2.full = m.full
    BY <2>2, <2>4 DEF Notification
  <2>6. Told(m2)
    BY <2>3, <2>5 DEF Told
  <2> QED
    BY <1>5, <1>7, <2>1, <2>2, <2>4, <2>6 DEF NotificationDone
<1> QED
  BY <1>1, <1>2, <1>3, <1>4, <1>6, <1>7, Subscribes, Unsubscribes DEF HotReloadNext

LEMMA HotReloadStutters == HotReloadInv /\ UNCHANGED hotReloadVars => HotReloadInv'
  BY DEF HotReloadInv, hotReloadVars

LEMMA HotReloadGood == HotReloadInv => HotReloadTypeOK /\ ToldOnce
<1> SUFFICES ASSUME HotReloadInv PROVE HotReloadTypeOK /\ ToldOnce
  OBVIOUS
<1>1. HotReloadTypeOK
  <2>1. DOMAIN notifier = Notifier
        /\ \A n \in Notifier : /\ notifier[n].at \in {"idle", "sending", "done", "panicked"}
                               /\ notifier[n].slice \in Slice /\ notifier[n].next \in 1..5
                               /\ notifier[n].told \subseteq Subscriber
    BY DEF HotReloadInv, Notification
  <2>2. channels \in Slice /\ (channels.array # 0 => channels.len <= ArraySize[channels.array])
    BY DEF HotReloadInv, SliceHolds
  <2> QED
    BY <2>1, <2>2 DEF HotReloadInv, HotReloadTypeOK
<1>2. ToldOnce
  BY DEF HotReloadInv, Told, ToldOnce
<1> QED
  BY <1>1, <1>2

-----------------------------------------------------------------------------
(* The watcher of files. *)

\* A report under way is known to have been so while hot reload was on, if it is.
SeenWhileOn == enabled => \A r \in Reporter : reported[r] = "filtered" => r \in seenOn

WatchInv == WatchingTypeOK /\ SeenWhileOn /\ DisabledIsNotTold /\ DisabledIsNotWatched

LEMMA WatchStart == WatchingInit => WatchInv
  BY DEF WatchingInit, WatchInv, WatchingTypeOK, SeenWhileOn, DisabledIsNotTold, DisabledIsNotWatched

LEMMA WatchStep ==
    ASSUME WatchInv, WatchingNext
    PROVE  WatchInv'
<1>0. WatchingTypeOK /\ SeenWhileOn /\ DisabledIsNotTold /\ DisabledIsNotWatched
  BY DEF WatchInv
<1>1. CASE StartWatching \/ StopWatching
  <2>0. watcher' \in BOOLEAN /\ UNCHANGED <<enabled, updater, reported, byApi, seenOn>>
    BY <1>1 DEF StartWatching, StopWatching
  <2>1. WatchingTypeOK' /\ SeenWhileOn' /\ DisabledIsNotTold'
    BY <1>0, <2>0 DEF WatchingTypeOK, SeenWhileOn, DisabledIsNotTold
  <2>2. DisabledIsNotWatched'
    BY <1>0, <1>1 DEF StartWatching, StopWatching, DisabledIsNotWatched
  <2> QED
    BY <2>1, <2>2 DEF WatchInv
<1>2. ASSUME NEW value \in {"on", "off"}, SetConfig(value)
      PROVE  /\ enabled' \in BOOLEAN /\ (enabled' <=> value = "on") /\ seenOn' \subseteq Reporter
             /\ SeenWhileOn' /\ DisabledIsNotTold' /\ UNCHANGED <<watcher, reported>>
  BY <1>0, <1>2 DEF SetConfig, WatchingTypeOK, SeenWhileOn, DisabledIsNotTold
<1>3. ASSUME NEW value \in {"on", "off"}, SetHotReloadConfig(value)
      PROVE  WatchInv'
  <2>1. byApi' = TRUE /\ UNCHANGED updater /\ SetConfig(value)
    BY <1>3 DEF SetHotReloadConfig
  <2>2. WatchingTypeOK'
    BY <1>0, <1>2, <2>1 DEF WatchingTypeOK
  <2>3. DisabledIsNotWatched'
    BY <2>1 DEF DisabledIsNotWatched
  <2> QED
    BY <1>2, <2>1, <2>2, <2>3 DEF WatchInv
<1>4. ASSUME NEW u \in Updater, NEW value \in {"on", "off"}, BeginUpdate(u, value)
      PROVE  WatchInv'
  <2>1. byApi' = FALSE /\ SetConfig(value) /\ updater' = [updater EXCEPT ![u] = value]
    BY <1>4 DEF BeginUpdate
  <2>2. WatchingTypeOK' /\ updater'[u] = value
    BY <1>0, <1>2, <2>1 DEF WatchingTypeOK
  <2>3. DisabledIsNotWatched'
    BY <1>2, <2>1, <2>2 DEF DisabledIsNotWatched
  <2> QED
    BY <1>2, <2>1, <2>2, <2>3 DEF WatchInv
<1>5. ASSUME NEW u \in Updater, UpdateWatcherConfig(u)
      PROVE  WatchInv'
  <2>1. /\ WatchingTypeOK' /\ UNCHANGED <<enabled, byApi>>
        /\ \A w \in Updater : w # u => updater'[w] = updater[w]
    BY <1>0, <1>5 DEF UpdateWatcherConfig, WatchingTypeOK
  <2>2. watcher' => watcher /\ updater[u] = "on"
    BY <1>5 DEF UpdateWatcherConfig
  <2>3. SeenWhileOn' /\ DisabledIsNotTold'
    BY <1>0, <1>5 DEF UpdateWatcherConfig, SeenWhileOn, DisabledIsNotTold
  <2> QED
    BY <1>0, <2>1, <2>2, <2>3 DEF WatchInv, DisabledIsNotWatched
<1>6. ASSUME NEW r \in Reporter, ReportFileChange(r)
      PROVE  WatchInv'
  <2>1. /\ UNCHANGED <<enabled, watcher, updater, byApi>>
        /\ \A q \in Reporter : q # r => reported'[q] = reported[q] /\ (q \in seenOn => q \in seenOn')
        /\ reported'[r] \in {"filtered", "dropped"}
        /\ seenOn' \subseteq Reporter /\ (enabled => r \in seenOn')
        /\ reported' \in [Reporter -> {"idle", "filtered", "notified", "dropped"}]
    BY <1>0, <1>6 DEF ReportFileChange, WatchingTypeOK
  <2> QED
    BY <1>0, <2>1 DEF WatchInv, WatchingTypeOK, SeenWhileOn, DisabledIsNotTold,
                             DisabledIsNotWatched
<1>7. ASSUME NEW r \in Reporter, NotifyIfEnabled(r)
      PROVE  WatchInv'
  <2>1. PICK outcome \in {"dropped", "notified"} :
            Reported(r, outcome) /\ (outcome = "notified" => enabled)
    BY <1>7 DEF NotifyIfEnabled
  <2>2. /\ UNCHANGED <<enabled, watcher, updater, byApi, seenOn>>
        /\ reported[r] = "filtered" /\ reported' = [reported EXCEPT ![r] = outcome]
    BY <2>1 DEF Reported
  <2> QED
    BY <1>0, <2>1, <2>2 DEF WatchInv, WatchingTypeOK, SeenWhileOn, DisabledIsNotTold,
                             DisabledIsNotWatched
<1> QED
  BY <1>1, <1>3, <1>4, <1>5, <1>6, <1>7 DEF WatchingNext

LEMMA WatchStutters ==
    ASSUME WatchInv, UNCHANGED watchVars
    PROVE  WatchInv'
  BY DEF watchVars, WatchInv, WatchingTypeOK, SeenWhileOn, DisabledIsNotTold, DisabledIsNotWatched

-----------------------------------------------------------------------------
(* The versions of a template.  Until the first version is stored the        *)
(* template is as it was made, unless a later version was recorded; a        *)
(* version that is being made follows the number it was computed from.       *)

IsFirst(e) == template.number = First /\ template.content = editor[e].content
IsRecorded == [number |-> template.number, content |-> template.content] \in versions

TemplatesRest ==
    /\ template.state = "none" => versions = {} /\ \A e \in Editor : editor[e].at = "idle"
    /\ \A e \in Editor :
          /\ editor[e].at = "first" /\ template.state = "live" /\ ~unversioned
                => IsFirst(e) \/ IsRecorded
          /\ editor[e].at = "version" => Later(editor[e].number, editor[e].base)

TemplatesInv == TemplatesTypeOK /\ CurrentVersionIsRecorded /\ NextVersionIsFree /\ TemplatesRest

LEMMA NobodyTyped ==
    /\ First \in Number /\ Nobody.content \in Content /\ Nobody.at = "idle"
    /\ Nobody \in [at : {"idle", "first", "version"}, base : Number, number : Number, content : Content]
  BY MaxVersionsAssumption DEF First, Number, Nobody

\* The order of numbers.
LEMMA Numbers ==
    ASSUME NEW m \in Number, NEW n \in Number, NEW k \in Number
    PROVE  /\ ~Later(m, m) /\ ~Later(First, m)
           /\ Later(m, n) /\ ~Later(k, n) => ~Later(k, m)
           /\ \A bump \in Bump : Later(BumpVersion(m, bump), m)
<1>1. m.major \in Nat /\ m.minor \in Nat /\ m.patch \in Nat /\ m.major >= 1
      /\ n.major \in Nat /\ n.minor \in Nat /\ n.patch \in Nat
      /\ k.major \in Nat /\ k.minor \in Nat /\ k.patch \in Nat
  BY DEF Number
<1>2. ~Later(m, m) /\ ~Later(First, m)
  BY <1>1 DEF Later, First
<1>3. Later(m, n) /\ ~Later(k, n) => ~Later(k, m)
  BY <1>1 DEF Later
<1>4. ASSUME NEW bump \in Bump
      PROVE  Later(BumpVersion(m, bump), m)
  BY <1>1, MaxVersionsAssumption DEF Bump, BumpVersion, Later, Number
<1> QED
  BY <1>2, <1>3, <1>4

LEMMA TemplatesStart == TemplatesInit => TemplatesInv
<1> SUFFICES ASSUME TemplatesInit PROVE TemplatesInv
  OBVIOUS
<1>1. PICK n : n = Nobody
  OBVIOUS
<1>2. /\ n \in [at : {"idle", "first", "version"}, base : Number, number : Number, content : Content]
      /\ n.at = "idle" /\ n.content \in Content /\ First \in Number
  BY <1>1, NobodyTyped
<1>3. /\ template = [state |-> "none", number |-> First, content |-> n.content]
      /\ versions = {} /\ editor = [e \in Editor |-> n] /\ unversioned = FALSE /\ reordered = FALSE
  BY <1>1 DEF TemplatesInit
<1>4. template.state = "none" /\ \A e \in Editor : editor[e].at = "idle"
  BY <1>2, <1>3
<1>5. TemplatesTypeOK
  BY <1>2, <1>3 DEF TemplatesTypeOK
<1>6. CurrentVersionIsRecorded /\ NextVersionIsFree /\ TemplatesRest
  BY <1>3, <1>4 DEF CurrentVersionIsRecorded, NextVersionIsFree, TemplatesRest
<1> QED
  BY <1>5, <1>6 DEF TemplatesInv

LEMMA TemplatesStep ==
    ASSUME TemplatesInv, TemplatesNext
    PROVE  TemplatesInv'
<1> DEFINE Request == [at : {"idle", "first", "version"}, base : Number, number : Number, content : Content]
           Row == [state : {"none", "live", "deleted"}, number : Number, content : Content]
<1>0. /\ TemplatesTypeOK /\ CurrentVersionIsRecorded /\ NextVersionIsFree /\ TemplatesRest
      /\ template \in Row /\ versions \subseteq VersionRow /\ editor \in [Editor -> Request]
      /\ template.number \in Number /\ template.content \in Content
      /\ \A e \in Editor : editor[e] \in Request /\ editor[e].content \in Content
                           /\ editor[e].number \in Number /\ editor[e].base \in Number
      /\ \A v \in versions : v.number \in Number /\ v.content \in Content
      /\ unversioned \in BOOLEAN /\ reordered \in BOOLEAN
  BY DEF TemplatesInv, TemplatesTypeOK, VersionRow
<1>1. ASSUME NEW e \in Editor, NEW c \in Content, Create(e, c)
      PROVE  TemplatesInv'
  <2>1. PICK n : n = [Nobody EXCEPT !.at = "first", !.content = c]
    OBVIOUS
  <2>2. n \in Request /\ n.at = "first" /\ n.content = c
    BY <2>1, NobodyTyped
  <2>3. /\ template' = [state |-> "live", number |-> First, content |-> c]
        /\ editor' = [editor EXCEPT ![e] = n] /\ UNCHANGED <<versions, unversioned, reordered>>
        /\ versions = {} /\ \A f \in Editor : editor[f].at = "idle"
    BY <1>0, <1>1, <2>1 DEF Create, TemplatesRest
  <2>4. template' \in Row /\ editor' \in [Editor -> Request]
        /\ editor'[e] = n /\ \A f \in Editor : f # e => editor'[f] = editor[f]
    BY <1>0, <2>2, <2>3, NobodyTyped
  <2>5. TemplatesTypeOK'
    BY <1>0, <2>3, <2>4 DEF TemplatesTypeOK
  <2>6. CurrentVersionIsRecorded' /\ NextVersionIsFree'
    BY <2>2, <2>3, <2>4 DEF CurrentVersionIsRecorded, NextVersionIsFree
  <2>7. TemplatesRest'
    BY <2>2, <2>3, <2>4 DEF TemplatesRest, IsFirst
  <2> QED
    BY <2>5, <2>6, <2>7 DEF TemplatesInv
<1>2. ASSUME NEW e \in Editor, NEW stored \in BOOLEAN, CreateFirstVersion(e, stored)
      PROVE  TemplatesInv'
  <2>1. PICK row : row = [number |-> First, content |-> editor[e].content]
    OBVIOUS
  <2>2. PICK new \in BOOLEAN : new = (template.state = "live" /\ \A v \in versions : v.number # First)
    OBVIOUS
  <2>3. /\ versions' = (IF stored /\ new THEN versions \cup {row} ELSE versions)
        /\ unversioned' = (unversioned \/ ~(stored /\ new))
        /\ editor' = [editor EXCEPT ![e] = Nobody]
        /\ UNCHANGED <<template, reordered>> /\ editor[e].at = "first"
    BY <1>2, <2>1, <2>2 DEF CreateFirstVersion
  <2>4. row \in VersionRow /\ row.number = First
    BY <1>0, <2>1, NobodyTyped DEF VersionRow
  <2>5. /\ editor' \in [Editor -> Request] /\ editor'[e].at = "idle"
        /\ \A f \in Editor : f # e => editor'[f] = editor[f]
    BY <1>0, <2>3, NobodyTyped
  <2>6. TemplatesTypeOK'
    BY <1>0, <2>3, <2>4, <2>5 DEF TemplatesTypeOK
  <2>7. template.state = "live" /\ ~unversioned' => IsRecorded'
    <3> SUFFICES ASSUME template.state = "live", ~unversioned' PROVE IsRecorded'
      OBVIOUS
    <3>1. ~unversioned /\ versions' = versions \cup {row} /\ UNCHANGED template
      BY <2>3
    <3>2. IsFirst(e) \/ IsRecorded
      BY <1>0, <2>3, <3>1 DEF TemplatesRest
    <3> QED
      BY <2>1, <3>1, <3>2 DEF IsFirst, IsRecorded
  <2>8. CurrentVersionIsRecorded'
    BY <2>3, <2>7 DEF CurrentVersionIsRecorded, IsRecorded
  <2>9. NextVersionIsFree'
    <3>1. ~Later(First, template.number)
      BY <1>0, Numbers
    <3> QED
      BY <1>0, <2>3, <2>4, <3>1 DEF NextVersionIsFree
  <2>10. TemplatesRest'
    <3>1. template.state # "none"
      BY <1>0, <2>3 DEF TemplatesRest
    <3>2. \A f \in Editor : editor'[f].at = "version" => editor'[f] = editor[f]
      BY <2>5
    <3> QED
      BY <1>0, <2>3, <2>7, <3>1, <3>2 DEF TemplatesRest
  <2> QED
    BY <2>6, <2>8, <2>9, <2>10 DEF TemplatesInv
<1>3. ASSUME NEW c \in Content, Update(c)
      PROVE  TemplatesInv'
  <2>1. /\ template.state = "live" /\ template' \in Row
        /\ template'.state = "live" /\ template'.number = template.number
        /\ unversioned' = TRUE /\ UNCHANGED <<versions, editor, reordered>>
    BY <1>0, <1>3 DEF Update
  <2>2. TemplatesTypeOK'
    BY <1>0, <2>1 DEF TemplatesTypeOK
  <2> QED
    BY <1>0, <2>1, <2>2 DEF TemplatesInv, CurrentVersionIsRecorded, NextVersionIsFree, TemplatesRest
<1>4. ASSUME NEW e \in Editor, NEW bump \in Bump, NEW c \in Content, ReadForVersion(e, bump, c)
      PROVE  TemplatesInv'
  <2>1. PICK n : n = [at |-> "version", base |-> template.number,
                      number |-> BumpVersion(template.number, bump), content |-> c]
    OBVIOUS
  <2>2. /\ editor[e].at = "idle" /\ editor' = [editor EXCEPT ![e] = n]
        /\ BumpVersion(template.number, bump) \in Number
        /\ template.state = "live" /\ UNCHANGED <<template, versions, unversioned, reordered>>
    BY <1>4, <2>1 DEF ReadForVersion, Start
  <2>3. n \in Request /\ n.at = "version" /\ n.base = template.number
        /\ n.number = BumpVersion(template.number, bump)
    BY <1>0, <2>1, <2>2
  <2>4. /\ editor' \in [Editor -> Request] /\ editor'[e] = n
        /\ \A f \in Editor : f # e => editor'[f] = editor[f]
    BY <1>0, <2>2, <2>3
  <2>5. Later(n.number, n.base)
    BY <1>0, <2>3, Numbers
  <2>6. TemplatesTypeOK'
    BY <1>0, <2>2, <2>4 DEF TemplatesTypeOK
  <2>7. CurrentVersionIsRecorded' /\ NextVersionIsFree'
    BY <1>0, <2>2, <2>4 DEF CurrentVersionIsRecorded, NextVersionIsFree
  <2>8. TemplatesRest'
    <3>1. ASSUME NEW f \in Editor
          PROVE  /\ editor'[f].at = "first" /\ template.state = "live" /\ ~unversioned
                       => IsFirst(f)' \/ IsRecorded'
                 /\ editor'[f].at = "version" => Later(editor'[f].number, editor'[f].base)
      <4>1. CASE f = e
        BY <2>3, <2>4, <2>5, <4>1
      <4>2. CASE f # e
        <5>1. editor'[f] = editor[f]
          BY <2>4, <4>2
        <5> QED
          BY <1>0, <2>2, <5>1 DEF TemplatesRest, IsFirst, IsRecorded
      <4> QED
        BY <4>1, <4>2
    <3> QED
      BY <2>2, <3>1 DEF TemplatesRest
  <2> QED
    BY <2>6, <2>7, <2>8 DEF TemplatesInv
<1>5. ASSUME NEW e \in Editor, CreateVersion(e)
      PROVE  TemplatesInv'
  <2>1. PICK row : row = [number |-> editor[e].number, content |-> editor[e].content]
    OBVIOUS
  <2>2. /\ editor[e].at = "version" /\ template.state = "live" /\ versions' = versions \cup {row}
        /\ template' = [template EXCEPT !.number = editor[e].number, !.content = editor[e].content]
        /\ unversioned' = FALSE
        /\ reordered' = (reordered \/ editor[e].base # template.number)
        /\ editor' = [editor EXCEPT ![e] = Nobody]
    BY <1>5, <2>1 DEF CreateVersion
  <2>3. row \in VersionRow /\ row.number = editor[e].number /\ row.content = editor[e].content
    BY <1>0, <2>1 DEF VersionRow
  <2>4. /\ editor' \in [Editor -> Request] /\ editor'[e].at = "idle"
        /\ \A f \in Editor : f # e => editor'[f] = editor[f]
    BY <1>0, <2>2, NobodyTyped
  <2>5. template' \in Row /\ template'.state = "live" /\ template'.number = row.number
        /\ template'.content = row.content
    BY <1>0, <2>2, <2>3
  <2>6. TemplatesTypeOK'
    BY <1>0, <2>2, <2>3, <2>4, <2>5 DEF TemplatesTypeOK
  <2>7. IsRecorded'
    BY <2>1, <2>2, <2>3, <2>5 DEF IsRecorded
  <2>8. NextVersionIsFree'
    <3> SUFFICES ASSUME ~reordered', NEW v \in versions' PROVE ~Later(v.number, template'.number)
      BY DEF NextVersionIsFree
    <3>1. Later(row.number, template.number) /\ ~reordered
      BY <1>0, <2>2, <2>3 DEF TemplatesRest
    <3>2. CASE v = row
      BY <1>0, <2>3, <2>5, <3>2, Numbers
    <3>3. CASE v \in versions
      <4>1. ~Later(v.number, template.number) /\ v.number \in Number /\ row.number \in Number
        BY <1>0, <2>2, <2>3, <3>1, <3>3 DEF NextVersionIsFree
      <4> QED
        BY <1>0, <2>5, <3>1, <4>1, Numbers
    <3> QED
      BY <2>2, <3>2, <3>3
  <2>9. TemplatesRest'
    <3>1. \A f \in Editor : editor'[f].at = "version" => editor'[f] = editor[f]
      BY <2>4
    <3> QED
      BY <1>0, <2>5, <2>7, <3>1 DEF TemplatesRest
  <2> QED
    BY <2>6, <2>7, <2>8, <2>9 DEF TemplatesInv, CurrentVersionIsRecorded, IsRecorded
<1>6. ASSUME NEW e \in Editor, CreateVersionFails(e)
      PROVE  TemplatesInv'
  <2>1. /\ editor' = [editor EXCEPT ![e] = Nobody] /\ editor[e].at = "version"
        /\ UNCHANGED <<template, versions, unversioned, reordered>>
    BY <1>6 DEF CreateVersionFails
  <2>2. /\ editor' \in [Editor -> Request] /\ editor'[e].at = "idle"
        /\ \A f \in Editor : f # e => editor'[f] = editor[f]
    BY <1>0, <2>1, NobodyTyped
  <2>3. TemplatesTypeOK'
    BY <1>0, <2>1, <2>2 DEF TemplatesTypeOK
  <2>4. CurrentVersionIsRecorded' /\ NextVersionIsFree'
    <3>1. \A f \in Editor : editor[f].at = "first" => f # e
      BY <2>1
    <3> QED
      BY <1>0, <2>1, <2>2, <3>1 DEF CurrentVersionIsRecorded, NextVersionIsFree
  <2>5. TemplatesRest'
    <3>1. \A f \in Editor : editor'[f].at # "idle" => editor'[f] = editor[f]
      BY <2>2
    <3>2. template.state # "none"
      BY <1>0, <2>1 DEF TemplatesRest
    <3> QED
      BY <1>0, <2>1, <2>2, <3>1, <3>2 DEF TemplatesRest, IsFirst, IsRecorded
  <2> QED
    BY <2>3, <2>4, <2>5 DEF TemplatesInv
<1>7. CASE DeleteTemplate
  <2>1. /\ template' \in Row /\ template'.state = "deleted" /\ versions' = {}
        /\ UNCHANGED <<editor, unversioned, reordered>>
    BY <1>0, <1>7 DEF DeleteTemplate
  <2>2. TemplatesTypeOK'
    BY <1>0, <2>1 DEF TemplatesTypeOK
  <2> QED
    BY <1>0, <2>1, <2>2 DEF TemplatesInv, CurrentVersionIsRecorded, NextVersionIsFree, TemplatesRest
<1>8. ASSUME NEW e \in Editor, NEW v \in versions, ReadForRollback(e, v)
      PROVE  TemplatesInv'
  <2>1. v.content \in Content /\ "patch" \in Bump /\ ReadForVersion(e, "patch", v.content)
    BY <1>0, <1>8 DEF ReadForRollback, Bump
  <2> QED
    BY <1>4, <2>1
<1> QED
  BY <1>1, <1>2, <1>3, <1>4, <1>5, <1>6, <1>7, <1>8 DEF TemplatesNext

LEMMA TemplatesStutter ==
    ASSUME TemplatesInv, UNCHANGED templateVars
    PROVE  TemplatesInv'
  BY DEF templateVars, TemplatesInv, TemplatesTypeOK, CurrentVersionIsRecorded, NextVersionIsFree,
     TemplatesRest, IsFirst, IsRecorded

-----------------------------------------------------------------------------
(* The versions of a configuration.  Their numbers increase and are none     *)
(* above the last given; what a save compared with is not what it will       *)
(* save.  What is picked from the list in its order keeps this.              *)

ConfigRow == [num : VersionNumber, config : Config, sum : Config \cup {NoSum}]
SaveRow == [config : Config, last : 0..MaxNumber, busy : BOOLEAN]

InOrder(s) == \A i, j \in DOMAIN s : i < j => s[i].num < s[j].num

Alike(s, but) ==
    \E i, j \in DOMAIN s : s[j].num = s[i].num + 1 /\ s[j].num \notin but /\ s[i].sum = s[j].config

ComparedWith(s, m) == m.busy => \A i \in DOMAIN s : s[i].num = m.last => s[i].sum # m.config

PickedFrom(s, t) ==
    \A i, j \in DOMAIN s : i <= j => \E k, l \in DOMAIN t : s[i] = t[k] /\ s[j] = t[l] /\ (i < j => k < l)

ConfigInv ==
    /\ configVersions \in Seq(ConfigRow) /\ latestVersion \in 0..MaxNumber
    /\ saver \in [Saver -> SaveRow] /\ unchecked \subseteq VersionNumber
    /\ InOrder(configVersions) /\ \A i \in DOMAIN configVersions : configVersions[i].num <= latestVersion
    /\ ~Alike(configVersions, unchecked)
    /\ \A p \in Saver : saver[p].last <= latestVersion /\ ComparedWith(configVersions, saver[p])

LEMMA NoSaveTyped == NoSave \in SaveRow /\ NoSave.last = 0 /\ ~NoSave.busy
  BY ConfigAssumption DEF NoSave, SaveRow

LEMMA ConfigStart == ConfigInit => ConfigInv
<1> SUFFICES ASSUME ConfigInit PROVE ConfigInv
  OBVIOUS
<1>1. PICK m : m = NoSave
  OBVIOUS
<1>2. m \in SaveRow /\ m.last = 0 /\ ~m.busy /\ saver = [p \in Saver |-> m]
  BY <1>1, NoSaveTyped DEF ConfigInit
<1>3. configVersions \in Seq(ConfigRow) /\ DOMAIN configVersions = {} /\ latestVersion = 0 /\ unchecked = {}
  BY DEF ConfigInit
<1>4. latestVersion \in 0..MaxNumber /\ unchecked \subseteq VersionNumber /\ saver \in [Saver -> SaveRow]
  BY <1>2, <1>3, ConfigAssumption
<1>5. InOrder(configVersions) /\ ~Alike(configVersions, unchecked)
  BY <1>3 DEF InOrder, Alike
<1>6. \A p \in Saver : saver[p].last <= latestVersion /\ ComparedWith(configVersions, saver[p])
  BY <1>2, <1>3 DEF ComparedWith
<1> QED
  BY <1>3, <1>4, <1>5, <1>6 DEF ConfigInv

LEMMA NumbersTyped ==
    ASSUME NEW s \in Seq(ConfigRow)
    PROVE  /\ DOMAIN s = 1..Len(s) /\ Len(s) \in Nat
           /\ \A i \in DOMAIN s : s[i] \in ConfigRow /\ s[i].num \in Nat /\ s[i].num \in VersionNumber
                                  /\ s[i].config \in Config /\ i \in Nat
<1>1. \A r \in ConfigRow : r.num \in Nat /\ r.num \in VersionNumber /\ r.config \in Config
  BY ConfigAssumption DEF ConfigRow, VersionNumber
<1>2. DOMAIN s = 1..Len(s) /\ Len(s) \in Nat /\ \A i \in DOMAIN s : s[i] \in ConfigRow /\ i \in Nat
  OBVIOUS
<1> QED
  BY <1>1, <1>2

\* What is picked keeps the order and what was compared.
LEMMA PickedKeeps ==
    ASSUME NEW s \in Seq(ConfigRow), NEW t \in Seq(ConfigRow), PickedFrom(s, t), InOrder(t),
           NEW latest, \A i \in DOMAIN t : t[i].num <= latest, NEW but, ~Alike(t, but)
    PROVE  /\ InOrder(s) /\ (\A i \in DOMAIN s : s[i].num <= latest) /\ ~Alike(s, but)
           /\ \A m : ComparedWith(t, m) => ComparedWith(s, m)
<1>1. /\ \A i \in DOMAIN s : s[i].num \in Nat /\ i \in Nat
      /\ \A i \in DOMAIN t : t[i].num \in Nat /\ i \in Nat
  BY NumbersTyped
<1>2. \A i \in DOMAIN s : \E k \in DOMAIN t : s[i] = t[k]
  BY <1>1 DEF PickedFrom
<1>3. InOrder(s)
  <2>1. ASSUME NEW i \in DOMAIN s, NEW j \in DOMAIN s, i < j
        PROVE  s[i].num < s[j].num
    <3>1. i <= j
      BY <1>1, <2>1
    <3>2. PICK k, l \in DOMAIN t : s[i] = t[k] /\ s[j] = t[l] /\ (i < j => k < l)
      BY <3>1 DEF PickedFrom
    <3> QED
      BY <2>1, <3>2 DEF InOrder
  <2> QED
    BY <2>1 DEF InOrder
<1>4. ~Alike(s, but)
  <2>1. ASSUME NEW i \in DOMAIN s, NEW j \in DOMAIN s
        PROVE  \E k, l \in DOMAIN t : s[i] = t[k] /\ s[j] = t[l]
    BY <1>2
  <2> QED
    BY <2>1 DEF Alike
<1>5. \A i \in DOMAIN s : s[i].num <= latest
  BY <1>2
<1>6. ASSUME NEW m, ComparedWith(t, m)
      PROVE  ComparedWith(s, m)
  BY <1>2, <1>6 DEF ComparedWith
<1> QED
  BY <1>3, <1>4, <1>5, <1>6

\* A version that is appended.
LEMMA AppendedKeeps ==
    ASSUME NEW t \in Seq(ConfigRow), InOrder(t), NEW latest \in Nat,
           \A i \in DOMAIN t : t[i].num <= latest, NEW but, ~Alike(t, but),
           NEW r \in ConfigRow, r.num = latest + 1, NEW but2, but \subseteq but2,
           r.num \in but2 \/ \A i \in DOMAIN t : t[i].num = latest => t[i].sum # r.config
    PROVE  /\ Append(t, r) \in Seq(ConfigRow) /\ InOrder(Append(t, r)) /\ ~Alike(Append(t, r), but2)
           /\ \A i \in DOMAIN Append(t, r) : Append(t, r)[i].num <= latest + 1
           /\ \A m \in SaveRow : m.last <= latest /\ ComparedWith(t, m) => ComparedWith(Append(t, r), m)
<1>1. PICK s : s = Append(t, r)
  OBVIOUS
<1>2. /\ s \in Seq(ConfigRow) /\ DOMAIN t = 1..Len(t) /\ DOMAIN s = 1..(Len(t) + 1) /\ Len(t) \in Nat
      /\ s[Len(t) + 1] = r /\ \A i \in 1..Len(t) : s[i] = t[i] /\ t[i].num \in Nat
  BY <1>1, NumbersTyped
<1>3. ASSUME NEW i \in DOMAIN s
      PROVE  \/ i = Len(t) + 1 /\ s[i] = r
             \/ i \in DOMAIN t /\ s[i] = t[i] /\ t[i].num \in Nat /\ t[i].num <= latest /\ i < Len(t) + 1
  BY <1>2
<1>4. InOrder(s)
  <2>1. ASSUME NEW i \in DOMAIN s, NEW j \in DOMAIN s, i < j
        PROVE  s[i].num < s[j].num
    <3>1. i \in DOMAIN t /\ s[i] = t[i] /\ t[i].num \in Nat /\ t[i].num <= latest
      BY <1>2, <1>3, <2>1
    <3> QED
      BY <1>3, <2>1, <3>1 DEF InOrder
  <2> QED
    BY <2>1 DEF InOrder
<1>5. ~Alike(s, but2)
  <2>1. ASSUME NEW i \in DOMAIN s, NEW j \in DOMAIN s,
               s[j].num = s[i].num + 1, s[j].num \notin but2, s[i].sum = s[j].config
        PROVE  FALSE
    <3>1. CASE j = Len(t) + 1
      <4>1. s[j] = r /\ s[i].num = latest
        BY <1>3, <2>1, <3>1, <1>2
      <4>2. i \in DOMAIN t /\ s[i] = t[i]
        BY <1>3, <4>1
      <4> QED
        BY <2>1, <4>1, <4>2
    <3>2. CASE j # Len(t) + 1
      <4>1. j \in DOMAIN t /\ s[j] = t[j] /\ t[j].num \in Nat /\ t[j].num <= latest
        BY <1>3, <3>2
      <4>2. i \in DOMAIN t /\ s[i] = t[i]
        BY <1>3, <2>1, <4>1
      <4> QED
        BY <2>1, <4>1, <4>2 DEF Alike
    <3> QED
      BY <3>1, <3>2
  <2> QED
    BY <2>1 DEF Alike
<1>6. \A i \in DOMAIN s : s[i].num <= latest + 1
  BY <1>3
<1>7. ASSUME NEW m \in SaveRow, m.last <= latest, ComparedWith(t, m)
      PROVE  ComparedWith(s, m)
  <2>1. m.last \in Nat
    BY ConfigAssumption DEF SaveRow
  <2>2. \A i \in DOMAIN s : s[i].num = m.last => i \in DOMAIN t /\ s[i] = t[i]
    BY <1>3, <1>7, <2>1
  <2> QED
    BY <1>7, <2>2 DEF ComparedWith
<1> QED
  BY <1>1, <1>2, <1>4, <1>5, <1>6, <1>7

LEMMA TrimPicks ==
    ASSUME NEW s \in Seq(ConfigRow)
    PROVE  Trim(s) \in Seq(ConfigRow) /\ PickedFrom(Trim(s), s)
<1>0. VersionLimit \in Nat /\ Len(s) \in Nat /\ VersionLimit >= 1 /\ DOMAIN s = 1..Len(s)
  BY ConfigAssumption
<1>1. CASE ~(Len(s) > VersionLimit)
  <2>1. Trim(s) = s
    BY <1>1 DEF Trim
  <2>2. PickedFrom(s, s)
    BY DEF PickedFrom
  <2> QED
    BY <2>1, <2>2
<1>2. CASE Len(s) > VersionLimit
  <2>1. PICK n : n = Len(s) - VersionLimit
    OBVIOUS
  <2>2. n \in Nat /\ n + 1 \in Int /\ n < Len(s) /\ Len(s) - n = VersionLimit
    BY <1>0, <1>2, <2>1
  <2>3. PICK g : g = SubSeq(s, n + 1, Len(s))
    OBVIOUS
  <2>4. /\ g \in Seq(ConfigRow) /\ Len(g) = Len(s) - (n + 1) + 1
        /\ \A i \in 1..(Len(s) - (n + 1) + 1) : g[i] = s[(n + 1) + i - 1]
    <3>1. \A i \in (n + 1)..Len(s) : s[i] \in ConfigRow
      BY <2>2
    <3>2. n + 1 <= Len(s) /\ Len(s) \in Int
      BY <2>2, <1>0
    <3> QED
      BY <2>2, <2>3, <3>1, <3>2, SubSeqProperties
  <2>5. DOMAIN g = 1..(Len(s) - n)
    BY <2>2, <2>4, <1>0
  <2>6. ASSUME NEW i \in DOMAIN g
        PROVE  n + i \in DOMAIN s /\ g[i] = s[n + i]
    <3>1. i \in 1..(Len(s) - (n + 1) + 1) /\ (n + 1) + i - 1 = n + i /\ n + i \in 1..Len(s)
      BY <1>0, <2>2, <2>5
    <3> QED
      BY <1>0, <2>4, <3>1
  <2>7. PickedFrom(g, s)
    <3>1. ASSUME NEW i \in DOMAIN g, NEW j \in DOMAIN g
          PROVE  \E k, l \in DOMAIN s : g[i] = s[k] /\ g[j] = s[l] /\ (i < j => k < l)
      <4>1. i < j => n + i < n + j
        BY <2>2, <2>5
      <4> QED
        BY <2>6, <4>1
    <3> QED
      BY <3>1 DEF PickedFrom
  <2>8. Trim(s) = g
    BY <1>2, <2>1, <2>3 DEF Trim
  <2> QED
    BY <2>4, <2>7, <2>8
<1> QED
  BY <1>1, <1>2

LEMMA RemovalPicks ==
    ASSUME NEW s \in Seq(ConfigRow), NEW i \in DOMAIN s
    PROVE  RemoveAt(s, i) \in Seq(ConfigRow) /\ PickedFrom(RemoveAt(s, i), s)
<1>0. Len(s) \in Nat /\ DOMAIN s = 1..Len(s) /\ i \in 1..Len(s)
  OBVIOUS
<1>1. PICK f, g : f = SubSeq(s, 1, i - 1) /\ g = SubSeq(s, i + 1, Len(s))
  OBVIOUS
<1>2. /\ f \in Seq(ConfigRow) /\ Len(f) = i - 1 /\ \A k \in 1..(i - 1) : f[k] = s[k]
  <2>1. /\ f \in Seq(ConfigRow) /\ Len(f) = (IF 1 <= i - 1 THEN (i - 1) - 1 + 1 ELSE 0)
        /\ \A k \in 1..((i - 1) - 1 + 1) : f[k] = s[1 + k - 1]
    <3>1. 1 \in Int /\ i - 1 \in Int /\ \A k \in 1..(i - 1) : s[k] \in ConfigRow
      BY <1>0
    <3> QED
      BY <1>1, <3>1, SubSeqProperties
  <2>2. \A k \in 1..(i - 1) : k \in 1..((i - 1) - 1 + 1) /\ 1 + k - 1 = k
    BY <1>0
  <2> QED
    BY <1>0, <2>1, <2>2
<1>3. /\ g \in Seq(ConfigRow) /\ Len(g) = Len(s) - i /\ \A k \in 1..(Len(s) - i) : g[k] = s[i + k]
  <2>1. /\ g \in Seq(ConfigRow) /\ Len(g) = (IF i + 1 <= Len(s) THEN Len(s) - (i + 1) + 1 ELSE 0)
        /\ \A k \in 1..(Len(s) - (i + 1) + 1) : g[k] = s[(i + 1) + k - 1]
    <3>1. i + 1 \in Int /\ Len(s) \in Int /\ \A k \in (i + 1)..Len(s) : s[k] \in ConfigRow
      BY <1>0
    <3> QED
      BY <1>1, <3>1, SubSeqProperties
  <2>2. \A k \in 1..(Len(s) - i) : k \in 1..(Len(s) - (i + 1) + 1) /\ (i + 1) + k - 1 = i + k
    BY <1>0
  <2> QED
    BY <1>0, <2>1, <2>2
<1>4. PICK h : h = f \o g
  OBVIOUS
<1>5. /\ h \in Seq(ConfigRow) /\ DOMAIN h = 1..(Len(s) - 1)
      /\ \A k \in 1..(Len(s) - 1) : h[k] = IF k <= i - 1 THEN f[k] ELSE g[k - (i - 1)]
  <2>1. h \in Seq(ConfigRow) /\ Len(h) = Len(f) + Len(g)
        /\ \A k \in 1..(Len(f) + Len(g)) : h[k] = IF k <= Len(f) THEN f[k] ELSE g[k - Len(f)]
    BY <1>2, <1>3, <1>4, ConcatProperties
  <2>2. Len(f) + Len(g) = Len(s) - 1
    BY <1>0, <1>2, <1>3
  <2> QED
    BY <1>2, <2>1, <2>2
<1>6. ASSUME NEW k \in DOMAIN h
      PROVE  \E n \in DOMAIN s : h[k] = s[n] /\ n = (IF k < i THEN k ELSE k + 1)
  <2>1. CASE k < i
    <3>1. k \in 1..(i - 1) /\ k \in DOMAIN s
      BY <1>0, <1>5, <2>1
    <3> QED
      BY <2>1, <3>1, <1>2, <1>5
  <2>2. CASE ~(k < i)
    <3>1. k - (i - 1) \in 1..(Len(s) - i) /\ k + 1 \in DOMAIN s /\ i + (k - (i - 1)) = k + 1 /\ ~(k <= i - 1)
      BY <1>0, <1>5, <2>2
    <3>2. h[k] = s[k + 1]
      BY <3>1, <1>3, <1>5
    <3> QED
      BY <2>2, <3>1, <3>2
  <2> QED
    BY <2>1, <2>2
<1>7. PickedFrom(h, s)
  <2>1. ASSUME NEW k \in DOMAIN h, NEW l \in DOMAIN h
        PROVE  \E m, n \in DOMAIN s : h[k] = s[m] /\ h[l] = s[n] /\ (k < l => m < n)
    <3>1. PICK m \in DOMAIN s : h[k] = s[m] /\ m = (IF k < i THEN k ELSE k + 1)
      BY <1>6
    <3>2. PICK n \in DOMAIN s : h[l] = s[n] /\ n = (IF l < i THEN l ELSE l + 1)
      BY <1>6
    <3>3. k < l => m < n
      BY <1>0, <1>5, <3>1, <3>2
    <3> QED
      BY <3>1, <3>2, <3>3
  <2> QED
    BY <2>1 DEF PickedFrom
<1>8. RemoveAt(s, i) = h
  BY <1>1, <1>4 DEF RemoveAt
<1> QED
  BY <1>5, <1>7, <1>8

LEMMA ConfigTyped ==
    ASSUME ConfigInv
    PROVE  /\ configVersions \in Seq(ConfigRow) /\ latestVersion \in Nat /\ latestVersion <= MaxNumber
           /\ saver \in [Saver -> SaveRow] /\ unchecked \subseteq VersionNumber
           /\ InOrder(configVersions) /\ (\A i \in DOMAIN configVersions : configVersions[i].num <= latestVersion)
           /\ ~Alike(configVersions, unchecked)
           /\ \A p \in Saver : /\ saver[p].last <= latestVersion /\ ComparedWith(configVersions, saver[p])
                               /\ saver[p] \in SaveRow /\ saver[p].config \in Config
           /\ DOMAIN configVersions = 1..Len(configVersions) /\ Len(configVersions) \in Nat
           /\ \A i \in DOMAIN configVersions : configVersions[i] \in ConfigRow /\ configVersions[i].num \in Nat
  BY ConfigAssumption, NumbersTyped DEF ConfigInv, SaveRow

\* The list becomes another that keeps what the list has to.
LEMMA ListMoves ==
    ASSUME ConfigInv, configVersions' \in Seq(ConfigRow), latestVersion' \in 0..MaxNumber,
           latestVersion <= latestVersion', unchecked' \subseteq VersionNumber,
           InOrder(configVersions'), \A i \in DOMAIN configVersions' : configVersions'[i].num <= latestVersion',
           ~Alike(configVersions', unchecked'),
           \A m \in SaveRow : m.last <= latestVersion /\ ComparedWith(configVersions, m)
                                 => ComparedWith(configVersions', m),
           \/ UNCHANGED saver
           \/ \E p \in Saver : saver' = [saver EXCEPT ![p] = NoSave]
    PROVE  ConfigInv'
<1>1. ConfigTyped!2
  BY ConfigTyped
<1>2. PICK none : none = NoSave
  OBVIOUS
<1>3. none \in SaveRow /\ none.last = 0 /\ ~none.busy
  BY <1>2, NoSaveTyped
<1>4. ASSUME NEW q \in Saver
      PROVE  saver'[q] = saver[q] \/ saver'[q] = none
  BY <1>1, <1>2
<1>5. saver' \in [Saver -> SaveRow]
  BY <1>1, <1>2, <1>3
<1>6. ASSUME NEW q \in Saver
      PROVE  saver'[q].last <= latestVersion' /\ ComparedWith(configVersions', saver'[q])
  <2>1. CASE saver'[q] = saver[q]
    <3>1. saver[q].last \in Nat /\ latestVersion' \in Nat
      BY <1>1, ConfigAssumption DEF SaveRow
    <3> QED
      BY <1>1, <2>1, <3>1
  <2>2. CASE saver'[q] = none
    BY <1>3, <2>2 DEF ComparedWith
  <2> QED
    BY <1>4, <2>1, <2>2
<1> QED
  BY <1>5, <1>6 DEF ConfigInv

LEMMA ConfigStep ==
    ASSUME ConfigInv, ConfigNext
    PROVE  ConfigInv'
<1>1. ConfigTyped!2
  BY ConfigTyped
<1>2. ASSUME NEW p \in Saver, NEW c \in Config, CheckChanged(p, c)
      PROVE  ConfigInv'
  <2>1. PICK m : m = [config |-> c, last |-> LastNumber, busy |-> TRUE]
    OBVIOUS
  <2>2. LastNumber \in Nat /\ LastNumber <= latestVersion
        /\ \A i \in DOMAIN configVersions : configVersions[i].num = LastNumber => configVersions[i].sum # c
    <3>1. CASE configVersions = <<>>
      <4>1. DOMAIN configVersions = {}
        BY <3>1
      <4> QED
        BY <1>1, <3>1, <4>1 DEF LastNumber
    <3>2. CASE configVersions # <<>>
      <4>1. PICK n : n = Len(configVersions)
        OBVIOUS
      <4>2. n \in DOMAIN configVersions
        BY <1>1, <3>2, <4>1, EmptySeq
      <4>3. LastNumber = configVersions[n].num /\ LastSum = configVersions[n].sum
        BY <3>2, <4>1 DEF LastNumber, LastSum, Last
      <4>4. \A i \in DOMAIN configVersions : i # n => i < n
        BY <1>1, <4>1
      <4>5. \A i \in DOMAIN configVersions : configVersions[i].num = LastNumber => i = n
        BY <1>1, <4>2, <4>3, <4>4 DEF InOrder
      <4>6. configVersions[n].sum # c
        BY <1>2, <4>3 DEF CheckChanged
      <4> QED
        BY <1>1, <4>2, <4>3, <4>5, <4>6
    <3> QED
      BY <3>1, <3>2
  <2>3. m \in SaveRow /\ m.last <= latestVersion /\ ComparedWith(configVersions, m)
    <3>1. LastNumber \in 0..MaxNumber
      BY <1>1, <2>2, ConfigAssumption
    <3> QED
      BY <2>1, <2>2, <3>1 DEF SaveRow, ComparedWith
  <2>4. saver' = [saver EXCEPT ![p] = m] /\ UNCHANGED <<configVersions, latestVersion, unchecked>>
    BY <1>2, <2>1 DEF CheckChanged
  <2>5. saver' \in [Saver -> SaveRow] /\ \A q \in Saver : saver'[q] = m \/ saver'[q] = saver[q]
    BY <1>1, <2>3, <2>4
  <2> QED
    BY <1>1, <2>3, <2>4, <2>5 DEF ConfigInv
<1>3. ASSUME NEW c \in Config, NEW sum \in Config \cup {NoSum}, NEW limit \in BOOLEAN,
             AppendVersion(c, sum, limit),
             unchecked \subseteq unchecked', unchecked' \subseteq unchecked \cup {NextNumber},
             \/ NextNumber \in unchecked'
             \/ \A i \in DOMAIN configVersions :
                   configVersions[i].num = latestVersion => configVersions[i].sum # c,
             \/ UNCHANGED saver
             \/ \E p \in Saver : saver' = [saver EXCEPT ![p] = NoSave]
      PROVE  ConfigInv'
  <2>1. PICK r, but, k : r = [num |-> NextNumber, config |-> c, sum |-> sum] /\ but = unchecked' /\ k = latestVersion + 1
    OBVIOUS
  <2>2. /\ NextNumber = k /\ k \in VersionNumber /\ latestVersion' = k /\ k \in 0..MaxNumber
        /\ latestVersion < k
    BY <1>1, <1>3, <2>1, ConfigAssumption DEF AppendVersion, NextNumber, VersionNumber
  <2>3. r \in ConfigRow /\ r.num = k /\ r.config = c
    BY <2>1, <2>2 DEF ConfigRow
  <2>4. PICK t, latest : t = configVersions /\ latest = latestVersion
    OBVIOUS
  <2>5. PICK longer : longer = Append(t, r)
    OBVIOUS
  <2>6. /\ longer \in Seq(ConfigRow) /\ InOrder(longer) /\ ~Alike(longer, but)
        /\ (\A i \in DOMAIN longer : longer[i].num <= k)
        /\ \A m \in SaveRow : m.last <= latest /\ ComparedWith(t, m) => ComparedWith(longer, m)
    <3>1. /\ t \in Seq(ConfigRow) /\ InOrder(t) /\ latest \in Nat /\ r.num = latest + 1
          /\ (\A i \in DOMAIN t : t[i].num <= latest) /\ ~Alike(t, unchecked) /\ unchecked \subseteq but
      BY <1>1, <1>3, <2>1, <2>3, <2>4
    <3>2. r.num \in but \/ \A i \in DOMAIN t : t[i].num = latest => t[i].sum # r.config
      BY <1>3, <2>1, <2>2, <2>3, <2>4
    <3>3. PICK old : old = unchecked
      OBVIOUS
    <3>4. ~Alike(t, old) /\ old \subseteq but
      BY <3>1, <3>3
    <3>5. /\ Append(t, r) \in Seq(ConfigRow) /\ InOrder(Append(t, r)) /\ ~Alike(Append(t, r), but)
          /\ (\A i \in DOMAIN Append(t, r) : Append(t, r)[i].num <= latest + 1)
          /\ \A m \in SaveRow : m.last <= latest /\ ComparedWith(t, m) => ComparedWith(Append(t, r), m)
      BY <2>3, <3>1, <3>2, <3>4, AppendedKeeps
    <3> QED
      BY <2>1, <2>4, <2>5, <3>5
  <2>7. configVersions' = longer \/ configVersions' = Trim(longer)
    BY <1>3, <2>1, <2>4, <2>5 DEF AppendVersion
  <2>8. PICK g : g = configVersions'
    OBVIOUS
  <2>9. /\ g \in Seq(ConfigRow) /\ InOrder(g) /\ ~Alike(g, but)
        /\ (\A i \in DOMAIN g : g[i].num <= k)
        /\ \A m \in SaveRow : m.last <= latest /\ ComparedWith(t, m) => ComparedWith(g, m)
    <3>1. CASE g = longer
      BY <2>6, <3>1
    <3>2. CASE g = Trim(longer)
      <4>1. g \in Seq(ConfigRow) /\ PickedFrom(g, longer)
        BY <2>6, <3>2, TrimPicks
      <4> QED
        BY <2>6, <4>1, PickedKeeps
    <3> QED
      BY <2>7, <2>8, <3>1, <3>2
  <2>10. unchecked' \subseteq VersionNumber
    BY <1>1, <1>3, <2>2
  <2>11. latestVersion <= latestVersion' /\ latestVersion' \in 0..MaxNumber
    BY <1>1, <2>2
  <2> QED
    BY <1>3, <2>1, <2>2, <2>4, <2>8, <2>9, <2>10, <2>11, ListMoves
<1>4. ASSUME NEW p \in Saver, SaveConfig(p)
      PROVE  ConfigInv'
  <2>1. PICK c : c = saver[p].config
    OBVIOUS
  <2>2. c \in Config /\ AppendVersion(c, c, TRUE) /\ saver' = [saver EXCEPT ![p] = NoSave] /\ saver[p].busy
        /\ (unchecked' = IF LastNumber = saver[p].last THEN unchecked ELSE unchecked \cup {NextNumber})
    BY <1>1, <1>4, <2>1 DEF SaveConfig
  <2>3. NextNumber \in unchecked' \/ \A i \in DOMAIN configVersions :
            configVersions[i].num = latestVersion => configVersions[i].sum # c
    <3>1. SUFFICES ASSUME LastNumber = saver[p].last, NEW i \in DOMAIN configVersions,
                          configVersions[i].num = latestVersion
                   PROVE  configVersions[i].sum # c
      BY <2>2
    <3>2. PICK n : n = Len(configVersions)
      OBVIOUS
    <3>3. n \in DOMAIN configVersions /\ configVersions # <<>>
      BY <1>1, <3>1, <3>2
    <3>4. LastNumber = configVersions[n].num
      BY <3>2, <3>3 DEF LastNumber, Last
    <3>5. i = n \/ i < n
      BY <1>1, <3>1, <3>2
    <3>6. i = n
      BY <1>1, <3>1, <3>3, <3>5 DEF InOrder
    <3> QED
      BY <1>1, <2>1, <2>2, <3>1, <3>4, <3>6 DEF ComparedWith
  <2>4. unchecked \subseteq unchecked' /\ unchecked' \subseteq unchecked \cup {NextNumber}
    BY <2>2
  <2> QED
    BY <1>3, <2>2, <2>3, <2>4
<1>5. ASSUME NEW c \in Config, NEW sum \in Config \cup {NoSum}, ImportVersion(c, sum)
      PROVE  ConfigInv'
  <2>1. AppendVersion(c, sum, FALSE) /\ unchecked' = unchecked \cup {NextNumber} /\ UNCHANGED saver
    BY <1>5 DEF ImportVersion
  <2> QED
    BY <1>3, <2>1
<1>6. ASSUME NEW n \in VersionNumber, DeleteVersion(n)
      PROVE  ConfigInv'
  <2>1. PICK i \in DOMAIN configVersions : configVersions' = RemoveAt(configVersions, i)
    BY <1>6 DEF DeleteVersion
  <2>2. PICK t, g : t = configVersions /\ g = RemoveAt(t, i)
    OBVIOUS
  <2>3. t \in Seq(ConfigRow) /\ i \in DOMAIN t /\ g = configVersions'
    BY <1>1, <2>1, <2>2
  <2>4. g \in Seq(ConfigRow) /\ PickedFrom(g, t)
    BY <2>2, <2>3, RemovalPicks
  <2>5. PICK latest, but : latest = latestVersion /\ but = unchecked
    OBVIOUS
  <2>6. InOrder(t) /\ (\A k \in DOMAIN t : t[k].num <= latest) /\ ~Alike(t, but)
    BY <1>1, <2>2, <2>5
  <2>7. /\ InOrder(g) /\ (\A k \in DOMAIN g : g[k].num <= latest) /\ ~Alike(g, but)
        /\ \A m : ComparedWith(t, m) => ComparedWith(g, m)
    BY <2>3, <2>4, <2>6, PickedKeeps
  <2>8. UNCHANGED <<latestVersion, saver, unchecked>>
    BY <1>6 DEF DeleteVersion
  <2>9. \A m \in SaveRow : m.last <= latestVersion /\ ComparedWith(configVersions, m)
                              => ComparedWith(configVersions', m)
    BY <2>2, <2>3, <2>7
  <2> QED
    BY <1>1, <2>3, <2>4, <2>5, <2>7, <2>8, <2>9, ConfigAssumption, ListMoves
<1> QED
  BY <1>2, <1>4, <1>5, <1>6 DEF ConfigNext

LEMMA ConfigStutters == ConfigInv /\ UNCHANGED configVars => ConfigInv'
  BY DEF ConfigInv, configVars

LEMMA ConfigGood == ConfigInv => ConfigTypeOK /\ VersionsInOrder
<1> SUFFICES ASSUME ConfigInv PROVE ConfigTypeOK /\ VersionsInOrder
  OBVIOUS
<1>1. ConfigTypeOK
  BY DEF ConfigInv, ConfigTypeOK, ConfigRow, SaveRow
<1>2. ASSUME NEW i \in 1..(Len(configVersions) - 1)
      PROVE  /\ configVersions[i].num < configVersions[i + 1].num
             /\ configVersions[i + 1].num = configVersions[i].num + 1
                   /\ configVersions[i + 1].num \notin unchecked
                   /\ configVersions[i].sum = configVersions[i].config
                => configVersions[i].config # configVersions[i + 1].config
  <2>1. i \in DOMAIN configVersions /\ i + 1 \in DOMAIN configVersions /\ i < i + 1
    BY ConfigTyped
  <2> QED
    BY <2>1, ConfigTyped DEF InOrder, Alike
<1> QED
  BY <1>1, <1>2 DEF VersionsInOrder

-----------------------------------------------------------------------------
(* Backups of code.  While nothing overlapped, failed late or was removed,   *)
(* one backup is under way at most, an incremental one names the latest      *)
(* completed one, and the table of hashes is what the latest backup hashed.  *)

CodeRow == [at : {"none", "pending", "walk", "copy", "store", "check", "completed", "failed"},
            mode : {"full", "incremental"}, parent : 0..MaxCodeBackups,
            saw : Version, prev : Version, holds : Version]

OnTheWay == {"pending", "walk", "copy", "store", "check"}
Archived == {"store", "check", "completed"}

CodeOrder ==
    /\ \A b, c \in CodeBackup : b < c /\ codeBackups[b].at = "none" => codeBackups[c].at = "none"
    /\ \A b \in CodeBackup : codeBackups[b].parent < b

CodeRegular ==
    /\ \A b \in CodeBackup : codeBackups[b].at # "none" => b \in codeKnown
    /\ \A b, c \in CodeBackup : b < c /\ codeBackups[b].at \in OnTheWay => codeBackups[c].at = "none"
    /\ \A b \in CodeBackup : codeBackups[b].at = "check" => fileHash = codeBackups[b].saw
    /\ \A b \in CodeBackup :
          /\ codeBackups[b].at = "completed"
          /\ \A c \in CodeBackup : codeBackups[c].at = "completed" => c <= b
          /\ \A c \in CodeBackup : codeBackups[c].at # "check"
          => fileHash = codeBackups[b].saw

\* What is so of each backup, r, that is number b: its archive has the file, or its
\* parent's hash is its own, and what the archive has is what was hashed unless b is
\* among the damaged, D.
CodeRowGood(b, r, D) ==
    /\ r.mode = "incremental" /\ r.at \in OnTheWay \cup {"completed"} =>
          /\ r.parent \in CodeBackup /\ codeBackups[r.parent].at = "completed"
          /\ r.at \in OnTheWay => \A d \in CodeBackup : codeBackups[d].at = "completed" => d <= r.parent
          /\ r.at = "walk" => r.prev = codeBackups[r.parent].saw
          /\ r.at \in Archived => r.holds # 0 \/ r.saw = codeBackups[r.parent].saw
    /\ r.mode = "full" =>
          /\ r.at = "walk" => r.prev = 0
          /\ r.at \in Archived => r.holds # 0
    /\ r.at \in {"pending", "walk"} => r.holds = 0
    /\ r.at \in Archived => r.holds \in {0, r.saw} \/ b \in D

CodeInv ==
    /\ CodeBackupsTypeOK /\ CodeOrder
    /\ ~irregular => CodeRegular /\ \A b \in CodeBackup : CodeRowGood(b, codeBackups[b], damaged)

LEMMA CodeTyped ==
    ASSUME CodeInv
    PROVE  /\ codeBackups \in [CodeBackup -> CodeRow] /\ codeKnown \subseteq CodeBackup
           /\ file \in 1..MaxEdits /\ fileHash \in Version /\ file \in Version
           /\ irregular \in BOOLEAN /\ damaged \subseteq CodeBackup
           /\ \A b \in CodeBackup : b \in Nat /\ b \in 0..MaxCodeBackups /\ codeBackups[b] \in CodeRow
<1>1. /\ codeBackups \in [CodeBackup -> CodeRow] /\ codeKnown \subseteq CodeBackup
      /\ file \in 1..MaxEdits /\ fileHash \in Version
      /\ irregular \in BOOLEAN /\ damaged \subseteq CodeBackup
  BY DEF CodeInv, CodeBackupsTypeOK, CodeRow
<1>2. file \in Version
  BY <1>1, CodeBackupsAssumption DEF Version
<1>3. \A b \in CodeBackup : b \in Nat /\ b \in 0..MaxCodeBackups
  BY CodeBackupsAssumption DEF CodeBackup
<1> QED
  BY <1>1, <1>2, <1>3

LEMMA CodeStart == CodeBackupsInit => CodeInv
<1> SUFFICES ASSUME CodeBackupsInit PROVE CodeInv
  OBVIOUS
<1>1. PICK r : r = NoCodeBackup
  OBVIOUS
<1>2. r \in CodeRow /\ r.at = "none" /\ r.mode = "full" /\ r.parent = 0
  BY <1>1, CodeBackupsAssumption DEF CodeRow, NoCodeBackup, Version
<1>3. /\ codeBackups = [b \in CodeBackup |-> r] /\ codeKnown = {} /\ irregular = FALSE /\ damaged = {}
      /\ file = 1 /\ fileHash = 0
  BY <1>1 DEF CodeBackupsInit
<1>4. CodeBackupsTypeOK
  <2>1. codeBackups \in [CodeBackup -> CodeRow]
    BY <1>2, <1>3
  <2>2. file \in 1..MaxEdits /\ fileHash \in Version
    BY <1>3, CodeBackupsAssumption DEF Version
  <2>4. irregular \in BOOLEAN
    BY <1>3
  <2>3. codeKnown \subseteq CodeBackup /\ damaged \subseteq CodeBackup
    BY <1>3
  <2> QED
    BY <2>1, <2>2, <2>3, <2>4 DEF CodeBackupsTypeOK, CodeRow
<1>5. \A b \in CodeBackup : codeBackups[b] = r /\ 0 < b
  BY <1>3, CodeBackupsAssumption DEF CodeBackup
<1>6. CodeOrder
  BY <1>2, <1>5 DEF CodeOrder
<1>7. CodeRegular
  BY <1>2, <1>5 DEF CodeRegular, OnTheWay
<1>8. \A b \in CodeBackup : CodeRowGood(b, codeBackups[b], damaged)
  BY <1>2, <1>5 DEF CodeRowGood, OnTheWay, Archived
<1> QED
  BY <1>4, <1>6, <1>7, <1>8 DEF CodeInv

\* A row that is made or goes on.
LEMMA CodeRowMoves ==
    ASSUME CodeInv, NEW b \in CodeBackup, NEW r \in CodeRow,
           codeBackups' = [codeBackups EXCEPT ![b] = r], UNCHANGED file,
           irregular => irregular', irregular' \in BOOLEAN,
           damaged \subseteq damaged', damaged' \subseteq CodeBackup,
           \/ UNCHANGED codeKnown /\ codeBackups[b].at # "none"
           \/ codeKnown' = codeKnown \cup {b},
           codeBackups[b].at \in OnTheWay \cup {"none"}, r.at # "none", r.parent < b,
           r.at \in {"check", "completed"} => codeBackups[b].at \in OnTheWay /\ fileHash' = r.saw,
           \/ r.at \in {"check", "completed"}
           \/ UNCHANGED fileHash /\ codeBackups[b].at # "check"
           \/ irregular' /\ UNCHANGED fileHash,
           \A c \in CodeBackup : c < b => codeBackups[c].at # "none",
           ~irregular' =>
              /\ codeBackups[b].at = "none" => \A c \in CodeBackup : codeBackups[c].at \notin OnTheWay
              /\ CodeRowGood(b, r, damaged')
    PROVE  CodeInv'
<1>1. /\ codeBackups \in [CodeBackup -> CodeRow] /\ codeKnown \subseteq CodeBackup
      /\ file \in 1..MaxEdits /\ fileHash \in Version /\ CodeOrder
      /\ \A c \in CodeBackup : c \in Nat /\ c \in 0..MaxCodeBackups
  BY CodeTyped DEF CodeInv
<1>2. /\ codeBackups' \in [CodeBackup -> CodeRow] /\ codeBackups'[b] = r
      /\ \A c \in CodeBackup : c # b => codeBackups'[c] = codeBackups[c]
  BY <1>1
<1>3. CodeBackupsTypeOK'
  <2>1. fileHash' \in Version
    BY <1>1 DEF CodeRow
  <2>2. file' \in 1..MaxEdits /\ codeKnown' \subseteq CodeBackup
    BY <1>1
  <2> QED
    BY <1>2, <2>1, <2>2 DEF CodeBackupsTypeOK, CodeRow
<1>4. CodeOrder'
  <2>1. ASSUME NEW x \in CodeBackup, NEW y \in CodeBackup, x < y, codeBackups'[x].at = "none"
        PROVE  codeBackups'[y].at = "none"
    <3>1. x # b /\ codeBackups[x].at = "none"
      BY <1>2, <2>1
    <3>2. codeBackups[y].at = "none"
      BY <1>1, <2>1, <3>1 DEF CodeOrder
    <3>3. y # b
      BY <2>1, <3>1
    <3> QED
      BY <1>2, <3>2, <3>3
  <2>2. \A x \in CodeBackup : codeBackups'[x].parent < x
    BY <1>1, <1>2 DEF CodeOrder
  <2> QED
    BY <2>1, <2>2 DEF CodeOrder
<1>5. ASSUME ~irregular'
      PROVE  CodeRegular' /\ \A c \in CodeBackup : CodeRowGood(c, codeBackups[c], damaged)'
  <2>1. /\ ~irregular /\ CodeRegular /\ \A c \in CodeBackup : CodeRowGood(c, codeBackups[c], damaged)
        /\ CodeRowGood(b, r, damaged')
        /\ codeBackups[b].at = "none" => \A c \in CodeBackup : codeBackups[c].at \notin OnTheWay
    BY <1>5 DEF CodeInv
  <2>2. ASSUME NEW c \in CodeBackup, c # b
        PROVE  codeBackups[c].at \notin OnTheWay
    <3>1. CASE codeBackups[b].at = "none"
      BY <2>1, <3>1
    <3>2. CASE codeBackups[b].at \in OnTheWay
      <4>1. b \in Nat /\ c \in Nat /\ (b < c \/ c < b)
        BY <1>1, <2>2
      <4>2. CASE b < c
        <5>1. codeBackups[c].at = "none"
          BY <2>1, <3>2, <4>2 DEF CodeRegular
        <5> QED
          BY <5>1 DEF OnTheWay
      <4>3. CASE c < b
        <5>1. codeBackups[b].at # "none"
          BY <3>2 DEF OnTheWay
        <5> QED
          BY <2>1, <4>3, <5>1 DEF CodeRegular
      <4> QED
        BY <4>1, <4>2, <4>3
    <3> QED
      BY <3>1, <3>2
  <2>3. ASSUME NEW c \in CodeBackup, b < c
        PROVE  codeBackups[c].at = "none" /\ c # b
    <3>1. c # b
      BY <1>1, <2>3
    <3>2. CASE codeBackups[b].at = "none"
      BY <1>1, <2>3, <3>1, <3>2 DEF CodeOrder
    <3>3. CASE codeBackups[b].at \in OnTheWay
      BY <2>1, <2>3, <3>1, <3>3 DEF CodeRegular
    <3> QED
      BY <3>1, <3>2, <3>3
  <2>4. \A c \in CodeBackup : codeBackups'[c].at # "none" => c \in codeKnown'
    <3>1. \A c \in CodeBackup : codeBackups[c].at # "none" => c \in codeKnown
      BY <2>1 DEF CodeRegular
    <3>2. b \in codeKnown'
      BY <3>1
    <3>3. codeKnown \subseteq codeKnown'
      OBVIOUS
    <3> QED
      BY <1>2, <3>1, <3>2, <3>3
  <2>5. ASSUME NEW x \in CodeBackup, NEW y \in CodeBackup, x < y, codeBackups'[x].at \in OnTheWay
        PROVE  codeBackups'[y].at = "none"
    <3>1. x = b
      BY <1>2, <2>2, <2>5
    <3> QED
      BY <1>2, <2>3, <2>5, <3>1
  <2>6. ASSUME NEW x \in CodeBackup, codeBackups'[x].at = "check"
        PROVE  fileHash' = codeBackups'[x].saw
    <3>1. x = b
      BY <1>2, <2>2, <2>6 DEF OnTheWay
    <3> QED
      BY <1>2, <2>6, <3>1
  <2>7. ASSUME NEW x \in CodeBackup, codeBackups'[x].at = "completed",
               \A c \in CodeBackup : codeBackups'[c].at = "completed" => c <= x,
               \A c \in CodeBackup : codeBackups'[c].at # "check"
        PROVE  fileHash' = codeBackups'[x].saw
    <3>1. CASE r.at = "completed"
      <4>1. b <= x
        BY <1>2, <2>7, <3>1
      <4>2. ~(b < x)
        <5>1. SUFFICES ASSUME b < x PROVE FALSE
          OBVIOUS
        <5>2. codeBackups[x].at = "none" /\ x # b
          BY <2>3, <5>1
        <5> QED
          BY <1>2, <2>7, <5>2
      <4>3. x = b
        BY <1>1, <4>1, <4>2
      <4> QED
        BY <1>2, <3>1, <4>3
    <3>2. CASE r.at # "completed"
      <4>1. r.at # "check" /\ UNCHANGED fileHash /\ codeBackups[b].at # "check"
        BY <1>2, <1>5, <2>7, <3>2
      <4>2. codeBackups[b].at # "completed"
        BY DEF OnTheWay
      <4>3. x # b /\ codeBackups[x].at = "completed" /\ codeBackups'[x] = codeBackups[x]
        BY <1>2, <2>7, <3>2
      <4>4. \A c \in CodeBackup : codeBackups[c].at = "completed" => c <= x
        BY <1>2, <2>7, <4>2
      <4>5. \A c \in CodeBackup : codeBackups[c].at # "check"
        BY <1>2, <2>7, <4>1
      <4>6. fileHash = codeBackups[x].saw
        BY <2>1, <4>3, <4>4, <4>5 DEF CodeRegular
      <4> QED
        BY <4>1, <4>3, <4>6
    <3> QED
      BY <3>1, <3>2
  <2>8. CodeRegular'
    BY <2>4, <2>5, <2>6, <2>7 DEF CodeRegular
  <2>9. codeBackups[b].at # "completed"
    BY DEF OnTheWay
  <2>10. \A c \in CodeBackup : codeBackups[c].at = "completed" =>
             c # b /\ codeBackups'[c] = codeBackups[c]
    BY <1>2, <2>9
  <2>11. ASSUME NEW c \in CodeBackup
         PROVE  CodeRowGood(c, codeBackups[c], damaged)'
    <3>1. PICK q : q = codeBackups'[c]
      OBVIOUS
    <3>2. CodeRowGood(c, q, damaged')
      <4>1. CASE c = b
        BY <1>2, <2>1, <3>1, <4>1
      <4>2. CASE c # b
        <5>1. q = codeBackups[c] /\ CodeRowGood(c, q, damaged)
          BY <1>2, <2>1, <3>1, <4>2
        <5> QED
          BY <5>1 DEF CodeRowGood
      <4> QED
        BY <4>1, <4>2
    <3>3. ASSUME q.at \in OnTheWay, NEW d \in CodeBackup, codeBackups'[d].at = "completed"
          PROVE  codeBackups[d].at = "completed"
      <4>1. c = b
        BY <1>2, <2>2, <3>1, <3>3
      <4>2. d # b
        <5>1. SUFFICES ASSUME d = b PROVE FALSE
          OBVIOUS
        <5> QED
          BY <1>2, <3>1, <3>3, <4>1, <5>1 DEF OnTheWay
      <4> QED
        BY <1>2, <3>3, <4>2
    <3>4. ASSUME q.mode = "incremental", q.at \in OnTheWay \cup {"completed"}
          PROVE  /\ q.parent \in CodeBackup /\ codeBackups'[q.parent].at = "completed"
                 /\ q.at \in OnTheWay => \A d \in CodeBackup : codeBackups'[d].at = "completed" => d <= q.parent
                 /\ q.at = "walk" => q.prev = codeBackups'[q.parent].saw
                 /\ q.at \in Archived => q.holds # 0 \/ q.saw = codeBackups'[q.parent].saw
      <4>1. /\ q.parent \in CodeBackup /\ codeBackups[q.parent].at = "completed"
            /\ q.at \in OnTheWay => \A d \in CodeBackup : codeBackups[d].at = "completed" => d <= q.parent
            /\ q.at = "walk" => q.prev = codeBackups[q.parent].saw
            /\ q.at \in Archived => q.holds # 0 \/ q.saw = codeBackups[q.parent].saw
        BY <3>2, <3>4 DEF CodeRowGood
      <4>2. codeBackups'[q.parent] = codeBackups[q.parent]
        BY <2>10, <4>1
      <4> QED
        BY <3>3, <4>1, <4>2
    <3>5. /\ q.mode = "full" => /\ q.at = "walk" => q.prev = 0
                                /\ q.at \in Archived => q.holds # 0
          /\ q.at \in {"pending", "walk"} => q.holds = 0
          /\ q.at \in Archived => q.holds \in {0, q.saw} \/ c \in damaged'
      BY <3>2 DEF CodeRowGood
    <3>6. CodeRowGood(c, q, damaged)'
      <4>1. q.mode = "incremental" /\ q.at \in OnTheWay \cup {"completed"} =>
             /\ q.parent \in CodeBackup /\ codeBackups'[q.parent].at = "completed"
             /\ q.at \in OnTheWay => \A d \in CodeBackup : codeBackups'[d].at = "completed" => d <= q.parent
             /\ q.at = "walk" => q.prev = codeBackups'[q.parent].saw
             /\ q.at \in Archived => q.holds # 0 \/ q.saw = codeBackups'[q.parent].saw
        BY <3>4
      <4> QED
        BY <3>1, <3>5, <4>1 DEF CodeRowGood
    <3> QED
      BY <3>1, <3>6 DEF CodeRowGood
  <2> QED
    BY <2>8, <2>11
<1> QED
  BY <1>3, <1>4, <1>5 DEF CodeInv

LEMMA CodeStep ==
    ASSUME CodeInv, CodeBackupsNext
    PROVE  CodeInv'
<1>1. /\ codeBackups \in [CodeBackup -> CodeRow] /\ codeKnown \subseteq CodeBackup /\ CodeOrder
      /\ file \in 1..MaxEdits /\ fileHash \in Version /\ file \in Version
      /\ irregular \in BOOLEAN /\ damaged \subseteq CodeBackup
      /\ \A b \in CodeBackup : codeBackups[b] \in CodeRow /\ b \in Nat /\ b \in 0..MaxCodeBackups
                               /\ codeBackups[b].parent < b
      /\ ~irregular => CodeRegular /\ \A b \in CodeBackup : CodeRowGood(b, codeBackups[b], damaged)
  BY CodeTyped DEF CodeInv, CodeOrder
<1>2. ASSUME NEW b \in CodeBackup, NEW c \in CodeBackup, c < b, codeBackups[b].at # "none"
      PROVE  codeBackups[c].at # "none"
  BY <1>1, <1>2 DEF CodeOrder
<1>3. ASSUME NEW c \in BOOLEAN, Note(c)
      PROVE  (irregular => irregular') /\ irregular' \in BOOLEAN /\ (c => irregular')
  BY <1>1, <1>3 DEF Note
<1>4. ASSUME NEW v \in 1..MaxEdits, EditFile(v)
      PROVE  CodeInv'
  <2>1. file' \in 1..MaxEdits
    BY <1>1, <1>4, CodeBackupsAssumption DEF EditFile
  <2>2. CodeBackupsTypeOK'
    BY <1>1, <1>4, <2>1 DEF EditFile, CodeBackupsTypeOK, CodeRow
  <2>3. CodeOrder'
    BY <1>1, <1>4 DEF EditFile, CodeOrder
  <2>4. ~irregular' => CodeRegular' /\ \A b \in CodeBackup : CodeRowGood(b, codeBackups[b], damaged)'
    <3>1. CodeRegular => CodeRegular'
      BY <1>4 DEF EditFile, CodeRegular
    <3>2. \A b \in CodeBackup : CodeRowGood(b, codeBackups[b], damaged) => CodeRowGood(b, codeBackups[b], damaged)'
      BY <1>4 DEF EditFile, CodeRowGood
    <3>3. irregular' = irregular
      BY <1>4 DEF EditFile
    <3> QED
      BY <1>1, <3>1, <3>2, <3>3
  <2> QED
    BY <2>2, <2>3, <2>4 DEF CodeInv
<1>5. ASSUME NEW b \in CodeBackup, NEW mode \in {"full", "incremental"}, CreateBackup(b, mode)
      PROVE  CodeInv'
  <2>1. codeBackups[b].at = "none" /\ UNCHANGED <<file, fileHash, damaged>> /\ codeKnown' = codeKnown \cup {b}
    BY <1>5 DEF CreateBackup
  <2>2. \A c \in CodeBackup : c < b => codeBackups[c].at # "none"
    <3>1. \A c \in 1..(b - 1) : codeBackups[c].at # "none"
      BY <1>5 DEF CreateBackup
    <3>2. \A c \in CodeBackup : c < b => c \in 1..(b - 1)
      BY <1>1 DEF CodeBackup
    <3> QED
      BY <3>1, <3>2
  <2>3. /\ (irregular => irregular') /\ irregular' \in BOOLEAN
        /\ ~irregular' => UnderWay = {}
    <3>1. Note(UnderWay # {})
      BY <1>5 DEF CreateBackup
    <3> QED
      BY <1>3, <3>1
  <2>4. ~irregular' => /\ ~irregular
                           /\ \A c \in CodeBackup : codeBackups[c].at \notin OnTheWay
    BY <2>3 DEF UnderWay, OnTheWay
  <2>5. PICK incremental : incremental = (mode = "incremental" /\ CompletedCode # {})
    OBVIOUS
  <2>6. PICK p : p = CHOOSE c \in CompletedCode : \A d \in CompletedCode : d <= c
    OBVIOUS
  <2>7. PICK r : r = IF incremental THEN [NoCodeBackup EXCEPT !.at = "pending", !.mode = mode, !.parent = p]
                     ELSE [NoCodeBackup EXCEPT !.at = "pending"]
    OBVIOUS
  <2>8. codeBackups' = [codeBackups EXCEPT ![b] = r]
    <3>1. codeBackups' = [codeBackups EXCEPT ![b] =
             IF mode = "incremental" /\ CompletedCode # {}
             THEN [NoCodeBackup EXCEPT !.at = "pending", !.mode = mode, !.parent = p]
             ELSE [NoCodeBackup EXCEPT !.at = "pending"]]
      BY <1>5, <2>6 DEF CreateBackup
    <3>2. r = IF mode = "incremental" /\ CompletedCode # {}
              THEN [NoCodeBackup EXCEPT !.at = "pending", !.mode = mode, !.parent = p]
              ELSE [NoCodeBackup EXCEPT !.at = "pending"]
      BY <2>5, <2>7
    <3> QED
      BY <3>1, <3>2
  <2>9. incremental => /\ p \in CodeBackup /\ codeBackups[p].at = "completed"
                       /\ \A d \in CompletedCode : d <= p
    <3>1. SUFFICES ASSUME incremental PROVE p \in CompletedCode /\ \A d \in CompletedCode : d <= p
      BY <1>1 DEF CompletedCode
    <3>2. PICK S : S = CompletedCode
      OBVIOUS
    <3>3. S # {} /\ S \subseteq 0..MaxCodeBackups
      BY <1>1, <2>5, <3>1, <3>2 DEF CompletedCode
    <3>4. \E c \in S : \A d \in S : d <= c
      BY <3>3, CodeBackupsAssumption, GreatestUpTo
    <3> QED
      BY <2>6, <3>2, <3>4
  <2>10. incremental => p < b
    <3>1. SUFFICES ASSUME incremental, ~(p < b) PROVE FALSE
      OBVIOUS
    <3>2. p \in CodeBackup /\ codeBackups[p].at = "completed"
      BY <2>9, <3>1
    <3>3. b < p \/ b = p
      BY <1>1, <3>1, <3>2
    <3> QED
      BY <1>1, <2>1, <3>2, <3>3 DEF CodeOrder
  <2>11. CASE incremental
    <3>1. /\ r = [at |-> "pending", mode |-> "incremental", parent |-> p, saw |-> 0, prev |-> 0, holds |-> 0]
      BY <2>5, <2>7, <2>11 DEF NoCodeBackup
    <3>2. p \in 0..MaxCodeBackups /\ 0 \in Version
      BY <1>1, <2>9, <2>11, CodeBackupsAssumption DEF Version
    <3>3. r \in CodeRow /\ r.at = "pending" /\ r.mode = "incremental" /\ r.parent = p /\ r.holds = 0
      BY <3>1, <3>2 DEF CodeRow
    <3>4. ~irregular' => CodeRowGood(b, r, damaged')
      <4>1. SUFFICES ASSUME ~irregular' PROVE CodeRowGood(b, r, damaged')
        OBVIOUS
      <4>2. \A d \in CodeBackup : codeBackups[d].at = "completed" => d \in CompletedCode
        BY <1>1, <2>4, <4>1 DEF CodeRegular, CompletedCode
      <4> QED
        BY <2>9, <2>11, <3>3, <4>2 DEF CodeRowGood, Archived
    <3>5. r.parent < b /\ r.at # "none" /\ r.at \notin {"check", "completed"}
      BY <2>10, <2>11, <3>3
    <3>6. codeBackups[b].at # "check" /\ codeBackups[b].at \in OnTheWay \cup {"none"}
      BY <2>1
    <3> QED
      BY <1>1, <2>1, <2>2, <2>3, <2>4, <2>8, <3>3, <3>4, <3>5, <3>6, CodeRowMoves
  <2>12. CASE ~incremental
    <3>1. /\ r = [at |-> "pending", mode |-> "full", parent |-> 0, saw |-> 0, prev |-> 0, holds |-> 0]
      BY <2>7, <2>12 DEF NoCodeBackup
    <3>2. r \in CodeRow /\ r.at = "pending" /\ r.mode = "full" /\ r.parent = 0 /\ r.holds = 0
      BY <3>1, CodeBackupsAssumption DEF CodeRow, Version
    <3>3. CodeRowGood(b, r, damaged')
      BY <3>2 DEF CodeRowGood, Archived
    <3>4. r.parent < b /\ r.at # "none" /\ r.at \notin {"check", "completed"}
      BY <3>2, CodeBackupsAssumption DEF CodeBackup
    <3>5. codeBackups[b].at # "check" /\ codeBackups[b].at \in OnTheWay \cup {"none"}
      BY <2>1
    <3> QED
      BY <1>1, <2>1, <2>2, <2>3, <2>4, <2>8, <3>2, <3>3, <3>4, <3>5, CodeRowMoves
  <2> QED
    BY <2>11, <2>12
<1>6. ASSUME NEW b \in CodeBackup, BeginWalk(b)
      PROVE  CodeInv'
  <2>1. PICK h : h = IF codeBackups[b].mode = "incremental" THEN fileHash ELSE 0
    OBVIOUS
  <2>2. PICK r : r = [codeBackups[b] EXCEPT !.at = "walk", !.prev = h]
    OBVIOUS
  <2>3. h \in Version
    BY <1>1, <2>1, CodeBackupsAssumption DEF Version
  <2>4. codeBackups[b].at = "pending" /\ UNCHANGED <<file, fileHash, codeKnown, damaged, irregular>>
    BY <1>6 DEF BeginWalk
  <2>5. /\ r \in CodeRow /\ r.at = "walk" /\ r.prev = h /\ r.mode = codeBackups[b].mode
        /\ r.parent = codeBackups[b].parent /\ r.holds = codeBackups[b].holds
    BY <1>1, <2>2, <2>3 DEF CodeRow
  <2>6. codeBackups' = [codeBackups EXCEPT ![b] = r]
    <3>1. codeBackups' = [codeBackups EXCEPT ![b].at = "walk", ![b].prev = h]
      BY <1>6, <2>1 DEF BeginWalk
    <3> QED
      BY <1>1, <2>2, <3>1
  <2>7. ~irregular' => CodeRowGood(b, r, damaged')
    <3>1. SUFFICES ASSUME ~irregular PROVE CodeRowGood(b, r, damaged')
      BY <2>4
    <3>2. CodeRegular /\ CodeRowGood(b, codeBackups[b], damaged)
      BY <1>1, <3>1
    <3>3. CASE r.mode = "incremental"
      <4>1. PICK p : p = r.parent
        OBVIOUS
      <4>2. /\ p \in CodeBackup /\ codeBackups[p].at = "completed"
            /\ \A d \in CodeBackup : codeBackups[d].at = "completed" => d <= p
        BY <2>4, <2>5, <3>2, <3>3, <4>1 DEF CodeRowGood, OnTheWay, Archived
      <4>3. \A c \in CodeBackup : codeBackups[c].at # "check"
        <5>1. SUFFICES ASSUME NEW c \in CodeBackup, codeBackups[c].at = "check" PROVE FALSE
          OBVIOUS
        <5>2. c # b /\ (c < b \/ b < c)
          BY <1>1, <2>4, <5>1
        <5> QED
          BY <2>4, <3>2, <5>1, <5>2 DEF CodeRegular, OnTheWay
      <4>4. fileHash = codeBackups[p].saw
        BY <3>2, <4>2, <4>3 DEF CodeRegular
      <4>5. r.prev = codeBackups[p].saw
        BY <2>1, <2>5, <3>3, <4>4
      <4> QED
        BY <2>4, <2>5, <3>2, <3>3, <4>1, <4>2, <4>5 DEF CodeRowGood, Archived
    <3>4. CASE r.mode # "incremental"
      BY <2>1, <2>4, <2>5, <3>2, <3>4 DEF CodeRowGood, Archived
    <3> QED
      BY <3>3, <3>4
  <2>8. \A c \in CodeBackup : c < b => codeBackups[c].at # "none"
    BY <1>2, <2>4
  <2>9. r.parent < b /\ r.at # "none" /\ r.at \notin {"check", "completed"}
    BY <1>1, <2>5
  <2>10. codeBackups[b].at \in OnTheWay \cup {"none"} /\ codeBackups[b].at # "check" /\ codeBackups[b].at # "none"
    BY <2>4 DEF OnTheWay
  <2> QED
    BY <1>1, <2>4, <2>5, <2>6, <2>7, <2>8, <2>9, <2>10, CodeRowMoves
<1>7. ASSUME NEW b \in CodeBackup, HashFile(b)
      PROVE  CodeInv'
  <2>1. PICK a : a = IF file = codeBackups[b].prev THEN "store" ELSE "copy"
    OBVIOUS
  <2>2. PICK r : r = [codeBackups[b] EXCEPT !.saw = file, !.at = a]
    OBVIOUS
  <2>3. codeBackups[b].at = "walk" /\ UNCHANGED <<file, fileHash, codeKnown, damaged, irregular>>
    BY <1>7 DEF HashFile
  <2>4. a \in {"store", "copy"}
    BY <2>1
  <2>5. /\ r \in CodeRow /\ r.at = a /\ r.saw = file /\ r.holds = codeBackups[b].holds
        /\ r.mode = codeBackups[b].mode /\ r.parent = codeBackups[b].parent
    BY <1>1, <2>2, <2>4 DEF CodeRow
  <2>6. codeBackups' = [codeBackups EXCEPT ![b] = r]
    <3>1. codeBackups' = [codeBackups EXCEPT ![b].saw = file, ![b].at = a]
      BY <1>7, <2>1 DEF HashFile
    <3> QED
      BY <1>1, <2>2, <3>1
  <2>7. ~irregular' => CodeRowGood(b, r, damaged')
    <3>1. SUFFICES ASSUME ~irregular PROVE CodeRowGood(b, r, damaged)
      BY <2>3
    <3>2. CodeRowGood(b, codeBackups[b], damaged)
      BY <1>1, <3>1
    <3>3. r.holds = 0 /\ r.at \notin {"pending", "walk", "completed"} /\ r.at \in OnTheWay
      BY <2>3, <2>4, <2>5, <3>2 DEF CodeRowGood, OnTheWay
    <3>4. CASE r.mode = "incremental"
      <4>1. /\ r.parent \in CodeBackup /\ codeBackups[r.parent].at = "completed"
            /\ \A d \in CodeBackup : codeBackups[d].at = "completed" => d <= r.parent
            /\ codeBackups[b].prev = codeBackups[r.parent].saw
        BY <2>3, <2>5, <3>2, <3>4 DEF CodeRowGood, OnTheWay
      <4>2. r.at \in Archived => r.saw = codeBackups[r.parent].saw
        BY <2>1, <2>5, <4>1 DEF Archived
      <4> QED
        BY <3>3, <3>4, <4>1, <4>2 DEF CodeRowGood
    <3>5. CASE r.mode # "incremental"
      <4>1. r.mode = "full"
        BY <2>5, <3>5 DEF CodeRow
      <4>2. codeBackups[b].prev = 0
        BY <2>3, <2>5, <3>2, <4>1 DEF CodeRowGood
      <4>3. file # 0
        BY <1>1
      <4>4. r.at = "copy"
        BY <2>1, <2>5, <4>2, <4>3
      <4> QED
        BY <4>1, <4>4 DEF CodeRowGood, Archived
    <3> QED
      BY <3>4, <3>5
  <2>8. \A c \in CodeBackup : c < b => codeBackups[c].at # "none"
    BY <1>2, <2>3
  <2>9. r.parent < b /\ r.at # "none"
    BY <1>1, <2>4, <2>5
  <2>10. codeBackups[b].at \in OnTheWay \cup {"none"} /\ codeBackups[b].at \notin {"none", "check"}
    BY <2>3 DEF OnTheWay
  <2>11. r.at \notin {"check", "completed"}
    BY <2>4, <2>5
  <2> QED
    BY <1>1, <2>3, <2>5, <2>6, <2>7, <2>8, <2>9, <2>10, <2>11, CodeRowMoves
<1>12. ASSUME NEW b \in CodeBackup, CopyFile(b)
       PROVE  CodeInv'
  <2>1. damaged \subseteq damaged' /\ damaged' \subseteq CodeBackup
    BY <1>1, <1>12 DEF CopyFile
  <2>2. PICK r : r = [codeBackups[b] EXCEPT !.at = "store", !.holds = file]
    OBVIOUS
  <2>3. codeBackups[b].at = "copy" /\ UNCHANGED <<file, fileHash, codeKnown, irregular>>
    BY <1>12 DEF CopyFile
  <2>4. file # codeBackups[b].saw => b \in damaged'
    BY <1>12 DEF CopyFile
  <2>5. /\ r \in CodeRow /\ r.at = "store" /\ r.saw = codeBackups[b].saw /\ r.holds = file
        /\ r.mode = codeBackups[b].mode /\ r.parent = codeBackups[b].parent
    BY <1>1, <2>2 DEF CodeRow
  <2>6. codeBackups' = [codeBackups EXCEPT ![b] = r]
    BY <1>1, <1>12, <2>2 DEF CopyFile
  <2>7. ~irregular' => CodeRowGood(b, r, damaged')
    <3>1. SUFFICES ASSUME ~irregular PROVE CodeRowGood(b, r, damaged')
      BY <2>3
    <3>2. CodeRowGood(b, codeBackups[b], damaged)
      BY <1>1, <3>1
    <3>3. r.holds # 0 /\ (r.holds = r.saw \/ b \in damaged')
      BY <1>1, <2>4, <2>5
    <3>4. r.mode = "incremental" =>
            /\ r.parent \in CodeBackup /\ codeBackups[r.parent].at = "completed"
            /\ \A d \in CodeBackup : codeBackups[d].at = "completed" => d <= r.parent
      BY <2>3, <2>5, <3>2 DEF CodeRowGood, OnTheWay
    <3> QED
      BY <2>5, <3>3, <3>4 DEF CodeRowGood
  <2>8. \A c \in CodeBackup : c < b => codeBackups[c].at # "none"
    BY <1>2, <2>3
  <2>9. r.parent < b /\ r.at # "none"
    BY <1>1, <2>5
  <2>10. codeBackups[b].at \in OnTheWay \cup {"none"} /\ codeBackups[b].at \notin {"none", "check"}
    BY <2>3 DEF OnTheWay
  <2> QED
    BY <1>1, <2>1, <2>3, <2>5, <2>6, <2>7, <2>8, <2>9, <2>10, CodeRowMoves
<1>13. ASSUME NEW b \in CodeBackup, StoreHashes(b)
       PROVE  CodeInv'
  <2>2. PICK r : r = [codeBackups[b] EXCEPT !.at = "check"]
    OBVIOUS
  <2>3. /\ codeBackups[b].at = "store" /\ UNCHANGED <<file, codeKnown, damaged, irregular>>
        /\ fileHash' = codeBackups[b].saw
    BY <1>13 DEF StoreHashes
  <2>5. /\ r \in CodeRow /\ r.at = "check" /\ r.saw = codeBackups[b].saw
        /\ r.holds = codeBackups[b].holds
        /\ r.mode = codeBackups[b].mode /\ r.parent = codeBackups[b].parent
    BY <1>1, <2>2 DEF CodeRow
  <2>6. codeBackups' = [codeBackups EXCEPT ![b] = r]
    BY <1>1, <1>13, <2>2 DEF StoreHashes
  <2>7. ~irregular' => CodeRowGood(b, r, damaged')
    <3>1. SUFFICES ASSUME ~irregular PROVE CodeRowGood(b, r, damaged)
      BY <2>3
    <3>2. CodeRowGood(b, codeBackups[b], damaged)
      BY <1>1, <3>1
    <3> QED
      BY <2>3, <2>5, <3>2 DEF CodeRowGood, OnTheWay, Archived
  <2>8. \A c \in CodeBackup : c < b => codeBackups[c].at # "none"
    BY <1>2, <2>3
  <2>9. r.parent < b /\ r.at # "none"
    BY <1>1, <2>5
  <2>10. codeBackups[b].at \in OnTheWay \cup {"none"} /\ codeBackups[b].at \notin {"none", "check"}
    BY <2>3 DEF OnTheWay
  <2> QED
    BY <1>1, <2>3, <2>5, <2>6, <2>7, <2>8, <2>9, <2>10, CodeRowMoves
<1>8. ASSUME NEW b \in CodeBackup, NEW end \in {"completed", "failed"}, NEW r,
             r = IF end = "failed" THEN FailedBackup ELSE [codeBackups[b] EXCEPT !.at = end],
             codeBackups' = [codeBackups EXCEPT ![b] = r],
             UNCHANGED <<file, fileHash, codeKnown>>,
             irregular => irregular', irregular' \in BOOLEAN,
             damaged \subseteq damaged', damaged' \subseteq CodeBackup,
             \/ codeBackups[b].at = "check" /\ (end = "failed" => irregular')
             \/ codeBackups[b].at \in {"pending", "walk", "copy", "store"} /\ end = "failed"
      PROVE  CodeInv'
  <2>1. end = "failed" => r \in CodeRow /\ r.at = end /\ r.parent < b
    <3>1. SUFFICES ASSUME end = "failed" PROVE r \in CodeRow /\ r.at = end /\ r.parent < b
      OBVIOUS
    <3>2. r = [at |-> "failed", mode |-> "full", parent |-> 0, saw |-> 0, prev |-> 0, holds |-> 0]
      BY <1>8, <3>1 DEF FailedBackup, NoCodeBackup
    <3>3. 0 \in Version /\ 0 \in 0..MaxCodeBackups /\ 0 < b
      BY CodeBackupsAssumption DEF Version, CodeBackup
    <3> QED
      BY <3>1, <3>2, <3>3 DEF CodeRow
  <2>2. end = "completed" =>
           /\ r \in CodeRow /\ r.at = end /\ r.mode = codeBackups[b].mode
           /\ r.parent = codeBackups[b].parent /\ r.parent < b
           /\ r.saw = codeBackups[b].saw /\ r.holds = codeBackups[b].holds
    BY <1>1, <1>8 DEF CodeRow
  <2>3. codeBackups' = [codeBackups EXCEPT ![b] = r] /\ r \in CodeRow /\ r.at = end
    BY <1>8, <2>1, <2>2
  <2>4. ~irregular' => ~irregular
    BY <1>8
  <2>5. ~irregular' => CodeRowGood(b, r, damaged')
    <3>1. SUFFICES ASSUME ~irregular , ~irregular' PROVE CodeRowGood(b, r, damaged')
      BY <2>4
    <3>2. CodeRowGood(b, codeBackups[b], damaged) /\ damaged \subseteq damaged'
      BY <1>1, <1>8, <3>1
    <3>3. CASE end = "failed"
      BY <2>3, <3>3 DEF CodeRowGood, OnTheWay, Archived
    <3>4. CASE end = "completed"
      <4>1. codeBackups[b].at = "check"
        BY <1>8, <3>4
      <4> QED
        BY <2>2, <3>2, <3>4, <4>1 DEF CodeRowGood, OnTheWay, Archived
    <3> QED
      BY <3>3, <3>4
  <2>6. \A c \in CodeBackup : c < b => codeBackups[c].at # "none"
    BY <1>2, <1>8
  <2>7. r.parent < b /\ r.at # "none"
    BY <1>8, <2>1, <2>2
  <2>8. codeBackups[b].at \in OnTheWay /\ codeBackups[b].at # "none"
    BY <1>8 DEF OnTheWay
  <2>9. codeBackups[b].at \in OnTheWay \cup {"none"}
    BY <2>8
  <2>10. CASE irregular' /\ end = "failed"
    <3>1. r.at \notin {"check", "completed"}
      BY <2>3, <2>10
    <3> QED
      BY <1>1, <1>8, <2>2, <2>3, <2>5, <2>6, <2>7, <2>8, <2>9, <2>10, <3>1, CodeRowMoves
  <2>11. CASE ~irregular' /\ end = "failed"
    <3>1. r.at \notin {"check", "completed"} /\ codeBackups[b].at # "check"
      BY <1>8, <2>3, <2>11
    <3> QED
      BY <1>1, <1>8, <2>2, <2>3, <2>5, <2>6, <2>7, <2>8, <2>9, <2>11, <3>1, CodeRowMoves
  <2>12. CASE end = "completed"
    <3>1. SUFFICES CodeInv'
      OBVIOUS
    <3>2. CASE ~irregular
      <4>1. fileHash' = r.saw
        BY <1>1, <1>8, <2>2, <2>12, <3>2 DEF CodeRegular
      <4>2. r.at \in {"check", "completed"}
        BY <2>2, <2>12
      <4> QED
        BY <1>1, <1>8, <2>2, <2>3, <2>5, <2>6, <2>7, <2>8, <2>9, <4>1, <4>2, CodeRowMoves
    <3>3. CASE irregular
      <4>1. irregular'
        BY <2>4, <3>3
      <4>2. codeBackups' \in [CodeBackup -> CodeRow] /\ codeBackups'[b] = r
            /\ \A c \in CodeBackup : c # b => codeBackups'[c] = codeBackups[c]
        BY <1>1, <2>3
      <4>3. CodeBackupsTypeOK'
        BY <1>1, <1>8, <4>2 DEF CodeBackupsTypeOK, CodeRow
      <4>4. \A c \in CodeBackup : codeBackups'[c].at = "none" <=> codeBackups[c].at = "none"
        BY <2>7, <2>8, <4>2
      <4>5. \A c \in CodeBackup : codeBackups'[c].parent < c
        BY <1>1, <2>7, <4>2
      <4>6. CodeOrder'
        BY <1>1, <4>4, <4>5 DEF CodeOrder
      <4> QED
        BY <4>1, <4>3, <4>6 DEF CodeInv
    <3> QED
      BY <3>2, <3>3
  <2> QED
    BY <2>10, <2>11, <2>12
<1>9. ASSUME NEW b \in CodeBackup, WalkFails(b)
      PROVE  CodeInv'
  <2>1. /\ codeBackups' = [codeBackups EXCEPT ![b] = FailedBackup]
        /\ codeBackups[b].at \in {"pending", "walk", "copy", "store"}
        /\ UNCHANGED <<file, fileHash, codeKnown, damaged, irregular>>
    BY <1>9 DEF WalkFails
  <2>2. /\ (irregular => irregular') /\ irregular' \in BOOLEAN
        /\ damaged \subseteq damaged' /\ damaged' \subseteq CodeBackup
    BY <1>1, <2>1
  <2>3. FailedBackup = IF "failed" = "failed" THEN FailedBackup
                       ELSE [codeBackups[b] EXCEPT !.at = "failed"]
    OBVIOUS
  <2> QED
    BY <1>8, <2>1, <2>2, <2>3
<1>10. ASSUME NEW b \in CodeBackup, CompleteBackup(b)
       PROVE  CodeInv'
  <2>1. codeBackups[b].at = "check" /\ UNCHANGED <<file, fileHash, codeKnown>>
    BY <1>10 DEF CompleteBackup
  <2>2. damaged \subseteq damaged' /\ damaged' \subseteq CodeBackup
    BY <1>1, <1>10 DEF CompleteBackup
  <2>3. CASE codeBackups' = [codeBackups EXCEPT ![b].at = "completed"] /\ UNCHANGED irregular
    <3>1. PICK r : r = [codeBackups[b] EXCEPT !.at = "completed"]
      OBVIOUS
    <3>2. codeBackups' = [codeBackups EXCEPT ![b] = r]
      BY <1>1, <2>3, <3>1
    <3>3. (irregular => irregular') /\ irregular' \in BOOLEAN
      BY <1>1, <2>3
    <3>4. r = IF "completed" = "failed" THEN FailedBackup ELSE [codeBackups[b] EXCEPT !.at = "completed"]
      BY <3>1
    <3> QED
      BY <1>8, <2>1, <2>2, <3>2, <3>3, <3>4
  <2>4. CASE codeBackups' = [codeBackups EXCEPT ![b] = FailedBackup] /\ Note(TRUE)
    <3>1. (irregular => irregular') /\ irregular' \in BOOLEAN /\ irregular'
      BY <1>3, <2>4
    <3>2. FailedBackup = IF "failed" = "failed" THEN FailedBackup
                         ELSE [codeBackups[b] EXCEPT !.at = "failed"]
      OBVIOUS
    <3> QED
      BY <1>8, <2>1, <2>2, <2>4, <3>1, <3>2
  <2> QED
    BY <1>10, <2>3, <2>4 DEF CompleteBackup
<1>11. ASSUME NEW b \in CodeBackup, DeleteCodeBackup(b)
       PROVE  CodeInv'
  <2>1. /\ irregular' /\ irregular' \in BOOLEAN
        /\ codeKnown' \subseteq CodeBackup /\ UNCHANGED <<file, fileHash, codeBackups, damaged>>
    BY <1>1, <1>3, <1>11 DEF DeleteCodeBackup
  <2>2. CodeBackupsTypeOK'
    BY <1>1, <2>1 DEF CodeBackupsTypeOK, CodeRow
  <2>3. CodeOrder'
    BY <1>1, <2>1 DEF CodeOrder
  <2> QED
    BY <2>1, <2>2, <2>3 DEF CodeInv
<1> QED
  BY <1>4, <1>5, <1>6, <1>7, <1>9, <1>10, <1>11, <1>12, <1>13 DEF CodeBackupsNext

LEMMA CodeStutters == CodeInv /\ UNCHANGED codeVars => CodeInv'
<1> SUFFICES ASSUME CodeInv, UNCHANGED codeVars PROVE CodeInv'
  OBVIOUS
<1>0. UNCHANGED <<file, fileHash, codeBackups, codeKnown, damaged, irregular>>
  BY DEF codeVars
<1>1. CodeBackupsTypeOK'
  BY <1>0 DEF CodeInv, CodeBackupsTypeOK
<1>2. CodeOrder'
  BY <1>0 DEF CodeInv, CodeOrder
<1>3. CodeRegular => CodeRegular'
  BY <1>0 DEF CodeRegular
<1>4. \A b \in CodeBackup : CodeRowGood(b, codeBackups[b], damaged) => CodeRowGood(b, codeBackups[b], damaged)'
  BY <1>0 DEF CodeRowGood
<1> QED
  BY <1>0, <1>1, <1>2, <1>3, <1>4 DEF CodeInv

\* Where the file is found: what the definition says of it.
LEMMA ArchiveUnfolds ==
    ASSUME CodeInv
    PROVE  \A b \in 0..MaxCodeBackups :
               Archive[b] = IF b \notin CompletedCode THEN 0
                            ELSE IF codeBackups[b].holds # 0 \/ b \in damaged THEN b
                            ELSE Archive[codeBackups[b].parent]
<1> DEFINE N == MaxCodeBackups
           Own(b) == codeBackups[b].holds # 0 \/ b \in damaged
           Ends == {b \in 0..N : b \notin CompletedCode \/ Own(b)}
           known == [b \in 0..N |-> IF b \in CompletedCode THEN b ELSE 0]
           before == [b \in 0..N |-> IF b \in CodeBackup THEN codeBackups[b].parent ELSE 0]
           step == [b \in 0..N |-> [v \in 0..N |-> v]]
           Hold(f) == [b \in 0..N |-> IF b \notin CompletedCode THEN 0
                                      ELSE IF codeBackups[b].holds # 0 \/ b \in damaged THEN b
                                      ELSE f[codeBackups[b].parent]]
<1>1. /\ codeBackups \in [CodeBackup -> CodeRow] /\ CodeOrder /\ N \in Nat
      /\ CompletedCode \subseteq CodeBackup /\ CodeBackup \subseteq 0..N
  BY CodeBackupsAssumption, CodeTyped DEF CodeInv, CompletedCode
<1>2. known \in [0..N -> 0..N]
  BY <1>1
<1>3. before \in [0..N -> 0..N]
  BY <1>1 DEF CodeRow
<1>4. step \in [0..N -> [0..N -> 0..N]]
  OBVIOUS
<1>5. ASSUME NEW b \in 0..N, b \notin Ends
      PROVE  before[b] < b /\ b \in CompletedCode /\ ~Own(b)
             /\ before[b] = codeBackups[b].parent
  <2>1. b \in CompletedCode /\ ~Own(b) /\ b \in CodeBackup
    BY <1>1, <1>5
  <2>2. codeBackups[b].parent < b
    BY <1>1, <2>1 DEF CodeOrder
  <2> QED
    BY <2>1, <2>2
<1>6. PICK f \in [0..N -> 0..N] : Recurs(f, N, Ends, known, before, step)
  <2>1. \A b \in 0..N : b \notin Ends => before[b] < b
    BY <1>5
  <2> HIDE DEF N, Ends, known, before, step
  <2> QED
    BY <1>1, <1>2, <1>3, <1>4, <2>1, RecursionExists
<1>7. ASSUME NEW b \in 0..N
      PROVE  f[b] = Hold(f)[b]
  <2>1. CASE b \in Ends
    <3>1. f[b] = known[b]
      BY <1>6, <2>1 DEF Recurs
    <3>2. b \notin CompletedCode \/ Own(b)
      BY <2>1
    <3> QED
      BY <3>1, <3>2
  <2>2. CASE b \notin Ends
    <3>1. f[b] = step[b][f[before[b]]] /\ f[before[b]] \in 0..N
      BY <1>3, <1>6, <2>2 DEF Recurs
    <3>2. f[b] = f[codeBackups[b].parent]
      BY <1>5, <2>2, <3>1
    <3> QED
      BY <1>5, <2>2, <3>2
  <2> QED
    BY <2>1, <2>2
<1>8. f = Hold(f)
  <2>1. \A b \in 0..N : f[b] = Hold(f)[b]
    BY <1>7
  <2> QED
    BY <2>1
<1>9. Archive = Hold(Archive)
  <2>1. Archive = CHOOSE g : g = Hold(g)
    BY DEF Archive
  <2> HIDE DEF Hold
  <2> QED
    BY <1>8, <2>1
<1> QED
  BY <1>9

LEMMA CodeGood == CodeInv => CodeBackupsTypeOK /\ BackupHasFile
<1> DEFINE Found(b) == LET a == Archive[b]
                       IN  a \in CompletedCode /\ (a \in damaged \/ codeBackups[a].holds = codeBackups[b].saw)
<1> SUFFICES ASSUME CodeInv, ~irregular PROVE \A b \in CompletedCode : Found(b)
  BY DEF CodeInv, BackupHasFile
<1>1. /\ \A b \in CodeBackup : CodeRowGood(b, codeBackups[b], damaged) /\ codeBackups[b] \in CodeRow
      /\ \A b \in CodeBackup : b \in Nat /\ b \in 0..MaxCodeBackups /\ codeBackups[b].parent < b
      /\ CompletedCode \subseteq CodeBackup /\ CodeRegular
  BY CodeTyped DEF CodeInv, CompletedCode, CodeOrder
<1> DEFINE bad == {b \in CompletedCode : ~Found(b)}
<1>2. bad = {}
  <2>1. SUFFICES ASSUME bad # {} PROVE FALSE
    OBVIOUS
  <2>2. bad \subseteq Nat
    BY <1>1
  <2>3. PICK b \in bad : \A c \in bad : b <= c
    <3> HIDE DEF bad
    <3> QED
      BY <2>1, <2>2, Least
  <2>4. b \in CompletedCode /\ ~Found(b) /\ b \in CodeBackup /\ b \in 0..MaxCodeBackups
    BY <1>1
  <2>6. codeBackups[b].at = "completed" /\ codeBackups[b].mode \in {"full", "incremental"}
    BY <1>1, <2>4 DEF CompletedCode, CodeRow
  <2>5. codeBackups[b].holds = 0 /\ b \notin damaged
    <3>1. SUFFICES ASSUME codeBackups[b].holds # 0 \/ b \in damaged PROVE FALSE
      OBVIOUS
    <3>2. Archive[b] = b
      BY <2>4, <3>1, ArchiveUnfolds
    <3>3. codeBackups[b].holds \in {0, codeBackups[b].saw} \/ b \in damaged
      BY <1>1, <2>4, <2>6 DEF CodeRowGood, Archived
    <3>4. Found(b)
      BY <2>4, <3>1, <3>2, <3>3
    <3> QED
      BY <2>4, <3>4
  <2>7. PICK p : p = codeBackups[b].parent
    OBVIOUS
  <2>8. p \in CodeBackup /\ codeBackups[p].at = "completed" /\ codeBackups[b].saw = codeBackups[p].saw
    BY <1>1, <2>4, <2>5, <2>6, <2>7 DEF CodeRowGood, Archived
  <2>9. p \in CompletedCode
    BY <1>1, <2>8 DEF CompletedCode, CodeRegular
  <2>12. Archive[b] = Archive[p]
    BY <2>4, <2>5, <2>7, ArchiveUnfolds
  <2>13. ~Found(p)
    BY <2>4, <2>8, <2>12
  <2>10. p \in bad
    BY <2>9, <2>13
  <2>11. p < b /\ p \in Nat /\ b \in Nat
    BY <1>1, <2>4, <2>7, <2>8
  <2> HIDE DEF bad
  <2> QED
    BY <2>3, <2>10, <2>11
<1> QED
  BY <1>2

-----------------------------------------------------------------------------
(* Backups of databases.  An incremental backup has a completed parent that  *)
(* was made before it; once it has begun its dump, the parent is still known *)
(* or was deleted by a user, unless the dump is whole.                       *)

DbRest ==
    /\ \A b, c \in DbBackup : b < c /\ dbBackups[b].at = "none" => dbBackups[c].at = "none"
    /\ \A b \in DbBackup :
          /\ dbBackups[b].at \in {"none", "chosen"} => b \notin dbKnown
          /\ dbBackups[b].at = "none" => dbBackups[b].mode = "full"
          /\ dbBackups[b].mode = "incremental" =>
                /\ dbBackups[b].parent \in DbBackup /\ dbBackups[b].parent < b
                /\ dbBackups[dbBackups[b].parent].at = "completed"
          /\ dbBackups[b].at \in {"dumping", "completed"} =>
                /\ dbBackups[b].mode = "full" => dbBackups[b].whole
                /\ \/ dbBackups[b].whole \/ b \notin dbKnown
                   \/ dbBackups[b].parent \in dbKnown \cup dbDeleted

DbInv == DbBackupsTypeOK /\ DbRest

DbRow == [at : {"none", "chosen", "pending", "dumping", "completed", "failed"},
          mode : {"full", "incremental"}, parent : 0..MaxBackups, whole : BOOLEAN]

LEMMA DbTyped ==
    ASSUME DbInv
    PROVE  /\ dbBackups \in [DbBackup -> DbRow] /\ dbKnown \subseteq DbBackup /\ dbDeleted \subseteq DbBackup
           /\ CompletedDb \subseteq DbBackup /\ CompletedDb \subseteq dbKnown
           /\ \A b \in CompletedDb : dbBackups[b].at = "completed"
           /\ \A b \in DbBackup : b \in Nat /\ b \in 0..MaxBackups
                /\ dbBackups[b].mode \in {"full", "incremental"} /\ dbBackups[b].parent \in 0..MaxBackups
<1>1. dbBackups \in [DbBackup -> DbRow] /\ dbKnown \subseteq DbBackup /\ dbDeleted \subseteq DbBackup
  BY DEF DbInv, DbBackupsTypeOK, DbRow
<1>2. \A b \in DbBackup : b \in Nat /\ b \in 0..MaxBackups
  BY DbBackupsAssumption DEF DbBackup
<1>3. CompletedDb \subseteq dbKnown /\ \A b \in CompletedDb : dbBackups[b].at = "completed"
  BY DEF CompletedDb
<1>4. \A b \in DbBackup : dbBackups[b].mode \in {"full", "incremental"} /\ dbBackups[b].parent \in 0..MaxBackups
  BY <1>1 DEF DbRow
<1> QED
  BY <1>1, <1>2, <1>3, <1>4

LEMMA DbStart == DbBackupsInit => DbInv
<1> SUFFICES ASSUME DbBackupsInit PROVE DbInv
  OBVIOUS
<1>1. PICK r : r = [at |-> "none", mode |-> "full", parent |-> 0, whole |-> FALSE]
  OBVIOUS
<1>2. r \in DbRow /\ r.at = "none" /\ r.mode = "full"
  BY <1>1, DbBackupsAssumption DEF DbRow
<1>3. dbBackups = [b \in DbBackup |-> r] /\ dbKnown = {} /\ dbDeleted = {}
  BY <1>1 DEF DbBackupsInit
<1>4. DbBackupsTypeOK
  BY <1>2, <1>3 DEF DbBackupsTypeOK, DbRow
<1>5. DbRest
  BY <1>2, <1>3 DEF DbRest
<1> QED
  BY <1>4, <1>5 DEF DbInv

\* A row that goes on.
LEMMA DbRowMoves ==
    ASSUME DbInv, NEW b \in DbBackup, NEW r \in DbRow,
           dbBackups' = [dbBackups EXCEPT ![b] = r], UNCHANGED dbDeleted,
           \/ UNCHANGED dbKnown
           \/ dbKnown' = dbKnown \cup {b} /\ r.at = "pending",
           r.at # "none" /\ dbBackups[b].at # "completed",
           r.at = "chosen" => dbBackups[b].at = "none",
           \A c \in DbBackup : c < b => dbBackups[c].at # "none",
           r.mode = "incremental" => /\ r.parent \in DbBackup /\ r.parent < b
                                     /\ dbBackups[r.parent].at = "completed",
           r.at \in {"dumping", "completed"} =>
              /\ r.mode = "full" => r.whole
              /\ r.whole \/ b \notin dbKnown \/ r.parent \in dbKnown \cup dbDeleted
    PROVE  DbInv'
<1>1. /\ dbBackups \in [DbBackup -> DbRow] /\ dbKnown \subseteq DbBackup /\ dbDeleted \subseteq DbBackup
      /\ DbRest
  BY DEF DbInv, DbBackupsTypeOK, DbRow
<1>2. /\ dbBackups' \in [DbBackup -> DbRow] /\ dbBackups'[b] = r
      /\ \A c \in DbBackup : c # b => dbBackups'[c] = dbBackups[c]
  BY <1>1
<1>3. DbBackupsTypeOK'
  BY <1>1, <1>2 DEF DbBackupsTypeOK, DbRow
<1>4. ASSUME NEW x \in DbBackup, NEW y \in DbBackup, x < y, dbBackups'[x].at = "none"
      PROVE  dbBackups'[y].at = "none"
  <2>1. x # b /\ dbBackups[x].at = "none"
    BY <1>2, <1>4
  <2>2. dbBackups[y].at = "none"
    BY <1>1, <1>4, <2>1 DEF DbRest
  <2>3. y # b
    BY <1>4, <2>1
  <2> QED
    BY <1>2, <2>2, <2>3
<1>5. \A c \in DbBackup : dbBackups[c].at = "completed" => dbBackups'[c].at = "completed"
  BY <1>2
<1>6. ASSUME NEW c \in DbBackup
      PROVE  /\ dbBackups'[c].at \in {"none", "chosen"} => c \notin dbKnown'
             /\ dbBackups'[c].at = "none" => dbBackups'[c].mode = "full"
             /\ dbBackups'[c].mode = "incremental" =>
                   /\ dbBackups'[c].parent \in DbBackup /\ dbBackups'[c].parent < c
                   /\ dbBackups'[dbBackups'[c].parent].at = "completed"
             /\ dbBackups'[c].at \in {"dumping", "completed"} =>
                   /\ dbBackups'[c].mode = "full" => dbBackups'[c].whole
                   /\ \/ dbBackups'[c].whole \/ c \notin dbKnown'
                      \/ dbBackups'[c].parent \in dbKnown' \cup dbDeleted'
  <2>1. CASE c = b
    BY <1>1, <1>2, <1>5, <2>1 DEF DbRest
  <2>2. CASE c # b
    <3>1. dbBackups'[c] = dbBackups[c] /\ (c \in dbKnown' <=> c \in dbKnown) /\ dbKnown \subseteq dbKnown'
      BY <1>2, <2>2
    <3> QED
      BY <1>1, <1>5, <3>1 DEF DbRest
  <2> QED
    BY <2>1, <2>2
<1>7. DbRest'
  BY <1>4, <1>6 DEF DbRest
<1> QED
  BY <1>3, <1>7 DEF DbInv

LEMMA DbStep ==
    ASSUME DbInv, DbBackupsNext
    PROVE  DbInv'
<1>1. /\ dbBackups \in [DbBackup -> DbRow] /\ dbKnown \subseteq DbBackup /\ dbDeleted \subseteq DbBackup
      /\ DbRest
      /\ \A b \in DbBackup : dbBackups[b] \in DbRow /\ b \in Nat
  BY DEF DbInv, DbBackupsTypeOK, DbRow, DbBackup
<1>2. ASSUME NEW b \in DbBackup, NEW c \in DbBackup, c < b, dbBackups[b].at # "none"
      PROVE  dbBackups[c].at # "none"
  BY <1>1, <1>2 DEF DbRest
<1>3. ASSUME NEW b \in DbBackup, NextDb(b), NEW c \in DbBackup, c < b
      PROVE  dbBackups[c].at # "none"
  BY <1>3, DbBackupsAssumption DEF NextDb, DbBackup
<1>4. ASSUME NEW b \in DbBackup, CreateFullBackup(b)
      PROVE  DbInv'
  <2>1. PICK r : r = [dbBackups[b] EXCEPT !.at = "chosen"]
    OBVIOUS
  <2>2. dbBackups[b].mode = "full" /\ dbBackups[b].at = "none"
    BY <1>1, <1>4 DEF CreateFullBackup, NextDb, DbRest
  <2>3. r \in DbRow /\ r.at = "chosen" /\ r.mode = "full"
    BY <1>1, <2>1, <2>2 DEF DbRow
  <2>4. dbBackups' = [dbBackups EXCEPT ![b] = r] /\ UNCHANGED <<dbKnown, dbDeleted>> /\ NextDb(b)
    BY <1>4, <2>1 DEF CreateFullBackup
  <2> QED
    BY <1>3, <2>2, <2>3, <2>4, DbRowMoves
<1>5. ASSUME NEW b \in DbBackup, CreateIncrementalBackup(b)
      PROVE  DbInv'
  <2>1. PICK p : p = ChooseParent(b)
    OBVIOUS
  <2>2. p \in DbBackup /\ dbBackups[p].at = "completed"
    <3>1. PICK S : S = CompletedDb
      OBVIOUS
    <3>2. S # {} /\ S \subseteq DbBackup /\ S \subseteq 0..MaxBackups
      BY <1>1, <1>5, <3>1, DbTyped DEF CreateIncrementalBackup
    <3>3. \E x \in S : \A y \in S : y <= x
      BY <3>2, DbBackupsAssumption, GreatestUpTo
    <3>4. p \in S
      BY <2>1, <3>1, <3>2, <3>3 DEF ChooseParent, LatestOf
    <3> QED
      BY <3>1, <3>2, <3>4 DEF CompletedDb
  <2>3. NextDb(b) /\ dbBackups[b].at = "none"
    BY <1>5 DEF CreateIncrementalBackup, NextDb
  <2>4. p < b
    <3>1. SUFFICES ASSUME ~(p < b) PROVE FALSE
      OBVIOUS
    <3>2. p \in Nat /\ b \in Nat /\ (b < p \/ b = p)
      BY <1>1, <2>2, <3>1
    <3> QED
      BY <1>1, <2>2, <2>3, <3>2 DEF DbRest
  <2>5. PICK r : r = [at |-> "chosen", mode |-> "incremental", parent |-> p, whole |-> FALSE]
    OBVIOUS
  <2>6. r \in DbRow /\ r.at = "chosen" /\ r.mode = "incremental" /\ r.parent = p
    <3>1. p \in 0..MaxBackups
      BY <2>2 DEF DbBackup
    <3> QED
      BY <2>5, <3>1 DEF DbRow
  <2>7. dbBackups' = [dbBackups EXCEPT ![b] = r] /\ UNCHANGED <<dbKnown, dbDeleted>>
    BY <1>5, <2>1, <2>5 DEF CreateIncrementalBackup
  <2> QED
    BY <1>3, <2>2, <2>3, <2>4, <2>6, <2>7, DbRowMoves
<1>6. ASSUME NEW b \in DbBackup, StoreBackupRecord(b)
      PROVE  DbInv'
  <2>1. PICK r : r = [dbBackups[b] EXCEPT !.at = "pending"]
    OBVIOUS
  <2>2. /\ r \in DbRow /\ r.at = "pending" /\ r.mode = dbBackups[b].mode /\ r.parent = dbBackups[b].parent
        /\ dbBackups[b].at = "chosen"
    BY <1>1, <1>6, <2>1 DEF DbRow, StoreBackupRecord
  <2>3. /\ dbBackups' = [dbBackups EXCEPT ![b] = r] /\ dbKnown' = dbKnown \cup {b} /\ UNCHANGED dbDeleted
    BY <1>6, <2>1 DEF StoreBackupRecord
  <2>4. r.mode = "incremental" => r.parent \in DbBackup /\ r.parent < b /\ dbBackups[r.parent].at = "completed"
    BY <1>1, <2>2 DEF DbRest
  <2>5. \A c \in DbBackup : c < b => dbBackups[c].at # "none"
    BY <1>2, <2>2
  <2> QED
    BY <2>2, <2>3, <2>4, <2>5, DbRowMoves
<1>7. ASSUME NEW b \in DbBackup, BeginDump(b)
      PROVE  DbInv'
  <2>0. PICK w : w = (dbBackups[b].mode = "full" \/ dbBackups[b].parent \notin dbKnown)
    OBVIOUS
  <2>1. PICK r : r = [dbBackups[b] EXCEPT !.at = "dumping", !.whole = w]
    OBVIOUS
  <2>2. /\ r \in DbRow /\ r.at = "dumping" /\ r.mode = dbBackups[b].mode /\ r.parent = dbBackups[b].parent
        /\ r.whole = w /\ dbBackups[b].at = "pending"
    <3>1. w \in BOOLEAN
      BY <2>0
    <3> QED
      BY <1>1, <1>7, <2>1, <3>1 DEF DbRow, BeginDump
  <2>3. dbBackups' = [dbBackups EXCEPT ![b] = r] /\ UNCHANGED <<dbKnown, dbDeleted>>
    <3>1. dbBackups' = [dbBackups EXCEPT ![b].at = "dumping", ![b].whole = w]
          /\ UNCHANGED <<dbKnown, dbDeleted>>
      BY <1>7, <2>0 DEF BeginDump
    <3> QED
      BY <1>1, <2>1, <3>1
  <2>4. r.mode = "incremental" => r.parent \in DbBackup /\ r.parent < b /\ dbBackups[r.parent].at = "completed"
    BY <1>1, <2>2 DEF DbRest
  <2>5. \A c \in DbBackup : c < b => dbBackups[c].at # "none"
    BY <1>2, <2>2
  <2>6. (r.mode = "full" => r.whole) /\ (r.whole \/ r.parent \in dbKnown)
    BY <2>0, <2>2
  <2> QED
    BY <2>2, <2>3, <2>4, <2>5, <2>6, DbRowMoves
<1>8. ASSUME NEW b \in DbBackup, EndDump(b)
      PROVE  DbInv'
  <2>1. PICK end \in {"completed", "failed"} : dbBackups' = [dbBackups EXCEPT ![b].at = end]
    BY <1>8 DEF EndDump
  <2>2. PICK r : r = [dbBackups[b] EXCEPT !.at = end]
    OBVIOUS
  <2>3. /\ r \in DbRow /\ r.at = end /\ r.mode = dbBackups[b].mode /\ r.parent = dbBackups[b].parent
        /\ r.whole = dbBackups[b].whole /\ dbBackups[b].at = "dumping"
    BY <1>1, <1>8, <2>2 DEF DbRow, EndDump
  <2>4. dbBackups' = [dbBackups EXCEPT ![b] = r] /\ UNCHANGED <<dbKnown, dbDeleted>>
    BY <1>8, <2>1, <2>2 DEF EndDump
  <2>5. r.mode = "incremental" => r.parent \in DbBackup /\ r.parent < b /\ dbBackups[r.parent].at = "completed"
    BY <1>1, <2>3 DEF DbRest
  <2>6. \A c \in DbBackup : c < b => dbBackups[c].at # "none"
    BY <1>2, <2>3
  <2>7. (r.mode = "full" => r.whole) /\ (r.whole \/ b \notin dbKnown \/ r.parent \in dbKnown \cup dbDeleted)
    BY <1>1, <2>3 DEF DbRest
  <2> QED
    BY <2>1, <2>3, <2>4, <2>5, <2>6, <2>7, DbRowMoves
<1>9. ASSUME NEW b \in dbKnown, UNCHANGED dbBackups, dbKnown' = dbKnown \ {b},
             \/ dbDeleted' = dbDeleted \cup {b}
             \/ UNCHANGED dbDeleted /\ \A c \in dbKnown : dbBackups[c].parent # b
      PROVE  DbInv'
  <2>1. DbBackupsTypeOK'
    BY <1>1, <1>9 DEF DbBackupsTypeOK, DbRow
  <2>2. DbRest'
    BY <1>1, <1>9 DEF DbRest
  <2> QED
    BY <2>1, <2>2 DEF DbInv
<1>10. ASSUME NEW b \in DbBackup, DeleteDbBackup(b) \/ RemoveExpired(b)
       PROVE  DbInv'
  BY <1>9, <1>10 DEF DeleteDbBackup, RemoveExpired, CompletedDb
<1> QED
  BY <1>4, <1>5, <1>6, <1>7, <1>8, <1>10 DEF DbBackupsNext

LEMMA DbStutters == DbInv /\ UNCHANGED dbVars => DbInv'
<1> SUFFICES ASSUME DbInv, UNCHANGED dbVars PROVE DbInv'
  OBVIOUS
<1>1. DbBackupsTypeOK'
  BY DEF DbInv, DbBackupsTypeOK, dbVars
<1>2. DbRest'
  BY DEF DbInv, DbRest, dbVars
<1> QED
  BY <1>1, <1>2 DEF DbInv

\* The chain of a backup: what the definition says of it.
LEMMA ChainUnfolds ==
    ASSUME DbInv
    PROVE  \A b \in 0..MaxBackups :
               Restorable[b] <=> \/ b \in dbDeleted
                                 \/ /\ b \in CompletedDb
                                    /\ dbBackups[b].whole \/ Restorable[dbBackups[b].parent]
<1> DEFINE N == MaxBackups
           Ends == {b \in 0..N : b \in dbDeleted \/ b \notin CompletedDb \/ dbBackups[b].whole}
           known == [b \in 0..N |-> b \in dbDeleted \/ b \in CompletedDb]
           before == [b \in 0..N |-> IF b \in DbBackup THEN dbBackups[b].parent ELSE 0]
           step == [b \in 0..N |-> [v \in BOOLEAN |-> v]]
           Rest(f) == [b \in 0..N |-> \/ b \in dbDeleted
                                      \/ /\ b \in CompletedDb
                                         /\ dbBackups[b].whole \/ f[dbBackups[b].parent]]
<1>1. /\ dbBackups \in [DbBackup -> DbRow] /\ dbKnown \subseteq DbBackup /\ dbDeleted \subseteq DbBackup
      /\ DbRest /\ N \in Nat /\ CompletedDb \subseteq DbBackup /\ DbBackup \subseteq 0..N
  BY DbBackupsAssumption, DbTyped DEF DbInv
<1>2. known \in [0..N -> BOOLEAN]
  OBVIOUS
<1>3. before \in [0..N -> 0..N]
  BY <1>1 DEF DbRow
<1>4. step \in [0..N -> [BOOLEAN -> BOOLEAN]]
  OBVIOUS
<1>5. ASSUME NEW b \in 0..N, b \notin Ends
      PROVE  before[b] < b /\ b \in CompletedDb /\ ~dbBackups[b].whole /\ b \notin dbDeleted
             /\ before[b] = dbBackups[b].parent
  <2>1. b \in CompletedDb /\ ~dbBackups[b].whole /\ b \notin dbDeleted /\ b \in DbBackup
    BY <1>1, <1>5
  <2>2. dbBackups[b].at = "completed" /\ dbBackups[b].mode # "full" /\ dbBackups[b].mode \in {"full", "incremental"}
    BY <1>1, <2>1 DEF CompletedDb, DbRest, DbRow
  <2>3. dbBackups[b].parent < b
    BY <1>1, <2>1, <2>2 DEF DbRest
  <2> QED
    BY <2>1, <2>3
<1>6. PICK f \in [0..N -> BOOLEAN] : Recurs(f, N, Ends, known, before, step)
  <2>1. \A b \in 0..N : b \notin Ends => before[b] < b
    BY <1>5
  <2> HIDE DEF N, Ends, known, before, step
  <2> QED
    BY <1>1, <1>2, <1>3, <1>4, <2>1, RecursionExists
<1>7. ASSUME NEW b \in 0..N
      PROVE  f[b] <=> Rest(f)[b]
  <2>1. CASE b \in Ends
    <3>1. f[b] = known[b]
      BY <1>6, <2>1 DEF Recurs
    <3>2. b \in dbDeleted \/ b \notin CompletedDb \/ dbBackups[b].whole
      BY <2>1
    <3> QED
      BY <3>1, <3>2
  <2>2. CASE b \notin Ends
    <3>1. f[b] = step[b][f[before[b]]] /\ f[before[b]] \in BOOLEAN
      BY <1>3, <1>6, <2>2 DEF Recurs
    <3>2. f[b] = f[dbBackups[b].parent]
      BY <1>5, <2>2, <3>1
    <3> QED
      BY <1>5, <2>2, <3>2
  <2> QED
    BY <2>1, <2>2
<1>8. \A b \in 0..N : Rest(f)[b] \in BOOLEAN
  OBVIOUS
<1>9. f = Rest(f)
  <2>1. \A b \in 0..N : f[b] = Rest(f)[b]
    BY <1>7, <1>8
  <2> QED
    BY <2>1
<1>10. Restorable = Rest(Restorable)
  <2>1. Restorable = CHOOSE g : g = Rest(g)
    BY DEF Restorable
  <2> HIDE DEF Rest
  <2> QED
    BY <1>9, <2>1
<1> QED
  BY <1>10

LEMMA DbGood == DbInv => DbBackupsTypeOK /\ ChainIsComplete
<1> SUFFICES ASSUME DbInv PROVE DbBackupsTypeOK /\ ChainIsComplete
  OBVIOUS
<1>1. /\ dbKnown \subseteq DbBackup /\ dbDeleted \subseteq DbBackup /\ DbRest
      /\ CompletedDb \subseteq DbBackup /\ \A b \in DbBackup : b \in Nat /\ b \in 0..MaxBackups
      /\ \A b \in DbBackup : dbBackups[b].mode \in {"full", "incremental"}
  BY DbTyped DEF DbInv
<1> DEFINE bad == {b \in CompletedDb : ~Restorable[b]}
<1>2. bad = {}
  <2>1. SUFFICES ASSUME bad # {} PROVE FALSE
    OBVIOUS
  <2>2. bad \subseteq Nat
    BY <1>1
  <2>3. PICK b \in bad : \A c \in bad : b <= c
    <3> HIDE DEF bad
    <3> QED
      BY <2>1, <2>2, Least
  <2>4. b \in CompletedDb /\ ~Restorable[b] /\ b \in DbBackup /\ b \in 0..MaxBackups /\ b \in Nat
    BY <1>1
  <2>5. ~dbBackups[b].whole /\ ~Restorable[dbBackups[b].parent]
    BY <2>4, ChainUnfolds
  <2>6. dbBackups[b].at = "completed" /\ b \in dbKnown
    BY <2>4 DEF CompletedDb
  <2>7. dbBackups[b].mode = "incremental" /\ dbBackups[b].parent \in dbKnown \cup dbDeleted
    BY <1>1, <2>4, <2>5, <2>6 DEF DbRest
  <2>8. PICK p : p = dbBackups[b].parent
    OBVIOUS
  <2>9. p \in DbBackup /\ p < b /\ dbBackups[p].at = "completed" /\ p \in 0..MaxBackups /\ p \in Nat
    BY <1>1, <2>4, <2>7, <2>8 DEF DbRest
  <2>10. p \notin dbDeleted
    BY <2>5, <2>8, <2>9, ChainUnfolds
  <2>11. p \in CompletedDb
    BY <2>7, <2>8, <2>9, <2>10 DEF CompletedDb
  <2>12. p \in bad
    BY <2>5, <2>8, <2>11
  <2> HIDE DEF bad
  <2> QED
    BY <2>3, <2>4, <2>9, <2>12
<1> QED
  BY <1>2 DEF ChainIsComplete, DbInv

-----------------------------------------------------------------------------
(* The repository and its checkout.  The remote-tracking branch and the      *)
(* checkout only go forward, so that what a call has brought into them stays *)
(* there until it reports.                                                   *)

GitCommits ==
    /\ workspace <= origin /\ origin <= head
    /\ \A g \in GitCaller :
          /\ gitCall[g].since <= head
          /\ gitCall[g].at = "token" => gitCall[g].then \in {"clone", "fetch"}
          /\ gitCall[g].at = "reset" => gitCall[g].since <= origin
          /\ gitCall[g].at = "synced" => gitCall[g].since <= workspace

GitInv == GitTypeOK /\ GitCommits /\ SyncingIsUnderWay

LEMMA GitStart == GitInit => GitInv
  BY GitAssumption DEF GitInit, GitInv, GitTypeOK, GitCommits, SyncingIsUnderWay, NoRepo, IdleGitCall,
     RepoIds, ConnectionIds

\* A call that is not working before or is not on the stored record may go on to anything.
LEMMA GitCallGoesOn ==
    ASSUME GitInv, NEW g \in GitCaller, NEW e,
           gitCall' = [gitCall EXCEPT ![g] = e], gitRepo'.id = gitRepo.id,
           gitRepo'.status = "syncing" => gitRepo.status = "syncing",
           Working(g) /\ gitCall[g].id = gitRepo.id =>
               \/ gitRepo'.status # "syncing"
               \/ /\ e.at \in {"clone", "fetch", "reset", "synced"}
                  /\ e.id = gitCall[g].id
    PROVE  SyncingIsUnderWay'
<1>1. \A h \in GitCaller : gitCall'[h] = IF h = g THEN e ELSE gitCall[h]
  BY DEF GitInv, GitTypeOK
<1> QED
  BY <1>1 DEF GitInv, SyncingIsUnderWay, Working

LEMMA GitStep ==
    ASSUME GitInv, GitNext
    PROVE  GitInv'
<1>0. /\ GitTypeOK /\ GitCommits /\ SyncingIsUnderWay
      /\ MaxConnects \in Nat /\ MaxRepos \in Nat /\ MaxCommits \in Nat
  BY GitAssumption DEF GitInv
<1> DEFINE Call == [at : {"idle", "link", "token", "clone", "fetch", "reset", "synced"},
                    then : {"link", "clone", "fetch"},
                    id : RepoIds, conn : ConnectionIds, since : 0 .. MaxCommits]
<1>1. CASE Connect \/ DeleteConnection
  BY <1>0, <1>1 DEF Connect, DeleteConnection, GitInv, GitTypeOK, GitCommits, SyncingIsUnderWay, Working,
     ConnectionIds
<1>2. CASE UnlinkRepository
  BY <1>0, <1>2 DEF UnlinkRepository, GitInv, GitTypeOK, GitCommits, SyncingIsUnderWay, Working, NoRepo,
     ConnectionIds, RepoIds
<1>3. CASE Push
  <2>1. GitTypeOK' /\ SyncingIsUnderWay'
    BY <1>0, <1>3 DEF Push, GitTypeOK, SyncingIsUnderWay, Working
  <2>2. GitCommits'
    <3>1. head \in Nat /\ origin \in Nat /\ workspace \in Nat
          /\ \A g \in GitCaller : gitCall[g].since \in Nat
      BY <1>0 DEF GitTypeOK
    <3> QED
      BY <1>0, <1>3, <3>1 DEF Push, GitCommits
  <2> QED
    BY <2>1, <2>2 DEF GitInv
<1>4. ASSUME NEW g \in GitCaller,
             \/ BeginLink(g) \/ LinkRepository(g) \/ CloneRepository(g) \/ SyncRepository(g)
             \/ GetValidToken(g) \/ TokenRefused(g) \/ CloneRuns(g) \/ FetchRuns(g) \/ ResetRuns(g)
             \/ GitCommandFails(g) \/ RecordSynced(g)
      PROVE  GitInv'
  <2>1. /\ gitCall[g] \in Call /\ head \in 1 .. MaxCommits /\ origin \in 0 .. MaxCommits
        /\ workspace \in 0 .. MaxCommits /\ gitRepo.id \in RepoIds /\ gitRepo.conn \in ConnectionIds
        /\ IdleGitCall \in Call /\ gitCall \in [GitCaller -> Call]
        /\ \A h \in GitCaller : gitCall[h].since \in Nat
    BY <1>0 DEF GitTypeOK, IdleGitCall, RepoIds, ConnectionIds
  <2>2. CASE BeginLink(g)
    <3>1. PICK e : /\ e = [IdleGitCall EXCEPT !.at = "link", !.id = madeRepos', !.conn = gitConnection]
      OBVIOUS
    <3>2. e \in Call /\ e.at = "link" /\ e.since = 0 /\ madeRepos' \in RepoIds
      <4>1. madeRepos' \in RepoIds /\ gitConnection \in ConnectionIds
        BY <1>0, <2>2 DEF BeginLink, GitTypeOK, RepoIds
      <4> HIDE DEF Call
      <4>2. e = [at |-> "link", then |-> "link", id |-> madeRepos', conn |-> gitConnection, since |-> 0]
        BY <3>1 DEF IdleGitCall
      <4> QED
        BY <1>0, <4>1, <4>2 DEF Call
    <3>3. gitCall' = [gitCall EXCEPT ![g] = e] /\ UNCHANGED <<gitConnection, madeConnections, gitRepo, head, origin, workspace>>
          /\ ~Working(g)
      BY <2>2, <3>1 DEF BeginLink, Working
    <3>4. GitTypeOK'
      BY <1>0, <2>1, <3>2, <3>3 DEF GitTypeOK
    <3>5. GitCommits'
      BY <1>0, <2>1, <3>2, <3>3 DEF GitCommits
    <3>6. SyncingIsUnderWay'
      BY <3>3, GitCallGoesOn
    <3> QED
      BY <3>4, <3>5, <3>6 DEF GitInv
  <2>3. CASE LinkRepository(g)
    <3>1. GitTypeOK'
      BY <1>0, <2>1, <2>3 DEF LinkRepository, GitTypeOK
    <3>2. GitCommits'
      BY <1>0, <2>1, <2>3 DEF LinkRepository, GitCommits, IdleGitCall
    <3>3. SyncingIsUnderWay'
      BY <2>3 DEF LinkRepository, SyncingIsUnderWay
    <3> QED
      BY <3>1, <3>2, <3>3 DEF GitInv
  <2>4. CASE CloneRepository(g) \/ SyncRepository(g)
    <3>1. PICK then \in {"clone", "fetch"} : BeginGitCall(g, then)
      BY <2>4 DEF CloneRepository, SyncRepository
    <3>2. PICK e : e = [at |-> "token", then |-> then, id |-> gitRepo.id, conn |-> gitRepo.conn, since |-> head]
      OBVIOUS
    <3>3. e \in Call /\ e.at = "token" /\ e.then \in {"clone", "fetch"} /\ e.since = head
      BY <2>1, <3>2
    <3>4. gitCall' = [gitCall EXCEPT ![g] = e] /\ ~Working(g)
          /\ UNCHANGED <<gitConnection, madeConnections, gitRepo, madeRepos, head, origin, workspace>>
      BY <3>1, <3>2 DEF BeginGitCall, Working
    <3>5. GitTypeOK'
      BY <1>0, <2>1, <3>3, <3>4 DEF GitTypeOK
    <3>6. GitCommits'
      BY <1>0, <2>1, <3>3, <3>4 DEF GitCommits
    <3>7. SyncingIsUnderWay'
      BY <3>4, GitCallGoesOn
    <3> QED
      BY <3>5, <3>6, <3>7 DEF GitInv
  <2>5. CASE GetValidToken(g)
    <3>1. PICK e : e = [gitCall[g] EXCEPT !.at = gitCall[g].then]
      OBVIOUS
    <3>2. /\ e \in Call /\ e.at \in {"clone", "fetch"} /\ e.since = gitCall[g].since /\ e.id = gitCall[g].id
          /\ gitCall[g].at = "token"
      BY <1>0, <2>1, <2>5, <3>1 DEF GetValidToken, GitCommits
    <3>3. gitCall' = [gitCall EXCEPT ![g] = e] /\ UNCHANGED <<madeConnections, madeRepos, head, origin, workspace>>
          /\ gitConnection' \in ConnectionIds
          /\ gitRepo' = IF gitRepo.id = gitCall[g].id THEN [gitRepo EXCEPT !.status = "syncing"] ELSE gitRepo
      BY <1>0, <2>1, <2>5, <3>1 DEF GetValidToken, UpdateSyncStatus, GitTypeOK
    <3>4. GitTypeOK'
      BY <1>0, <2>1, <3>2, <3>3 DEF GitTypeOK
    <3>5. GitCommits'
      BY <1>0, <2>1, <3>2, <3>3 DEF GitCommits
    <3>6. SyncingIsUnderWay'
      <4>1. CASE gitRepo.id = gitCall[g].id
        <5>1. gitCall'[g] = e /\ gitRepo'.id = gitRepo.id
          BY <1>0, <2>1, <3>3 DEF GitTypeOK
        <5> QED
          BY <4>1, <5>1, <3>2 DEF SyncingIsUnderWay, Working
      <4>2. CASE gitRepo.id # gitCall[g].id
        BY <4>2, <3>2, <3>3, GitCallGoesOn
      <4> QED
        BY <4>1, <4>2
    <3> QED
      BY <3>4, <3>5, <3>6 DEF GitInv
  <2>6. CASE TokenRefused(g)
    <3>1. GitTypeOK'
      BY <1>0, <2>1, <2>6 DEF TokenRefused, GitTypeOK
    <3>2. GitCommits'
      BY <1>0, <2>1, <2>6 DEF TokenRefused, GitCommits, IdleGitCall
    <3>3. SyncingIsUnderWay'
      BY <2>6, GitCallGoesOn DEF TokenRefused, Working
    <3> QED
      BY <3>1, <3>2, <3>3 DEF GitInv
  <2>7. CASE CloneRuns(g) \/ FetchRuns(g) \/ ResetRuns(g)
    <3>1. PICK e : e = IF FetchRuns(g) THEN [gitCall[g] EXCEPT !.at = "reset"]
                      ELSE [gitCall[g] EXCEPT !.at = "synced"]
      OBVIOUS
    <3>2. /\ gitCall' = [gitCall EXCEPT ![g] = e]
          /\ UNCHANGED <<gitConnection, madeConnections, gitRepo, madeRepos, head>>
      BY <2>7, <3>1 DEF CloneRuns, FetchRuns, ResetRuns
    <3>3. /\ e \in Call /\ e.at \in {"reset", "synced"} /\ e.id = gitCall[g].id
          /\ e.since = gitCall[g].since
          /\ e.at = "reset" => FetchRuns(g)
          /\ e.at = "synced" => CloneRuns(g) \/ ResetRuns(g)
      BY <2>1, <2>7, <3>1
    <3>4. /\ origin' \in {origin, head} /\ workspace' \in {workspace, origin, head}
          /\ workspace' <= origin' /\ origin <= origin' /\ workspace <= workspace' /\ origin' <= head
          /\ gitCall[g].since <= head
          /\ e.at = "synced" => gitCall[g].since <= workspace'
          /\ e.at = "reset" => gitCall[g].since <= origin'
      <4>1. /\ workspace <= origin /\ origin <= head /\ gitCall[g].since <= head /\ gitCall[g].since \in Nat
            /\ gitCall[g].at = "reset" => gitCall[g].since <= origin
            /\ origin \in Nat /\ head \in Nat /\ workspace \in Nat
        BY <1>0, <2>1 DEF GitCommits
      <4>2. CASE CloneRuns(g)
        BY <4>1, <4>2 DEF CloneRuns
      <4>3. CASE FetchRuns(g)
        <5>1. e.at = "reset"
          BY <2>1, <3>1, <4>3
        <5> QED
          BY <4>1, <4>3, <5>1 DEF FetchRuns
      <4>4. CASE ResetRuns(g)
        <5>1. ~FetchRuns(g)
          BY <4>4 DEF ResetRuns, FetchRuns
        <5>2. e.at = "synced"
          BY <2>1, <3>1, <5>1
        <5> QED
          BY <4>1, <4>4, <5>2 DEF ResetRuns
      <4> QED
        BY <2>7, <4>2, <4>3, <4>4
    <3>5. GitTypeOK'
      BY <1>0, <2>1, <3>2, <3>3, <3>4 DEF GitTypeOK
    <3>6. GitCommits'
      <4>1. ASSUME NEW h \in GitCaller, h # g
            PROVE  /\ gitCall'[h].since <= head'
                   /\ gitCall'[h].at = "token" => gitCall'[h].then \in {"clone", "fetch"}
                   /\ gitCall'[h].at = "reset" => gitCall'[h].since <= origin'
                   /\ gitCall'[h].at = "synced" => gitCall'[h].since <= workspace'
        <5>1. gitCall'[h] = gitCall[h] /\ gitCall[h].since \in Nat
          BY <2>1, <3>2, <4>1
        <5>2. origin' \in Nat /\ workspace' \in Nat /\ origin \in Nat /\ workspace \in Nat
          BY <2>1, <3>4
        <5> QED
          BY <1>0, <3>2, <3>4, <5>1, <5>2 DEF GitCommits
      <4>2. gitCall'[g] = e
        BY <2>1, <3>2
      <4> QED
        BY <3>2, <3>3, <3>4, <4>1, <4>2 DEF GitCommits
    <3>7. SyncingIsUnderWay'
      BY <3>2, <3>3, GitCallGoesOn
    <3> QED
      BY <3>5, <3>6, <3>7 DEF GitInv
  <2>8. CASE GitCommandFails(g) \/ RecordSynced(g)
    <3>1. PICK outcome \in {"failed", "synced"} : UpdateSyncStatus(gitCall[g].id, outcome)
      BY <2>8 DEF GitCommandFails, RecordSynced
    <3>2. /\ gitCall' = [gitCall EXCEPT ![g] = IdleGitCall]
          /\ UNCHANGED <<gitConnection, madeConnections, madeRepos, head, origin, workspace>>
          /\ gitRepo' = IF gitRepo.id = gitCall[g].id THEN [gitRepo EXCEPT !.status = outcome] ELSE gitRepo
      BY <2>8, <3>1 DEF GitCommandFails, RecordSynced, UpdateSyncStatus
    <3>3. GitTypeOK'
      BY <1>0, <2>1, <3>1, <3>2 DEF GitTypeOK
    <3>4. GitCommits'
      BY <1>0, <2>1, <3>2 DEF GitCommits, IdleGitCall
    <3>5. SyncingIsUnderWay'
      <4>1. /\ gitRepo'.id = gitRepo.id
            /\ gitRepo'.status = "syncing" => gitRepo.status = "syncing" /\ gitRepo.id # gitCall[g].id
        BY <1>0, <3>1, <3>2 DEF GitTypeOK
      <4>2. PICK e : e = IdleGitCall
        OBVIOUS
      <4>3. gitCall' = [gitCall EXCEPT ![g] = e]
        BY <3>2, <4>2
      <4> QED
        BY <4>1, <4>3, GitCallGoesOn
    <3> QED
      BY <3>3, <3>4, <3>5 DEF GitInv
  <2> QED
    BY <1>4, <2>2, <2>3, <2>4, <2>5, <2>6, <2>7, <2>8
<1> QED
  BY <1>1, <1>2, <1>3, <1>4 DEF GitNext

LEMMA GitStutters ==
    ASSUME GitInv, UNCHANGED gitVars
    PROVE  GitInv'
  BY DEF gitVars, GitInv, GitTypeOK, GitCommits, SyncingIsUnderWay, Working

LEMMA GitGood == GitInv => GitTypeOK /\ SyncingIsUnderWay /\ SyncedIsCurrent
<1> SUFFICES ASSUME GitInv PROVE SyncedIsCurrent
  BY DEF GitInv
<1>1. workspace \in Nat /\ \A g \in GitCaller : gitCall[g].since \in Nat
  BY DEF GitInv, GitTypeOK
<1> QED
  BY <1>1 DEF GitInv, GitCommits, SyncedIsCurrent

-----------------------------------------------------------------------------
(* The parts together.                                                       *)

LEMMA PartsStep ==
    [Next]_vars =>
        /\ [CollaborationNext]_meetingPlaceVars /\ [ControlsNext]_controlVars
        /\ [EditingNext]_editingVars /\ [HotReloadNext]_hotReloadVars
        /\ [WatchingNext]_watchVars /\ [TemplatesNext]_templateVars
        /\ [ConfigNext]_configVars /\ [CodeBackupsNext]_codeVars
        /\ [DbBackupsNext]_dbVars /\ [GitNext]_gitVars
  BY DEF Next, OthersStay, vars

\* The invariant of all the parts: each of them its own.
ContentsInv ==
    /\ SessionsInv /\ ControlsInv /\ EditingInv /\ HotReloadInv /\ WatchInv
    /\ TemplatesInv /\ ConfigInv /\ CodeInv /\ DbInv /\ GitInv

LEMMA ContentsInvHolds == Spec => []ContentsInv
<1>1. Init => ContentsInv
  BY SessionsStart, ControlsStart, EditingStart, HotReloadStart, WatchStart, TemplatesStart,
     ConfigStart, CodeStart, DbStart, GitStart DEF Init, ContentsInv
<1>2. ContentsInv /\ [Next]_vars => ContentsInv'
  <2> SUFFICES ASSUME ContentsInv, [Next]_vars PROVE ContentsInv'
    OBVIOUS
  <2>1. SessionsInv' /\ ControlsInv' /\ EditingInv'
    BY PartsStep, SessionsStep, SessionsStutter, ControlsStep, ControlsStutters,
       EditingStep, EditingStutters DEF ContentsInv
  <2>2. HotReloadInv' /\ WatchInv' /\ TemplatesInv'
    BY PartsStep, HotReloadStep, HotReloadStutters, WatchStep, WatchStutters,
       TemplatesStep, TemplatesStutter DEF ContentsInv
  <2>3. ConfigInv' /\ CodeInv' /\ DbInv' /\ GitInv'
    BY PartsStep, ConfigStep, ConfigStutters, CodeStep, CodeStutters, DbStep, DbStutters,
       GitStep, GitStutters DEF ContentsInv
  <2> QED
    BY <2>1, <2>2, <2>3 DEF ContentsInv
<1> QED
  BY <1>1, <1>2, PTL DEF Spec

\* Documents, versions and the records of copies keep their shapes, for any numbers of
\* them and any limits.
THEOREM TypeCorrect == Spec => []TypeOK
<1>1. ContentsInv => TypeOK
  BY SessionsGood, EditingGood, HotReloadGood, ConfigGood, CodeGood, DbGood, GitGood
     DEF ContentsInv, TypeOK, ControlsInv, WatchInv, TemplatesInv
<1> QED
  BY <1>1, ContentsInvHolds, PTL

\* HandleEditOperation puts each rune that users type into the document once, however
\* their edits, other connections of theirs and EndSession interleave, and participants
\* of a meeting are what they were told to be (meeting_service.go), but for writes that
\* overlap a join: for any number of editors, documents and participants.
THEOREM EditsAreAlwaysKept == Spec => []EditsAreKept
<1>1. ContentsInv => EditsAreKept
  BY EditingGood DEF ContentsInv, EditsAreKept, ControlsInv
<1> QED
  BY <1>1, ContentsInvHolds, PTL

\* Applying an operation (crdt_engine.go) never takes a character of a text away, nor
\* moves it past another, nor brings a deleted one back, and raises the version whenever
\* it changes the text: for texts of every length and every operation.
THEOREM TextsAlwaysGrow == Spec => TextsGrow
<1>1. ContentsInv /\ [Next]_vars => [DocumentsGrow /\ VersionTellsTexts]_editingVars
  <2> SUFFICES ASSUME ContentsInv, [Next]_vars
               PROVE  [DocumentsGrow /\ VersionTellsTexts]_editingVars
    OBVIOUS
  <2>1. EditingInv /\ [EditingNext]_editingVars
    BY PartsStep DEF ContentsInv
  <2> QED
    BY <2>1, EditingGrows
<1> QED
  BY <1>1, ContentsInvHolds, PTL DEF Spec, TextsGrow

\* Subscribers, watchers, those who edit together and the participants of a meeting are
\* told of what happens as they should be (hotreload_service.go,
\* filewatcher_service.go, collaboration_service.go, screen_share_service.go), but for
\* the races the parts name, for any number of subscribers, connections and sessions,
\* and any size of a queue.
THEOREM ChangesAreAlwaysTold == Spec => []ChangesAreTold
<1>1. ContentsInv => ChangesAreTold
  BY SessionsGood, HotReloadGood DEF ContentsInv, ChangesAreTold, ControlsInv, WatchInv
<1> QED
  BY <1>1, ContentsInvHolds, PTL

\* A version's number leads to its contents (template_service.go,
\* config_backup_service.go) and the index of a history to its operations
\* (history_service.go), for any number of versions, savers and operations and any
\* limit of what is kept.
THEOREM VersionsAlwaysAgree == Spec => []VersionsAgree
<1>1. ContentsInv => VersionsAgree
  BY SessionsGood, ConfigGood DEF ContentsInv, VersionsAgree, TemplatesInv
<1> QED
  BY <1>1, ContentsInvHolds, PTL

\* A backup that has completed can be restored with the backups it builds on
\* (code_backup_service.go, database_backup_service.go), and a checkout that was
\* synchronised is as recent as it was said to be (git_sync_service.go), but for what
\* the parts name, for any number of backups and chains of any length.
THEOREM CopiesAreAlwaysTrue == Spec => []CopiesAreTrue
<1>1. ContentsInv => CopiesAreTrue
  BY CodeGood, DbGood, GitGood DEF ContentsInv, CopiesAreTrue
<1> QED
  BY <1>1, ContentsInvHolds, PTL
==============================================================================
