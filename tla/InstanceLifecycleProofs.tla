------------------------ MODULE InstanceLifecycleProofs ------------------------
(***************************************************************************)
(* Proofs about InstanceLifecycle, for any hosts, instances, calls,        *)
(* readers, retention and page sizes: the window is always one the code    *)
(* accepts, a reader sees every mutation or is told of the gap, and the    *)
(* turns of a lane run in order.                                           *)
(***************************************************************************)
EXTENDS InstanceLifecycle, FiniteSetTheorems, TLAPS

Record == [seq : Nat, rev : Nat]
Windows == [open : BOOLEAN, rev : Nat, seq : Nat, records : Seq(Record)]

\* A call that has passed the look at its instance finds it open.
Opened == {"baseline", "putBaseline", "bind", "submit", "queued", "decide",
           "commit"}
OpenInv ==
  /\ \A i \in Instances : ~inst[i].open => inst[i] = Absent
  /\ \A c \in Calls : call[c].at \in Opened => inst[InstanceOf[c]].open

-----------------------------------------------------------------------------
(* The window                                                               *)

\* What a mutation does to a window: it stays valid, and its oldest record
\* only ever gets younger.
LEMMA AppendedIsValid ==
  ASSUME NEW w \in Windows, ValidWindow(w), NEW rev \in Nat, rev = w.seq,
         w.open \/ w.records = <<>>
  PROVE  /\ Appended(w, rev) \in Windows
         /\ ValidWindow(Appended(w, rev))
         /\ Appended(w, rev).open /\ Appended(w, rev).rev = rev
         /\ Appended(w, rev).seq = w.seq + 1
         /\ Appended(w, rev).records # <<>>
         /\ w.open => Earliest(w) <= Earliest(Appended(w, rev))
<1> DEFINE e == [seq |-> w.seq + 1, rev |-> rev]
           all == Append(w.records, e)
           kept == IF Len(all) > Retention THEN Tail(all) ELSE all
           v == Appended(w, rev)
<1>1. /\ w.records \in Seq(Record) /\ w.seq \in Nat /\ w.open \in BOOLEAN
      /\ Len(w.records) \in Nat
      /\ Retention \in Nat /\ 0 < Retention
  BY LifecycleAssumption DEF Windows
<1>2. /\ e \in Record /\ e.seq = w.seq + 1 /\ e.rev = w.seq
  BY <1>1 DEF Record
<1>3. /\ Len(w.records) <= w.seq /\ Len(w.records) <= Retention
      /\ \A n \in 1 .. Len(w.records) :
           /\ w.records[n].seq = w.seq - Len(w.records) + n
           /\ w.records[n].rev = w.records[n].seq - 1
      /\ w.open => w.records # <<>>
  BY DEF ValidWindow
<1> HIDE DEF e
<1>4. /\ all \in Seq(Record)
      /\ Len(all) = Len(w.records) + 1
      /\ \A n \in 1 .. Len(w.records) : all[n] = w.records[n]
      /\ all[Len(w.records) + 1] = e
  BY <1>1, <1>2
<1> HIDE DEF all
<1>5. /\ Tail(all) \in Seq(Record) /\ Len(Tail(all)) = Len(w.records)
      /\ \A n \in 1 .. Len(w.records) : Tail(all)[n] = all[n + 1]
  BY <1>1, <1>4
<1>6. ASSUME NEW n \in 1 .. Len(all)
      PROVE  /\ all[n].seq = w.seq - Len(w.records) + n
             /\ all[n].rev = all[n].seq - 1
  <2>1. CASE n \in 1 .. Len(w.records)
    <3>1. all[n] = w.records[n]
      BY <2>1, <1>4
    <3>2. /\ w.records[n].seq = w.seq - Len(w.records) + n
          /\ w.records[n].rev = w.records[n].seq - 1
      BY <2>1, <1>3
    <3> QED  BY <3>1, <3>2, Zenon
  <2>2. CASE n = Len(w.records) + 1
    <3>1. all[n] = e
      BY <2>2, <1>4
    <3>2. e.seq = w.seq - Len(w.records) + n /\ e.rev = e.seq - 1
      BY <2>2, <1>1, <1>2
    <3> QED  BY <3>1, <3>2, Zenon
  <2> QED  BY <2>1, <2>2, <1>1, <1>4
<1>7. kept \in Seq(Record)
  BY <1>4, <1>5
<1>8. v = [open |-> TRUE, rev |-> rev, seq |-> w.seq + 1, records |-> kept]
  BY DEF Appended, e, all
<1>9. /\ v \in Windows /\ v.open /\ v.rev = rev
      /\ v.seq = w.seq + 1 /\ v.records = kept
  <2> HIDE DEF kept, v
  <2> QED  BY <1>1, <1>7, <1>8 DEF Windows
<1> HIDE DEF v
<1>10. /\ kept # <<>> /\ Len(kept) \in Nat
       /\ Len(kept) <= Retention /\ Len(kept) <= w.seq + 1
       /\ \A n \in 1 .. Len(kept) :
            /\ kept[n].seq = w.seq + 1 - Len(kept) + n
            /\ kept[n].rev = kept[n].seq - 1
       /\ Len(kept) <= Len(w.records) + 1
  <2>1. CASE Len(all) > Retention
    <3>1. /\ kept = Tail(all) /\ Len(kept) = Len(w.records)
          /\ Len(w.records) = Retention
      BY <2>1, <1>1, <1>3, <1>4, <1>5
    <3> HIDE DEF kept
    <3>2. ASSUME NEW n \in 1 .. Len(kept)
          PROVE  /\ kept[n].seq = w.seq + 1 - Len(kept) + n
                 /\ kept[n].rev = kept[n].seq - 1
      <4>1. kept[n] = all[n + 1] /\ n + 1 \in 1 .. Len(all)
        BY <3>1, <1>1, <1>4, <1>5
      <4>2. /\ all[n + 1].seq = w.seq - Len(w.records) + (n + 1)
            /\ all[n + 1].rev = all[n + 1].seq - 1
        BY <4>1, <1>6
      <4>3. w.seq - Len(w.records) + (n + 1) = w.seq + 1 - Len(kept) + n
        <5>1. Len(kept) = Len(w.records) /\ n \in Int
          BY <3>1
        <5>2. \A a, b, m \in Int : a - b + (m + 1) = a + 1 - b + m
          OBVIOUS
        <5>3. w.seq \in Int /\ Len(w.records) \in Int
          BY <1>1
        <5>4. w.seq - Len(w.records) + (n + 1) = w.seq + 1 - Len(w.records) + n
          BY <5>1, <5>2, <5>3
        <5> QED  BY <5>1, <5>4, Zenon
      <4> QED  BY <4>1, <4>2, <4>3, Zenon
    <3>3. kept # <<>>
      BY <3>1, <1>1
    <3>4. /\ Len(kept) \in Nat /\ Len(kept) <= Retention
          /\ Len(kept) <= w.seq + 1 /\ Len(kept) <= Len(w.records) + 1
      BY <3>1, <1>1, <1>3
    <3> QED  BY <3>2, <3>3, <3>4, Zenon
  <2>2. CASE ~(Len(all) > Retention)
    <3>1. kept = all
      BY <2>2
    <3> HIDE DEF kept
    <3>2. kept # <<>>
      BY <3>1, <1>1, <1>4
    <3> QED  BY <3>1, <3>2, <2>2, <1>1, <1>3, <1>4, <1>6
  <2> QED  BY <2>1, <2>2
<1> HIDE DEF kept
<1>11. ValidWindow(v)
  BY <1>1, <1>9, <1>10 DEF ValidWindow
<1>12. ASSUME w.open PROVE Earliest(w) <= Earliest(v)
  <2>1. Len(w.records) # 0
    BY <1>12, <1>1, <1>3
  <2>2. Earliest(w) = w.seq - Len(w.records) + 1
    BY <2>1, <1>1, <1>3 DEF Earliest
  <2>3. Len(kept) # 0
    BY <1>7, <1>10
  <2>4. Earliest(v) = w.seq + 1 - Len(kept) + 1
    BY <2>3, <1>9, <1>10 DEF Earliest
  <2> QED  BY <2>2, <2>4, <1>1, <1>10
<1> QED  BY <1>9, <1>10, <1>11, <1>12 DEF v
-----------------------------------------------------------------------------
(* Types, valid windows, and open instances                                 *)

CallRecord == [at : Labels, prev : Calls \cup {NoCall}, place : Nat,
               rev : Nat, rejected : BOOLEAN]

\* The two parts of TypeOK that an action can disturb apart.
WindowsOK ==
  /\ inst \in [Instances -> Windows]
  /\ \A i \in Instances : ValidWindow(inst[i])
RestOK ==
  /\ body \in BOOLEAN /\ pinned \subseteq Instances
  /\ tail \in [Lanes -> Calls \cup {NoCall}]
  /\ chained \in [Lanes -> Nat]
  /\ call \in [Calls -> CallRecord]
  /\ reader \in [Readers -> [after : Nat, seen : SUBSET Nat,
                             missed : SUBSET Nat]]
  /\ budget \in [crashes : 0 .. MaxCrashes, faults : 0 .. MaxFaults]

LEMMA TypeParts == TypeOK <=> WindowsOK /\ RestOK
BY DEF TypeOK, WindowsOK, RestOK, Windows, Record, CallRecord

\* The instances only open, their counters and oldest records only grow.
Grows ==
  \A i \in Instances :
    inst[i].open => /\ inst'[i].open
                    /\ Earliest(inst[i]) <= Earliest(inst'[i])

\* What every action does to the windows.
LEMMA WindowStep ==
  ASSUME WindowsOK, OpenInv, RestOK, [Next]_vars
  PROVE  /\ WindowsOK' /\ Grows
         /\ \A i \in Instances : inst'[i] = inst[i] \/ inst'[i].open
<1>1. CASE UNCHANGED inst
  <2>1. \A i \in Instances : inst[i].open =>
          Earliest(inst[i]) <= Earliest(inst[i])
    <3>1. ASSUME NEW i \in Instances, inst[i].open
          PROVE  Earliest(inst[i]) \in Nat
      <4>1. /\ inst[i].records \in Seq(Record) /\ inst[i].records # <<>>
        BY <3>1 DEF WindowsOK, Windows, ValidWindow
      <4>2. inst[i].records[1] \in Record
        BY <4>1
      <4> QED  BY <4>2 DEF Record, Earliest
    <3> QED  BY <3>1
  <2> QED  BY <1>1, <2>1 DEF WindowsOK, Grows
<1>2. ASSUME NEW i \in Instances, NEW rev \in Nat, rev = inst[i].seq,
             inst[i].open \/ inst[i].records = <<>>,
             inst' = [inst EXCEPT ![i] = Appended(inst[i], rev)]
      PROVE  /\ WindowsOK' /\ Grows
             /\ \A j \in Instances : inst'[j] = inst[j] \/ inst'[j].open
  <2>1. inst[i] \in Windows /\ ValidWindow(inst[i])
    BY DEF WindowsOK
  <2>2. /\ Appended(inst[i], rev) \in Windows
        /\ ValidWindow(Appended(inst[i], rev))
        /\ Appended(inst[i], rev).open
        /\ inst[i].open =>
             Earliest(inst[i]) <= Earliest(Appended(inst[i], rev))
    BY <1>2, <2>1, AppendedIsValid
  <2>3. /\ inst' \in [Instances -> Windows]
        /\ inst'[i] = Appended(inst[i], rev)
        /\ \A j \in Instances \ {i} : inst'[j] = inst[j]
    BY <1>2, <2>2 DEF WindowsOK
  <2>4. \A j \in Instances : inst[j].open =>
          Earliest(inst[j]) <= Earliest(inst[j])
    <3>1. ASSUME NEW j \in Instances, inst[j].open
          PROVE  Earliest(inst[j]) \in Nat
      <4>1. /\ inst[j].records \in Seq(Record) /\ inst[j].records # <<>>
        BY <3>1 DEF WindowsOK, Windows, ValidWindow
      <4>2. inst[j].records[1] \in Record
        BY <4>1
      <4> QED  BY <4>2 DEF Record, Earliest
    <3> QED  BY <3>1
  <2>5. WindowsOK'
    BY <2>2, <2>3 DEF WindowsOK
  <2>6. Grows
    BY <2>2, <2>3, <2>4 DEF Grows
  <2> QED  BY <2>2, <2>3, <2>5, <2>6
<1>3. ASSUME NEW c \in Calls, Create(c), ~inst[InstanceOf[c]].open,
             inst' = [inst EXCEPT ![InstanceOf[c]] = Appended(Absent, 0)]
      PROVE  /\ WindowsOK' /\ Grows
             /\ \A j \in Instances : inst'[j] = inst[j] \/ inst'[j].open
  <2>1. InstanceOf[c] \in Instances
    BY LifecycleAssumption
  <2>2. inst[InstanceOf[c]] = Absent
    BY <1>3, <2>1 DEF OpenInv
  <2>3. Absent.seq = 0 /\ Absent.records = <<>>
    BY DEF Absent
  <2>4. inst' = [inst EXCEPT ![InstanceOf[c]] =
                   Appended(inst[InstanceOf[c]], 0)]
    BY <1>3, <2>2, Zenon
  <2>5. 0 = inst[InstanceOf[c]].seq /\ inst[InstanceOf[c]].records = <<>>
    BY <2>2, <2>3, Zenon
  <2> DEFINE i == InstanceOf[c]
  <2>6. /\ i \in Instances /\ 0 \in Nat /\ 0 = inst[i].seq
        /\ inst[i].records = <<>>
        /\ inst' = [inst EXCEPT ![i] = Appended(inst[i], 0)]
    BY <2>1, <2>4, <2>5
  <2> HIDE DEF i
  <2> QED  BY <1>2, <2>6
<1>4. ASSUME NEW c \in Calls, Commit(c), ~UNCHANGED inst
      PROVE  /\ WindowsOK' /\ Grows
             /\ \A j \in Instances : inst'[j] = inst[j] \/ inst'[j].open
  <2> DEFINE i == InstanceOf[c]
  <2>1. i \in Instances
    BY LifecycleAssumption
  <2>2. inst[i].open
    BY <1>4, <2>1 DEF Commit, At, OpenInv, Opened
  <2>3. inst[i] \in Windows /\ ValidWindow(inst[i])
    BY <2>1 DEF WindowsOK
  <2>4. inst[i].rev + 1 \in Nat /\ inst[i].rev + 1 = inst[i].seq
    BY <2>2, <2>3 DEF ValidWindow, Windows
  <2>5. inst' = [inst EXCEPT ![i] = Appended(inst[i], inst[i].rev + 1)]
    BY <1>4 DEF Commit
  <2> HIDE DEF i
  <2> QED  BY <1>2, <2>1, <2>2, <2>4, <2>5
<1>5. CASE UNCHANGED vars
  BY <1>1, <1>5 DEF vars
<1>6. ASSUME NEW c \in Calls, Step(c)
      PROVE  \/ UNCHANGED inst
             \/ Commit(c)
             \/ /\ Create(c) /\ ~inst[InstanceOf[c]].open
                /\ inst' = [inst EXCEPT ![InstanceOf[c]] = Appended(Absent, 0)]
  BY <1>6 DEF Step, Look, Create, ReadBaseline, PutBaseline, Bind, Enqueue,
              Turn, Start, Decide, Fail, Forget
<1>7. ASSUME NEW r \in Readers, NEW n \in PageSizes, Read(r, n)
      PROVE  UNCHANGED inst
  BY <1>7 DEF Read
<1>8. ASSUME NEW h \in Hosts, Crash(h)
      PROVE  UNCHANGED inst
  BY <1>8 DEF Crash
<1> QED  BY <1>1, <1>3, <1>4, <1>5, <1>6, <1>7, <1>8 DEF Next

\* What the four ways of changing a call leave of it.
LEMMA GotoCall ==
  ASSUME call \in [Calls -> CallRecord], NEW c \in Calls, NEW l \in Labels,
         Goto(c, l)
  PROVE  /\ call' \in [Calls -> CallRecord]
         /\ call'[c].at = l /\ call'[c].prev = call[c].prev
         /\ call'[c].place = call[c].place
         /\ \A d \in Calls \ {c} : call'[d] = call[d]
BY DEF Goto, CallRecord

LEMMA EndCall ==
  ASSUME call \in [Calls -> CallRecord], NEW c \in Calls, NEW b \in BOOLEAN,
         End(c, b)
  PROVE  /\ call' \in [Calls -> CallRecord]
         /\ call'[c].at = "ended" /\ call'[c].prev = call[c].prev
         /\ call'[c].place = call[c].place
         /\ \A d \in Calls \ {c} : call'[d] = call[d]
<1>1. "ended" \in Labels
  BY DEF Labels
<1> QED  BY <1>1 DEF End, CallRecord

LEMMA ChainCall ==
  ASSUME call \in [Calls -> CallRecord], NEW c \in Calls,
         tail[LaneOf(c)] \in Calls \cup {NoCall}, chained[LaneOf(c)] \in Nat,
         Chain(c)
  PROVE  /\ call' \in [Calls -> CallRecord]
         /\ call'[c].at = "queued" /\ call'[c].prev = tail[LaneOf(c)]
         /\ call'[c].place = chained[LaneOf(c)] + 1
         /\ \A d \in Calls \ {c} : call'[d] = call[d]
<1>1. "queued" \in Labels
  BY DEF Labels
<1> DEFINE t == tail[LaneOf(c)]
           n == chained[LaneOf(c)] + 1
<1>2. t \in Calls \cup {NoCall} /\ n \in Nat
  OBVIOUS
<1>3. call' = [call EXCEPT ![c].at = "queued", ![c].prev = t, ![c].place = n]
  BY DEF Chain
<1> HIDE DEF t, n
<1>4. /\ call' \in [Calls -> CallRecord]
      /\ call'[c].at = "queued" /\ call'[c].prev = t /\ call'[c].place = n
      /\ \A d \in Calls \ {c} : call'[d] = call[d]
  BY <1>1, <1>2, <1>3 DEF CallRecord
<1> QED  BY <1>4 DEF t, n

LEMMA DecideCall ==
  ASSUME call \in [Calls -> CallRecord], NEW c \in Calls, NEW n \in Nat,
         call' = [call EXCEPT ![c].at = "decide", ![c].prev = NoCall,
                              ![c].rev = n]
  PROVE  /\ call' \in [Calls -> CallRecord]
         /\ call'[c].at = "decide" /\ call'[c].prev = NoCall
         /\ call'[c].place = call[c].place
         /\ \A d \in Calls \ {c} : call'[d] = call[d]
<1>1. "decide" \in Labels
  BY DEF Labels
<1> QED  BY <1>1 DEF CallRecord

\* The rest of the state keeps its types.
LEMMA RestStep ==
  ASSUME WindowsOK, RestOK, [Next]_vars
  PROVE  RestOK'
<1> USE LifecycleAssumption DEF RestOK
<1>0. {"create", "submit", "bind", "putBaseline", "baseline", "commit",
       "forgotten", "crashed"} \subseteq Labels
  BY DEF Labels
<1>1. \A i \in Instances : inst[i].rev \in Nat
  BY DEF WindowsOK, Windows
<1>2. \A c \in Calls : LaneOf(c) \in Lanes /\ InstanceOf[c] \in Instances
  BY DEF LaneOf, Lanes
<1>5. ASSUME NEW c \in Calls, Look(c)
      PROVE  RestOK'
  BY <1>5, <1>0, GotoCall DEF Look
<1>6. ASSUME NEW c \in Calls, Create(c)
      PROVE  RestOK'
  BY <1>6, <1>0, GotoCall DEF Create
<1>7. ASSUME NEW c \in Calls, ReadBaseline(c)
      PROVE  RestOK'
  BY <1>7, <1>0, GotoCall DEF ReadBaseline
<1>8. ASSUME NEW c \in Calls, PutBaseline(c)
      PROVE  RestOK'
  BY <1>8, <1>0, GotoCall DEF PutBaseline
<1>9. ASSUME NEW c \in Calls, Bind(c)
      PROVE  RestOK'
  BY <1>9, <1>2, <1>0, GotoCall DEF Bind
<1>10. ASSUME NEW c \in Calls, Enqueue(c)
       PROVE  RestOK'
  <2>1. call' \in [Calls -> CallRecord]
    BY <1>10, <1>2, ChainCall DEF Enqueue
  <2>2. /\ tail' \in [Lanes -> Calls \cup {NoCall}]
        /\ chained' \in [Lanes -> Nat]
    BY <1>10, <1>2 DEF Enqueue, Chain
  <2> QED  BY <2>1, <2>2, <1>10 DEF Enqueue
<1>11. ASSUME NEW c \in Calls, Start(c)
       PROVE  RestOK'
  <2>1. CASE End(c, FALSE)
    BY <2>1, <1>11, EndCall DEF Start
  <2>2. CASE call' = [call EXCEPT ![c].at = "decide", ![c].prev = NoCall,
                                  ![c].rev = inst[InstanceOf[c]].rev]
    BY <2>2, <1>11, <1>1, <1>2, DecideCall DEF Start
  <2> QED  BY <2>1, <2>2, <1>11 DEF Start
<1>12. ASSUME NEW c \in Calls, Decide(c)
       PROVE  RestOK'
  BY <1>12, <1>0, GotoCall, EndCall DEF Decide
<1>13. ASSUME NEW c \in Calls, Commit(c)
       PROVE  RestOK'
  BY <1>13, EndCall DEF Commit
<1>14. ASSUME NEW c \in Calls, Fail(c)
       PROVE  RestOK'
  <2>1. budget' \in [crashes : 0 .. MaxCrashes, faults : 0 .. MaxFaults]
    BY <1>14 DEF Fail
  <2> QED  BY <2>1, <1>14, EndCall DEF Fail
<1>15. ASSUME NEW c \in Calls, Forget(c)
       PROVE  RestOK'
  BY <1>15, <1>2, <1>0, GotoCall DEF Forget
<1>16. ASSUME NEW r \in Readers, NEW n \in PageSizes, Read(r, n)
       PROVE  RestOK'
  <2> DEFINE w == inst[ReadOf[r]]
             d == reader[r]
             page == Page(w, d.after, n)
             gap == IF Truncated(w, d.after)
                    THEN (d.after + 1) .. (Earliest(w) - 1) ELSE {}
  <2>1. w \in Windows /\ ValidWindow(w) /\ w.open
    BY <1>16 DEF Read, WindowsOK
  <2>11. \A k \in 1 .. Len(w.records) : w.records[k] \in Record
    BY <2>1 DEF Windows
  <2>12. w.records # <<>> /\ Len(w.records) \in Nat
    BY <2>1 DEF Windows, ValidWindow
  <2> HIDE DEF w
  <2>2. Later(w, d.after) \subseteq Nat
    BY <2>11 DEF Later, Record
  <2>3. page \subseteq Nat
    BY <2>2 DEF Page
  <2>4. Earliest(w) \in Nat
    <3>1. w.records[1] \in Record
      BY <2>1, <2>12 DEF Windows
    <3> QED  BY <3>1 DEF Earliest, Record
  <2>5. d.after \in Nat /\ d.seen \subseteq Nat /\ d.missed \subseteq Nat
    OBVIOUS
  <2>6. gap \subseteq Nat
    BY <2>4, <2>5
  <2>7. PICK last \in page :
          reader' = [reader EXCEPT ![r] =
            [after |-> last, seen |-> d.seen \cup page,
             missed |-> d.missed \cup gap]]
    BY <1>16 DEF Read, w
  <2>8. /\ d.seen \cup page \in SUBSET Nat
        /\ d.missed \cup gap \in SUBSET Nat
        /\ last \in Nat
    BY <2>3, <2>5, <2>6, <2>7
  <2> HIDE DEF page, gap, d
  <2>9. reader' \in [Readers -> [after : Nat, seen : SUBSET Nat,
                                 missed : SUBSET Nat]]
    BY <2>7, <2>8
  <2> QED  BY <2>9, <1>16 DEF Read
<1>17. ASSUME NEW h \in Hosts, Crash(h)
       PROVE  RestOK'
  <2>1. [NewCall EXCEPT !.at = "crashed"] \in CallRecord
    BY <1>0 DEF NewCall, CallRecord
  <2>2. call' \in [Calls -> CallRecord]
    BY <2>1, <1>17 DEF Crash
  <2>3. /\ tail' \in [Lanes -> Calls \cup {NoCall}]
        /\ chained' \in [Lanes -> Nat]
    BY <1>17 DEF Crash
  <2>4. budget' \in [crashes : 0 .. MaxCrashes, faults : 0 .. MaxFaults]
    BY <1>17 DEF Crash
  <2> QED  BY <2>2, <2>3, <2>4, <1>17 DEF Crash
<1>18. CASE UNCHANGED vars
  BY <1>18 DEF vars
<1> QED
  BY <1>5, <1>6, <1>7, <1>8, <1>9, <1>10, <1>11, <1>12, <1>13, <1>14, <1>15,
     <1>16, <1>17, <1>18 DEF Next, Step, Turn

\* Only a call that has found or made its instance open gets to its turn.
LEMMA OpenStep ==
  ASSUME WindowsOK, RestOK, OpenInv, [Next]_vars, Grows,
         \A i \in Instances : inst'[i] = inst[i] \/ inst'[i].open
  PROVE  OpenInv'
<1>1. \A c \in Calls : InstanceOf[c] \in Instances
  BY LifecycleAssumption
<1>2. \A i \in Instances : ~inst'[i].open => inst'[i] = Absent
  BY DEF OpenInv
<1>3. ASSUME NEW c \in Calls
      PROVE  \/ call'[c].at \notin Opened
             \/ call[c].at \in Opened
             \/ inst'[InstanceOf[c]].open
  <2> USE DEF RestOK, CallRecord
  <2>1. ASSUME NEW d \in Calls, Step(d), d # c
        PROVE  call'[c] = call[c]
    BY <2>1 DEF Step, Look, Create, ReadBaseline, PutBaseline, Bind, Enqueue,
                Turn, Start, Decide, Commit, Fail, Forget, Goto, End, Chain
  <2>2. CASE Look(c)
    BY <2>2, <1>1 DEF Look, Goto, Opened
  <2>3. CASE Create(c)
    <3>1. CASE inst[InstanceOf[c]].open
      BY <3>1, <1>1 DEF Grows
    <3>2. CASE ~inst[InstanceOf[c]].open
      <4>1. /\ InstanceOf[c] \in Instances /\ inst \in [Instances -> Windows]
            /\ inst' = [inst EXCEPT ![InstanceOf[c]] = Appended(Absent, 0)]
        BY <2>3, <3>2, <1>1 DEF Create, WindowsOK
      <4>2. Appended(Absent, 0).open
        BY DEF Appended
      <4> QED  BY <4>1, <4>2
    <3> QED  BY <3>1, <3>2
  <2>4. CASE ReadBaseline(c) \/ PutBaseline(c) \/ Bind(c) \/ Enqueue(c)
    BY <2>4 DEF ReadBaseline, PutBaseline, Bind, Enqueue, At, Opened
  <2>5. CASE Turn(c)
    BY <2>5 DEF Turn, Start, Decide, Commit, Fail, At, Opened
  <2>6. CASE Forget(c)
    BY <2>6 DEF Forget, Goto, Opened
  <2>7. ASSUME NEW r \in Readers, NEW n \in PageSizes, Read(r, n)
        PROVE  call' = call
    BY <2>7 DEF Read
  <2>8. ASSUME NEW h \in Hosts, Crash(h)
        PROVE  call'[c] = call[c] \/ call'[c].at \notin Opened
    BY <2>8 DEF Crash, NewCall, Opened
  <2>9. CASE UNCHANGED vars
    BY <2>9 DEF vars
  <2> QED
    BY <2>1, <2>2, <2>3, <2>4, <2>5, <2>6, <2>7, <2>8, <2>9
       DEF Next, Step
<1> QED  BY <1>1, <1>2, <1>3 DEF OpenInv, Grows

LEMMA TypeInit == Init => WindowsOK /\ RestOK /\ OpenInv
<1> SUFFICES ASSUME Init PROVE WindowsOK /\ RestOK /\ OpenInv
  OBVIOUS
<1>1. Absent \in Windows /\ ValidWindow(Absent)
  BY LifecycleAssumption DEF Absent, Windows, ValidWindow
<1>2. WindowsOK
  BY <1>1 DEF Init, WindowsOK
<1>3. RestOK
  <2>1. NewCall \in CallRecord
    BY DEF NewCall, CallRecord, Labels
  <2>2. [crashes |-> 0, faults |-> 0]
          \in [crashes : 0 .. MaxCrashes, faults : 0 .. MaxFaults]
    BY LifecycleAssumption
  <2>3. [after |-> 0, seen |-> {}, missed |-> {}]
          \in [after : Nat, seen : SUBSET Nat, missed : SUBSET Nat]
    OBVIOUS
  <2> QED  BY <2>1, <2>2, <2>3 DEF Init, RestOK
<1>4. OpenInv
  BY DEF Init, OpenInv, NewCall, Opened
<1> QED  BY <1>2, <1>3, <1>4

LEMMA TypeInv == Spec => [](WindowsOK /\ RestOK /\ OpenInv)
<1>1. WindowsOK /\ RestOK /\ OpenInv /\ [Next]_vars
      => (WindowsOK /\ RestOK /\ OpenInv)'
  BY WindowStep, RestStep, OpenStep
<1> QED  BY TypeInit, <1>1, PTL DEF Spec

\* The state is well formed and every stored window is one the code accepts,
\* for any retention (isHf20MutationObservationWindow,
\* kernel-mechanism-v1.mjs:2436).
THEOREM TypeCorrect == Spec => []TypeOK
BY TypeInv, TypeParts, PTL

-----------------------------------------------------------------------------
(* What a reader gets                                                       *)

\* The records after a cursor, and a page of them, have no holes.
LEMMA LaterIsInterval ==
  ASSUME NEW w \in Windows, ValidWindow(w), w.open, NEW after \in Nat
  PROVE  /\ Earliest(w) \in Nat
         /\ Later(w, after) = {n \in Earliest(w) .. w.seq : after < n}
         /\ IsFiniteSet(Later(w, after))
<1>1. /\ w.records \in Seq(Record) /\ Len(w.records) \in Nat /\ w.seq \in Nat
      /\ Len(w.records) # 0 /\ Len(w.records) <= w.seq
      /\ \A n \in 1 .. Len(w.records) :
           w.records[n].seq = w.seq - Len(w.records) + n
  BY DEF ValidWindow, Windows
<1> DEFINE k == w.seq - Len(w.records)
<1>2. k \in Nat /\ Earliest(w) = k + 1 /\ w.seq = k + Len(w.records)
  BY <1>1 DEF Earliest
<1>3. \A n \in 1 .. Len(w.records) : w.records[n].seq = k + n
  BY <1>1
<1> HIDE DEF k
<1>4. {w.records[n].seq : n \in 1 .. Len(w.records)} = (k + 1) .. w.seq
  <2>1. ASSUME NEW n \in 1 .. Len(w.records)
        PROVE  w.records[n].seq \in (k + 1) .. w.seq
    <3>1. w.records[n].seq = k + n
      BY <1>3
    <3>2. k + n \in (k + 1) .. w.seq
      BY <1>1, <1>2
    <3> QED  BY <3>1, <3>2
  <2>2. ASSUME NEW m \in (k + 1) .. w.seq
        PROVE  \E n \in 1 .. Len(w.records) : w.records[n].seq = m
    <3>1. m - k \in 1 .. Len(w.records) /\ k + (m - k) = m
      BY <1>1, <1>2
    <3>2. w.records[m - k].seq = k + (m - k)
      BY <3>1, <1>3
    <3> QED  BY <3>1, <3>2
  <2> QED  BY <2>1, <2>2
<1>5. Later(w, after) = ((k + 1) .. w.seq) \ 0 .. after
  BY <1>4 DEF Later
<1>6. ((k + 1) .. w.seq) \ 0 .. after = {n \in (k + 1) .. w.seq : after < n}
  BY <1>2
<1>7. IsFiniteSet((k + 1) .. w.seq)
  BY <1>1, <1>2, FS_Interval
<1>8. IsFiniteSet(Later(w, after))
  BY <1>5, <1>7, FS_Subset
<1> QED  BY <1>2, <1>5, <1>6, <1>8

LEMMA PageIsInterval ==
  ASSUME NEW w \in Windows, ValidWindow(w), w.open, NEW after \in Nat,
         NEW limit \in Nat, NEW last \in Page(w, after, limit),
         \A n \in Page(w, after, limit) : n <= last
  PROVE  /\ last \in Nat /\ after < last /\ Earliest(w) <= last
         /\ Page(w, after, limit) =
              {n \in Earliest(w) .. last : after < n}
<1> DEFINE L == Later(w, after)
           P == Page(w, after, limit)
<1>1. /\ Earliest(w) \in Nat /\ w.seq \in Nat
      /\ L = {n \in Earliest(w) .. w.seq : after < n} /\ IsFiniteSet(L)
  BY LaterIsInterval DEF Windows
<1>2. P = {n \in L : Cardinality({m \in L : m < n}) < limit}
  BY DEF Page
<1> HIDE DEF L, P
<1>3. ASSUME NEW n \in L, n <= last PROVE n \in P
  <2> DEFINE A == {m \in L : m < n}
             B == {m \in L : m < last}
  <2>1. last \in L /\ Cardinality(B) < limit
    BY <1>2 DEF P
  <2>2. A \subseteq B
    BY <1>1, <1>3, <2>1
  <2>3. IsFiniteSet(B)
    BY <1>1, FS_Subset
  <2>4. /\ Cardinality(A) <= Cardinality(B)
        /\ Cardinality(A) \in Nat /\ Cardinality(B) \in Nat
    BY <2>2, <2>3, FS_Subset, FS_CardinalityType
  <2> HIDE DEF B
  <2>5. Cardinality(A) < limit
    BY <2>1, <2>4
  <2> QED  BY <2>5, <1>2
<1>4. last \in P /\ \A n \in P : n <= last
  BY DEF P
<1>5. last \in L /\ P \subseteq L
  BY <1>2, <1>4
<1>6. last \in Nat /\ after < last /\ Earliest(w) <= last /\ last <= w.seq
  BY <1>1, <1>5
<1>7. P = {n \in Earliest(w) .. last : after < n}
  <2>1. ASSUME NEW n \in P PROVE n \in Earliest(w) .. last /\ after < n
    <3>1. n \in L /\ n <= last
      BY <1>4, <1>5, <2>1
    <3> QED  BY <3>1, <1>1, <1>6
  <2>2. ASSUME NEW n \in Earliest(w) .. last, after < n PROVE n \in P
    <3>1. n \in L /\ n <= last
      BY <1>1, <1>6, <2>2
    <3> QED  BY <3>1, <1>3
  <2>3. P \subseteq {n \in Earliest(w) .. last : after < n}
    BY <2>1
  <2>4. {n \in Earliest(w) .. last : after < n} \subseteq P
    BY <2>2
  <2> QED  BY <2>3, <2>4
<1> QED  BY <1>6, <1>7 DEF P

\* The inductive form of SeenOrMissed.
ReaderOK(d, w) ==
  /\ d.seen \cup d.missed = 1 .. d.after
  /\ d.seen \cap d.missed = {}
  /\ ~w.open => d.after = 0
  /\ \A n \in d.missed : n < Earliest(w)
ReadInv == \A r \in Readers : ReaderOK(reader[r], inst[ReadOf[r]])

LEMMA ReadOne ==
  ASSUME WindowsOK, RestOK, ReadInv,
         NEW r \in Readers, NEW limit \in PageSizes, Read(r, limit)
  PROVE  ReadInv'
<1> DEFINE w == inst[ReadOf[r]]
           d == reader[r]
           page == Page(w, d.after, limit)
           gap == IF Truncated(w, d.after)
                  THEN (d.after + 1) .. (Earliest(w) - 1) ELSE {}
<1>1. /\ w \in Windows /\ ValidWindow(w) /\ w.open /\ limit \in Nat
      /\ d.after \in Nat /\ ReaderOK(d, w)
  BY LifecycleAssumption DEF Read, WindowsOK, RestOK, ReadInv
<1>2. PICK last \in page :
        /\ \A n \in page : n <= last
        /\ reader' = [reader EXCEPT ![r] =
             [after |-> last, seen |-> d.seen \cup page,
              missed |-> d.missed \cup gap]]
  BY DEF Read
<1>3. inst' = inst /\ reader \in [Readers -> [after : Nat, seen : SUBSET Nat,
                                              missed : SUBSET Nat]]
  BY DEF Read, RestOK
<1> DEFINE E == Earliest(w)
           x == [after |-> last, seen |-> d.seen \cup page,
                 missed |-> d.missed \cup gap]
<1>4. E \in Nat
  BY <1>1, LaterIsInterval
<1>5. /\ last \in Nat /\ d.after < last /\ E <= last
      /\ page = {n \in E .. last : d.after < n}
  <2> HIDE DEF w, d
  <2> QED  BY <1>1, <1>2, PageIsInterval
<1>6. gap = IF d.after < E - 1 THEN (d.after + 1) .. (E - 1) ELSE {}
  BY DEF Truncated
<1>7. /\ d.seen \cup d.missed = 1 .. d.after
      /\ d.seen \cap d.missed = {}
      /\ \A n \in d.missed : n < E
  BY <1>1 DEF ReaderOK
<1>8. /\ x.after = last /\ x.seen = d.seen \cup page
      /\ x.missed = d.missed \cup gap
  OBVIOUS
<1>9. reader' = [reader EXCEPT ![r] = x]
  BY <1>2
<1>10. ReaderOK(x, w)
  <2> HIDE DEF page, gap, x, w, d, E
  <2>1. \A n \in gap : n < E /\ d.after < n
    BY <1>1, <1>4, <1>6
  <2>2. \A n \in 1 .. d.after : n \notin page /\ n \notin gap
    BY <1>1, <1>4, <1>5, <2>1
  <2>3. page \cap gap = {}
    BY <1>4, <1>5, <2>1
  <2>4. page \cup gap = (d.after + 1) .. last
    BY <1>1, <1>4, <1>5, <1>6
  <2>5. x.seen \cup x.missed = 1 .. last
    <3>1. (1 .. d.after) \cup ((d.after + 1) .. last) = 1 .. last
      BY <1>1, <1>5
    <3>2. x.seen \cup x.missed = (d.seen \cup d.missed) \cup (page \cup gap)
      BY <1>8
    <3> QED  BY <3>1, <3>2, <2>4, <1>7
  <2>6. x.seen \cap x.missed = {}
    BY <1>7, <1>8, <2>2, <2>3
  <2>7. \A n \in x.missed : n < E
    BY <1>7, <1>8, <2>1
  <2> QED  BY <2>5, <2>6, <2>7, <1>1, <1>8 DEF ReaderOK, E
<1> HIDE DEF w, d, x, page, gap, E
<1>11. ASSUME NEW s \in Readers PROVE ReaderOK(reader'[s], inst'[ReadOf[s]])
  <2>1. CASE s = r
    <3>1. reader'[s] = x /\ inst'[ReadOf[s]] = w
      BY <2>1, <1>3, <1>9 DEF w
    <3> QED  BY <3>1, <1>10
  <2>2. CASE s # r
    <3>1. reader'[s] = reader[s]
      BY <2>2, <1>3, <1>9
    <3> QED  BY <3>1, <1>3 DEF ReadInv
  <2> QED  BY <2>1, <2>2
<1> QED  BY <1>11 DEF ReadInv

LEMMA ReadStep ==
  ASSUME WindowsOK, WindowsOK', RestOK, RestOK', ReadInv, Grows, [Next]_vars
  PROVE  ReadInv'
<1>1. ASSUME reader' = reader
      PROVE  ReadInv'
  <2> SUFFICES ASSUME NEW r \in Readers
               PROVE  ReaderOK(reader[r], inst'[ReadOf[r]])
    BY <1>1 DEF ReadInv
  <2> DEFINE i == ReadOf[r]
  <2>1. i \in Instances
    BY LifecycleAssumption
  <2>2. ReaderOK(reader[r], inst[i])
    BY DEF ReadInv
  <2>3. CASE ~inst[i].open
    <3>1. /\ reader[r].after = 0 /\ reader[r].seen \cup reader[r].missed = {}
      BY <2>2, <2>3 DEF ReaderOK
    <3>2. reader[r].missed = {}
      BY <3>1
    <3> QED  BY <2>2, <3>1, <3>2 DEF ReaderOK
  <2>4. CASE inst[i].open
    <3>1. /\ inst'[i].open /\ Earliest(inst[i]) <= Earliest(inst'[i])
      BY <2>1, <2>4 DEF Grows
    <3>2. Earliest(inst[i]) \in Nat /\ Earliest(inst'[i]) \in Nat
      <4>1. /\ inst[i] \in Windows /\ ValidWindow(inst[i])
            /\ inst'[i] \in Windows /\ ValidWindow(inst'[i])
        BY <2>1 DEF WindowsOK
      <4> HIDE DEF i
      <4> QED  BY <4>1, <2>4, <3>1, LaterIsInterval
    <3>3. reader[r].missed \subseteq Nat
      BY DEF RestOK
    <3>4. \A n \in reader[r].missed : n < Earliest(inst'[i])
      BY <2>2, <3>1, <3>2, <3>3 DEF ReaderOK
    <3> QED  BY <2>2, <3>1, <3>4 DEF ReaderOK
  <2> QED  BY <2>3, <2>4
<1>2. ASSUME NEW c \in Calls, Step(c) PROVE reader' = reader
  BY <1>2 DEF Step, Look, Create, ReadBaseline, PutBaseline, Bind, Enqueue,
              Turn, Start, Decide, Commit, Fail, Forget
<1>3. ASSUME NEW h \in Hosts, Crash(h) PROVE reader' = reader
  BY <1>3 DEF Crash
<1>4. CASE UNCHANGED vars
  BY <1>1, <1>4 DEF vars
<1> QED  BY <1>1, <1>2, <1>3, <1>4, ReadOne DEF Next

\* A reader that follows its cursor sees every mutation or is told of the gap,
\* for any retention, page sizes and interleaving with the mutations
\* (projectHf20ObservationPage, kernel-mechanism-v1.mjs:2484).
THEOREM ReaderMissesNothing == Spec => []SeenOrMissed
<1>1. Init => ReadInv
  <2> SUFFICES ASSUME Init, NEW r \in Readers
               PROVE  ReaderOK(reader[r], inst[ReadOf[r]])
    BY DEF ReadInv
  <2>1. reader[r] = [after |-> 0, seen |-> {}, missed |-> {}]
    BY DEF Init
  <2> QED  BY <2>1 DEF ReaderOK
<1>2. /\ WindowsOK /\ RestOK /\ OpenInv
      /\ (WindowsOK /\ RestOK /\ OpenInv)' /\ ReadInv /\ [Next]_vars
      => ReadInv'
  BY WindowStep, ReadStep
<1>3. ReadInv => SeenOrMissed
  BY DEF ReadInv, ReaderOK, SeenOrMissed
<1> QED  BY <1>1, <1>2, <1>3, TypeInv, PTL DEF Spec

-----------------------------------------------------------------------------
(* The order in a lane                                                      *)

InLane == {"queued", "decide", "commit", "ended", "forgotten"}
Before(c, d) ==
  /\ LaneOf(c) = LaneOf(d)
  /\ 0 < call[c].place /\ call[c].place < call[d].place

\* The places are those of the calls in a lane, and tell them apart.
PlaceInv ==
  /\ \A c \in Calls : 0 < call[c].place <=> call[c].at \in InLane
  /\ \A c \in Calls : call[c].place <= chained[LaneOf(c)]
  /\ \A c, d \in Calls :
       /\ LaneOf(c) = LaneOf(d) /\ call[c].place = call[d].place
       /\ 0 < call[c].place
       => c = d

\* A lane that has forgotten its tail is idle; otherwise the tail is its last.
TailInv ==
  \A l \in Lanes :
    /\ tail[l] = NoCall =>
         \A c \in Calls :
           LaneOf(c) = l /\ 0 < call[c].place => c \in Settled
    /\ tail[l] # NoCall =>
         /\ LaneOf(tail[l]) = l /\ 0 < call[tail[l]].place
         /\ call[tail[l]].place = chained[l]

\* A queued call waits for the last of those before it, if one is unsettled.
QueueInv ==
  \A c \in Calls :
    call[c].at = "queued" =>
      /\ call[c].prev = NoCall =>
           \A d \in Calls : Before(d, c) => d \in Settled
      /\ \A p \in Calls :
           call[c].prev = p =>
             /\ Before(p, c)
             /\ \A d \in Calls : Before(d, c) => call[d].place <= call[p].place

LaneInv == PlaceInv /\ TailInv /\ QueueInv /\ LaneOrder

\* When a turn can start or has started, those before it have settled.
LEMMA EarlierSettled ==
  ASSUME RestOK, LaneInv, NEW c \in Calls,
         Started(c) \/ (call[c].at = "queued" /\ Ready(c)),
         NEW d \in Calls, Before(d, c)
  PROVE  d \in Settled
<1>1. CASE Started(c)
  BY <1>1 DEF LaneInv, LaneOrder, Before
<1>2. CASE call[c].at = "queued" /\ call[c].prev = NoCall
  BY <1>2 DEF LaneInv, QueueInv
<1>3. CASE call[c].at = "queued" /\ call[c].prev # NoCall /\ Ready(c)
  <2> DEFINE e == call[c].prev
  <2>1. e \in Calls /\ e \in Settled
    BY <1>3 DEF Ready, RestOK, CallRecord
  <2>2. /\ Before(e, c) /\ call[d].place <= call[e].place
    BY <1>3, <2>1 DEF LaneInv, QueueInv
  <2>3. call[d].place \in Nat /\ call[e].place \in Nat
    BY <2>1 DEF RestOK, CallRecord
  <2> HIDE DEF e
  <2>4. CASE call[d].place = call[e].place
    <3>1. d = e
      BY <2>1, <2>2, <2>4 DEF LaneInv, PlaceInv, Before
    <3> QED  BY <3>1, <2>1
  <2>5. CASE call[d].place < call[e].place
    <3>1. Before(d, e)
      BY <2>2, <2>5 DEF Before
    <3>2. Started(e)
      BY <2>1 DEF Settled, Started
    <3> QED  BY <3>1, <3>2, <2>1 DEF LaneInv, LaneOrder, Before
  <2> QED  BY <2>2, <2>3, <2>4, <2>5
<1> QED  BY <1>1, <1>2, <1>3

\* A call moves on inside its lane, and may be forgotten as its tail.
LEMMA LaneInside ==
  ASSUME RestOK, RestOK', LaneInv, NEW c \in Calls,
         \A d \in Calls \ {c} : call'[d] = call[d],
         call'[c].place = call[c].place, chained' = chained,
         Started(c) \/ (call[c].at = "queued" /\ Ready(c)),
         call'[c].at \in {"decide", "commit", "ended", "forgotten"},
         c \in Settled => call'[c].at \in {"ended", "forgotten"},
         \A l \in Lanes : \/ tail'[l] = tail[l]
                          \/ tail'[l] = NoCall /\ tail[l] = c /\ c \in Settled
  PROVE  LaneInv'
<1>1. \A d \in Calls : /\ call'[d].place = call[d].place
                       /\ call[d].place \in Nat
  BY DEF RestOK, CallRecord
<1>2. \A d \in Calls : d \in Settled => d \in Settled'
  BY DEF Settled
<1>3. \A d, e \in Calls : Before(d, e)' <=> Before(d, e)
  BY <1>1 DEF Before
<1>4. \A d \in Calls : call[d].at \in InLane <=> call'[d].at \in InLane
  BY DEF InLane, Started
<1>5. PlaceInv'
  BY <1>1, <1>4 DEF LaneInv, PlaceInv
<1>6. TailInv'
  <2> SUFFICES ASSUME NEW l \in Lanes
               PROVE  /\ tail'[l] = NoCall =>
                           \A d \in Calls :
                             LaneOf(d) = l /\ 0 < call'[d].place
                             => d \in Settled'
                      /\ tail'[l] # NoCall =>
                           /\ LaneOf(tail'[l]) = l
                           /\ 0 < call'[tail'[l]].place
                           /\ call'[tail'[l]].place = chained'[l]
    BY DEF TailInv
  <2>1. CASE tail'[l] = tail[l]
    <3>1. tail[l] \in Calls \cup {NoCall}
      BY DEF RestOK
    <3> QED  BY <2>1, <3>1, <1>1, <1>2 DEF LaneInv, TailInv
  <2>2. CASE tail'[l] = NoCall /\ tail[l] = c /\ c \in Settled
    <3>1. /\ LaneOf(c) = l /\ 0 < call[c].place
          /\ call[c].place = chained[l] /\ Started(c)
      BY <2>2, LifecycleAssumption DEF LaneInv, TailInv, Settled, Started
    <3>2. ASSUME NEW d \in Calls, LaneOf(d) = l, 0 < call[d].place
          PROVE  d \in Settled
      <4>1. call[d].place <= call[c].place
        BY <3>1, <3>2 DEF LaneInv, PlaceInv
      <4>2. CASE call[d].place = call[c].place
        BY <2>2, <3>1, <3>2, <4>2 DEF LaneInv, PlaceInv
      <4>3. CASE call[d].place < call[c].place
        BY <3>1, <3>2, <4>3, EarlierSettled DEF Before
      <4> QED  BY <4>1, <4>2, <4>3, <1>1
    <3> QED  BY <2>2, <3>2, <1>1, <1>2
  <2> QED  BY <2>1, <2>2
<1>7. QueueInv'
  <2> SUFFICES ASSUME NEW d \in Calls, call'[d].at = "queued"
               PROVE  /\ call'[d].prev = NoCall =>
                           \A e \in Calls : Before(e, d)' => e \in Settled'
                      /\ \A p \in Calls :
                           call'[d].prev = p =>
                             /\ Before(p, d)'
                             /\ \A e \in Calls :
                                  Before(e, d)' =>
                                    call'[e].place <= call'[p].place
    BY DEF QueueInv
  <2>1. d # c /\ call'[d] = call[d]
    OBVIOUS
  <2> QED  BY <2>1, <1>1, <1>2, <1>3 DEF LaneInv, QueueInv
<1>8. LaneOrder'
  <2> SUFFICES ASSUME NEW d \in Calls, NEW e \in Calls, Before(d, e)',
                      Started(e)'
               PROVE  d \in Settled'
    BY DEF LaneOrder, Before
  <2>1. Before(d, e)
    BY <1>3
  <2>2. Started(e) \/ (call[e].at = "queued" /\ Ready(e))
    BY DEF Started
  <2> QED  BY <2>1, <2>2, <1>2, EarlierSettled
<1> QED  BY <1>5, <1>6, <1>7, <1>8 DEF LaneInv

\* A call outside the lanes moves outside them.
LEMMA LaneOutside ==
  ASSUME RestOK, RestOK', LaneInv, NEW c \in Calls,
         \A d \in Calls \ {c} : call'[d] = call[d],
         call'[c].place = call[c].place, chained' = chained, tail' = tail,
         call[c].at \notin InLane, call'[c].at \notin InLane
  PROVE  LaneInv'
<1>1. \A d \in Calls : /\ call'[d].place = call[d].place
                       /\ call[d].place \in Nat
  BY DEF RestOK, CallRecord
<1>2. \A d \in Calls : d \in Settled <=> d \in Settled'
  BY DEF Settled, InLane
<1>3. \A d, e \in Calls : Before(d, e)' <=> Before(d, e)
  BY <1>1 DEF Before
<1>4. PlaceInv'
  BY <1>1 DEF LaneInv, PlaceInv
<1>5. TailInv'
  BY <1>1, <1>2 DEF LaneInv, TailInv, RestOK
<1>6. QueueInv'
  <2> SUFFICES ASSUME NEW d \in Calls, call'[d].at = "queued"
               PROVE  /\ call'[d].prev = NoCall =>
                           \A e \in Calls : Before(e, d)' => e \in Settled'
                      /\ \A p \in Calls :
                           call'[d].prev = p =>
                             /\ Before(p, d)'
                             /\ \A e \in Calls :
                                  Before(e, d)' =>
                                    call'[e].place <= call'[p].place
    BY DEF QueueInv
  <2>1. d # c /\ call'[d] = call[d]
    BY DEF InLane
  <2> QED  BY <2>1, <1>1, <1>2, <1>3 DEF LaneInv, QueueInv
<1>7. LaneOrder'
  <2> SUFFICES ASSUME NEW d \in Calls, NEW e \in Calls, Before(d, e)',
                      Started(e)'
               PROVE  d \in Settled'
    BY DEF LaneOrder, Before
  <2>1. Before(d, e) /\ Started(e)
    BY <1>3 DEF Started, InLane
  <2> QED  BY <2>1, <1>2, EarlierSettled
<1> QED  BY <1>4, <1>5, <1>6, <1>7 DEF LaneInv

\* A call is chained behind the tail of its lane.
LEMMA LaneChain ==
  ASSUME RestOK, RestOK', LaneInv, NEW c \in Calls,
         call[c].at \notin InLane, Chain(c)
  PROVE  LaneInv'
<1> DEFINE l == LaneOf(c)
<1>1. /\ l \in Lanes
      /\ tail[l] \in Calls \cup {NoCall} /\ chained[l] \in Nat
  BY LifecycleAssumption DEF LaneOf, Lanes, RestOK
<1>2. /\ call'[c].at = "queued" /\ call'[c].prev = tail[l]
      /\ call'[c].place = chained[l] + 1
      /\ \A d \in Calls \ {c} : call'[d] = call[d]
  BY <1>1, ChainCall DEF RestOK
<1>3. /\ tail' = [tail EXCEPT ![l] = c]
      /\ chained' = [chained EXCEPT ![l] = chained[l] + 1]
  BY DEF Chain
<1>4. /\ tail'[l] = c /\ chained'[l] = chained[l] + 1
      /\ \A k \in Lanes \ {l} : tail'[k] = tail[k] /\ chained'[k] = chained[k]
  BY <1>1, <1>3 DEF RestOK
<1>5. \A d \in Calls :
        /\ call[d].place \in Nat /\ LaneOf(d) \in Lanes
        /\ LaneOf(d) = l => call[d].place <= chained[l]
  <2>1. \A d \in Calls : call[d].place \in Nat
    BY DEF RestOK, CallRecord
  <2>2. \A d \in Calls : LaneOf(d) \in Lanes
    BY LifecycleAssumption DEF LaneOf, Lanes
  <2>3. \A d \in Calls : LaneOf(d) = l => call[d].place <= chained[l]
    BY DEF LaneInv, PlaceInv
  <2> QED  BY <2>1, <2>2, <2>3
<1>6. ~(0 < call[c].place) /\ c \notin Settled /\ c \notin Settled'
  BY <1>2 DEF LaneInv, PlaceInv, Settled, InLane
<1> HIDE DEF l
<1>7. \A d \in Calls : d \in Settled <=> d \in Settled'
  BY <1>2, <1>6 DEF Settled
<1>8. /\ \A d, e \in Calls \ {c} : Before(d, e)' <=> Before(d, e)
      /\ \A e \in Calls : ~Before(c, e)'
      /\ \A d \in Calls \ {c} :
           Before(d, c)' <=> LaneOf(d) = l /\ 0 < call[d].place
  <2>1. \A d, e \in Calls \ {c} : Before(d, e)' <=> Before(d, e)
    BY <1>2 DEF Before
  <2>2. ASSUME NEW e \in Calls, Before(c, e)' PROVE FALSE
    <3>1. LaneOf(e) = l /\ chained[l] + 1 < call'[e].place
      BY <1>2, <2>2 DEF Before, l
    <3>2. CASE e = c
      BY <1>1, <1>2, <3>1, <3>2
    <3>3. CASE e # c
      BY <1>1, <1>2, <1>5, <3>1, <3>3
    <3> QED  BY <3>2, <3>3
  <2>3. ASSUME NEW d \in Calls \ {c}
        PROVE  Before(d, c)' <=> LaneOf(d) = l /\ 0 < call[d].place
    <3>1. Before(d, c)' <=> /\ LaneOf(d) = l /\ 0 < call[d].place
                            /\ call[d].place < chained[l] + 1
      BY <1>2 DEF Before, l
    <3>2. LaneOf(d) = l => call[d].place < chained[l] + 1
      BY <1>1, <1>5
    <3> QED  BY <3>1, <3>2
  <2> QED  BY <2>1, <2>2, <2>3
<1>9. PlaceInv'
  <2>1. ASSUME NEW d \in Calls
        PROVE  0 < call'[d].place <=> call'[d].at \in InLane
    <3>1. CASE d = c
      BY <1>1, <1>2, <3>1 DEF InLane
    <3>2. CASE d # c
      BY <1>2, <3>2 DEF LaneInv, PlaceInv
    <3> QED  BY <3>1, <3>2
  <2>2. ASSUME NEW d \in Calls
        PROVE  call'[d].place <= chained'[LaneOf(d)]
    <3>1. CASE d = c
      BY <1>1, <1>2, <1>4, <3>1 DEF l
    <3>2. CASE d # c /\ LaneOf(d) = l
      BY <1>1, <1>2, <1>4, <1>5, <3>2
    <3>3. CASE d # c /\ LaneOf(d) # l
      BY <1>2, <1>4, <1>5, <3>3 DEF LaneInv, PlaceInv
    <3> QED  BY <3>1, <3>2, <3>3
  <2>3. ASSUME NEW d \in Calls, NEW e \in Calls, LaneOf(d) = LaneOf(e),
               call'[d].place = call'[e].place, 0 < call'[d].place
        PROVE  d = e
    <3>1. \A x \in Calls \ {c} :
            LaneOf(x) = l => call'[x].place # chained[l] + 1
      BY <1>1, <1>2, <1>5
    <3>2. CASE d = c
      BY <1>2, <2>3, <3>1, <3>2 DEF l
    <3>3. CASE e = c
      BY <1>2, <2>3, <3>1, <3>3 DEF l
    <3>4. CASE d # c /\ e # c
      BY <1>2, <2>3, <3>4 DEF LaneInv, PlaceInv
    <3> QED  BY <3>2, <3>3, <3>4
  <2> QED  BY <2>1, <2>2, <2>3 DEF PlaceInv
<1>10. TailInv'
  <2> SUFFICES ASSUME NEW k \in Lanes
               PROVE  /\ tail'[k] = NoCall =>
                           \A d \in Calls :
                             LaneOf(d) = k /\ 0 < call'[d].place
                             => d \in Settled'
                      /\ tail'[k] # NoCall =>
                           /\ LaneOf(tail'[k]) = k
                           /\ 0 < call'[tail'[k]].place
                           /\ call'[tail'[k]].place = chained'[k]
    BY DEF TailInv
  <2>1. CASE k = l
    <3>1. tail'[k] = c /\ c # NoCall
      BY <2>1, <1>4, LifecycleAssumption
    <3> QED  BY <2>1, <3>1, <1>1, <1>2, <1>4 DEF l
  <2>2. CASE k # l
    <3>1. tail'[k] = tail[k] /\ chained'[k] = chained[k]
      BY <2>2, <1>4
    <3>2. tail[k] \in Calls \cup {NoCall}
      BY DEF RestOK
    <3>3. LaneOf(c) # k
      BY <2>2 DEF l
    <3> QED  BY <3>1, <3>2, <3>3, <1>2, <1>7 DEF LaneInv, TailInv
  <2> QED  BY <2>1, <2>2
<1>11. QueueInv'
  <2> SUFFICES ASSUME NEW d \in Calls, call'[d].at = "queued"
               PROVE  /\ call'[d].prev = NoCall =>
                           \A e \in Calls : Before(e, d)' => e \in Settled'
                      /\ \A p \in Calls :
                           call'[d].prev = p =>
                             /\ Before(p, d)'
                             /\ \A e \in Calls :
                                  Before(e, d)' =>
                                    call'[e].place <= call'[p].place
    BY DEF QueueInv
  <2>1. CASE d = c
    <3>1. ASSUME tail[l] = NoCall, NEW e \in Calls, Before(e, c)'
          PROVE  e \in Settled'
      <4>1. e # c /\ LaneOf(e) = l /\ 0 < call[e].place
        BY <3>1, <1>8
      <4> QED  BY <4>1, <3>1, <1>1, <1>7 DEF LaneInv, TailInv
    <3>2. ASSUME NEW p \in Calls, tail[l] = p
          PROVE  /\ Before(p, c)'
                 /\ \A e \in Calls :
                      Before(e, c)' => call'[e].place <= call'[p].place
      <4>1. /\ LaneOf(p) = l /\ 0 < call[p].place
            /\ call[p].place = chained[l]
        BY <3>2, <1>1, LifecycleAssumption DEF LaneInv, TailInv
      <4>2. p # c
        BY <4>1, <1>6
      <4>3. Before(p, c)'
        BY <4>1, <4>2, <1>8
      <4>4. ASSUME NEW e \in Calls, Before(e, c)'
            PROVE  call'[e].place <= call'[p].place
        <5>1. e # c /\ LaneOf(e) = l
          BY <4>4, <1>8
        <5> QED  BY <5>1, <4>1, <4>2, <1>2, <1>5
      <4> QED  BY <4>3, <4>4
    <3> QED  BY <2>1, <3>1, <3>2, <1>2
  <2>2. CASE d # c
    <3>1. call'[d] = call[d]
      BY <2>2, <1>2
    <3>2. ASSUME NEW e \in Calls, Before(e, d)'
          PROVE  e # c /\ Before(e, d)
      BY <3>2, <2>2, <1>8
    <3>3. ASSUME NEW p \in Calls, call[d].prev = p
          PROVE  p # c /\ Before(p, d)'
      <4>1. Before(p, d)
        BY <3>1, <3>3 DEF LaneInv, QueueInv
      <4>2. p # c
        BY <4>1, <1>6 DEF Before
      <4> QED  BY <4>1, <4>2, <2>2, <1>8
    <3> QED  BY <3>1, <3>2, <3>3, <1>2, <1>7 DEF LaneInv, QueueInv
  <2> QED  BY <2>1, <2>2
<1>12. LaneOrder'
  <2> SUFFICES ASSUME NEW d \in Calls, NEW e \in Calls, Before(d, e)',
                      Started(e)'
               PROVE  d \in Settled'
    BY DEF LaneOrder, Before
  <2>1. e # c
    BY <1>2 DEF Started
  <2>2. d # c
    BY <1>8
  <2>3. Before(d, e) /\ Started(e)
    BY <2>1, <2>2, <1>2, <1>8 DEF Started
  <2> QED  BY <2>3, <1>7, EarlierSettled
<1> QED  BY <1>9, <1>10, <1>11, <1>12 DEF LaneInv

\* The lanes of a dead host are gone, and so are their calls.
LEMMA LaneCrash ==
  ASSUME RestOK, RestOK', LaneInv, NEW h \in Hosts, Crash(h)
  PROVE  LaneInv'
<1>1. \A c \in Calls : LaneOf(c) \in Lanes /\ LaneOf(c)[1] = HostOf[c]
  BY LifecycleAssumption DEF LaneOf, Lanes
<1>2. ASSUME NEW c \in Calls
      PROVE  IF HostOf[c] = h
             THEN call'[c].at \notin InLane /\ call'[c].place = 0
             ELSE call'[c] = call[c]
  <2>1. CASE HostOf[c] = h /\ call[c].at # "idle"
    <3>1. call'[c] = [NewCall EXCEPT !.at = "crashed"]
      BY <2>1 DEF Crash
    <3> QED  BY <2>1, <3>1 DEF NewCall, InLane
  <2>2. CASE HostOf[c] = h /\ call[c].at = "idle"
    <3>1. call'[c] = call[c] /\ call[c].at \notin InLane
      BY <2>2 DEF Crash, InLane
    <3>2. call[c].place \in Nat /\ ~(0 < call[c].place)
      BY <3>1 DEF LaneInv, PlaceInv, RestOK, CallRecord
    <3> QED  BY <2>2, <3>1, <3>2
  <2>3. CASE HostOf[c] # h
    BY <2>3 DEF Crash
  <2> QED  BY <2>1, <2>2, <2>3
<1>3. \A l \in Lanes : IF l[1] = h THEN tail'[l] = NoCall /\ chained'[l] = 0
                       ELSE tail'[l] = tail[l] /\ chained'[l] = chained[l]
  BY DEF Crash
<1>4. \A c \in Calls : 0 < call'[c].place => HostOf[c] # h
  BY <1>2
<1>5. \A c, d \in Calls : LaneOf(c) = LaneOf(d) => HostOf[c] = HostOf[d]
  BY DEF LaneOf
<1>6. \A c, d \in Calls :
        Before(c, d)' <=> HostOf[c] # h /\ HostOf[d] # h /\ Before(c, d)
  BY <1>2, <1>4, <1>5 DEF Before
<1>7. \A c \in Calls : HostOf[c] # h => (c \in Settled <=> c \in Settled')
  BY <1>2 DEF Settled
<1>8. PlaceInv'
  <2>1. \A c \in Calls : 0 < call'[c].place <=> call'[c].at \in InLane
    BY <1>2 DEF LaneInv, PlaceInv
  <2>2. \A c \in Calls : call'[c].place <= chained'[LaneOf(c)]
    BY <1>1, <1>2, <1>3 DEF LaneInv, PlaceInv
  <2>3. \A c, d \in Calls :
          /\ LaneOf(c) = LaneOf(d) /\ call'[c].place = call'[d].place
          /\ 0 < call'[c].place
          => c = d
    BY <1>2, <1>4, <1>5 DEF LaneInv, PlaceInv
  <2> QED  BY <2>1, <2>2, <2>3 DEF PlaceInv
<1>9. TailInv'
  <2> SUFFICES ASSUME NEW l \in Lanes
               PROVE  /\ tail'[l] = NoCall =>
                           \A c \in Calls :
                             LaneOf(c) = l /\ 0 < call'[c].place
                             => c \in Settled'
                      /\ tail'[l] # NoCall =>
                           /\ LaneOf(tail'[l]) = l
                           /\ 0 < call'[tail'[l]].place
                           /\ call'[tail'[l]].place = chained'[l]
    BY DEF TailInv
  <2>1. CASE l[1] = h
    BY <2>1, <1>1, <1>3, <1>4
  <2>2. CASE l[1] # h
    <3>1. tail'[l] = tail[l] /\ chained'[l] = chained[l]
      BY <2>2, <1>3
    <3>2. tail[l] \in Calls \cup {NoCall}
      BY DEF RestOK
    <3>3. \A c \in Calls : LaneOf(c) = l => HostOf[c] # h
      BY <2>2, <1>1
    <3> QED  BY <3>1, <3>2, <3>3, <1>2, <1>7 DEF LaneInv, TailInv
  <2> QED  BY <2>1, <2>2
<1>10. QueueInv'
  <2> SUFFICES ASSUME NEW c \in Calls, call'[c].at = "queued"
               PROVE  /\ call'[c].prev = NoCall =>
                           \A d \in Calls : Before(d, c)' => d \in Settled'
                      /\ \A p \in Calls :
                           call'[c].prev = p =>
                             /\ Before(p, c)'
                             /\ \A d \in Calls :
                                  Before(d, c)' =>
                                    call'[d].place <= call'[p].place
    BY DEF QueueInv
  <2>1. HostOf[c] # h /\ call'[c] = call[c]
    BY <1>2 DEF InLane
  <2>2. \A d \in Calls : Before(d, c)' <=> HostOf[d] # h /\ Before(d, c)
    BY <2>1, <1>6
  <2>3. \A d \in Calls : Before(d, c) => HostOf[d] # h
    BY <2>1, <1>5 DEF Before
  <2> QED  BY <2>1, <2>2, <2>3, <1>2, <1>7 DEF LaneInv, QueueInv
<1>11. LaneOrder'
  <2> SUFFICES ASSUME NEW c \in Calls, NEW d \in Calls, Before(c, d)',
                      Started(d)'
               PROVE  c \in Settled'
    BY DEF LaneOrder, Before
  <2>1. HostOf[c] # h /\ HostOf[d] # h /\ Before(c, d)
    BY <1>6
  <2>2. Started(d)
    BY <2>1, <1>2 DEF Started
  <2> QED  BY <2>1, <2>2, <1>7, EarlierSettled
<1> QED  BY <1>8, <1>9, <1>10, <1>11 DEF LaneInv

LEMMA LaneStep ==
  ASSUME WindowsOK, RestOK, RestOK', LaneInv, [Next]_vars
  PROVE  LaneInv'
<1> USE DEF At
<1>1. call \in [Calls -> CallRecord]
  BY DEF RestOK
<1>2. ASSUME NEW c \in Calls, NEW l \in Labels \ InLane,
             call[c].at \notin InLane, Goto(c, l), chained' = chained,
             tail' = tail
      PROVE  LaneInv'
  BY <1>1, <1>2, GotoCall, LaneOutside
<1>3. {"create", "submit", "baseline", "putBaseline", "bind"}
        \subseteq Labels \ InLane
  BY DEF Labels, InLane
<1>4. ASSUME NEW c \in Calls, Look(c) PROVE LaneInv'
  <2>1. call[c].at \notin InLane
    BY <1>4 DEF Look, InLane
  <2> QED  BY <2>1, <1>2, <1>3, <1>4 DEF Look
<1>5. ASSUME NEW c \in Calls, Create(c) PROVE LaneInv'
  <2>1. call[c].at \notin InLane
    BY <1>5 DEF Create, InLane
  <2> QED  BY <2>1, <1>2, <1>3, <1>5 DEF Create
<1>6. ASSUME NEW c \in Calls, ReadBaseline(c) PROVE LaneInv'
  <2>1. call[c].at \notin InLane
    BY <1>6 DEF ReadBaseline, InLane
  <2> QED  BY <2>1, <1>2, <1>3, <1>6 DEF ReadBaseline
<1>7. ASSUME NEW c \in Calls, PutBaseline(c) PROVE LaneInv'
  <2>1. call[c].at \notin InLane
    BY <1>7 DEF PutBaseline, InLane
  <2> QED  BY <2>1, <1>2, <1>3, <1>7 DEF PutBaseline
<1>8. ASSUME NEW c \in Calls, Bind(c) PROVE LaneInv'
  <2>1. call[c].at \notin InLane
    BY <1>8 DEF Bind, InLane
  <2> QED  BY <2>1, <1>2, <1>3, <1>8 DEF Bind
<1>9. ASSUME NEW c \in Calls, Enqueue(c) PROVE LaneInv'
  <2>1. call[c].at \notin InLane
    BY <1>9 DEF Enqueue, InLane
  <2> QED  BY <2>1, <1>9, LaneChain DEF Enqueue
<1>10. ASSUME NEW c \in Calls, NEW b \in BOOLEAN, End(c, b),
              Started(c) \/ (call[c].at = "queued" /\ Ready(c)),
              chained' = chained, tail' = tail
       PROVE  LaneInv'
  <2>1. /\ call'[c].at = "ended" /\ call'[c].place = call[c].place
        /\ \A d \in Calls \ {c} : call'[d] = call[d]
    BY <1>1, <1>10, EndCall
  <2> QED  BY <2>1, <1>10, LaneInside
<1>11. ASSUME NEW c \in Calls, Start(c) PROVE LaneInv'
  <2>1. CASE End(c, FALSE)
    BY <2>1, <1>10, <1>11 DEF Start
  <2>2. CASE call' = [call EXCEPT ![c].at = "decide", ![c].prev = NoCall,
                                  ![c].rev = inst[InstanceOf[c]].rev]
    <3>1. inst[InstanceOf[c]].rev \in Nat
      BY LifecycleAssumption DEF WindowsOK, Windows
    <3>2. /\ call'[c].at = "decide" /\ call'[c].place = call[c].place
          /\ \A d \in Calls \ {c} : call'[d] = call[d]
      BY <2>2, <3>1, <1>1, DecideCall
    <3>3. /\ call[c].at = "queued" /\ Ready(c) /\ c \notin Settled
          /\ tail' = tail /\ chained' = chained
      BY <1>11 DEF Start, Settled
    <3> QED  BY <3>2, <3>3, LaneInside
  <2> QED  BY <2>1, <2>2, <1>11 DEF Start
<1>12. ASSUME NEW c \in Calls, Decide(c) PROVE LaneInv'
  <2>1. CASE Goto(c, "commit")
    <3>1. "commit" \in Labels
      BY DEF Labels
    <3>2. /\ call'[c].at = "commit" /\ call'[c].place = call[c].place
          /\ \A d \in Calls \ {c} : call'[d] = call[d]
      BY <2>1, <3>1, <1>1, GotoCall
    <3>3. /\ Started(c) /\ c \notin Settled
          /\ tail' = tail /\ chained' = chained
      BY <1>12 DEF Decide, Settled, Started
    <3> QED  BY <3>2, <3>3, LaneInside
  <2>2. CASE End(c, FALSE) \/ End(c, TRUE)
    BY <2>2, <1>10, <1>12 DEF Decide, Started
  <2> QED  BY <2>1, <2>2, <1>12 DEF Decide
<1>13. ASSUME NEW c \in Calls, Commit(c) PROVE LaneInv'
  BY <1>10, <1>13 DEF Commit, Started
<1>14. ASSUME NEW c \in Calls, Fail(c) PROVE LaneInv'
  BY <1>10, <1>14 DEF Fail, Started
<1>15. ASSUME NEW c \in Calls, Forget(c) PROVE LaneInv'
  <2>1. "forgotten" \in Labels
    BY DEF Labels
  <2>2. /\ call'[c].at = "forgotten" /\ call'[c].place = call[c].place
        /\ \A d \in Calls \ {c} : call'[d] = call[d]
    BY <2>1, <1>1, <1>15, GotoCall DEF Forget
  <2>3. Started(c) /\ c \in Settled /\ chained' = chained
    BY <1>15 DEF Forget, Started, Settled
  <2>4. \A l \in Lanes : \/ tail'[l] = tail[l]
                         \/ tail'[l] = NoCall /\ tail[l] = c /\ c \in Settled
    BY <2>3, <1>15 DEF Forget, RestOK
  <2> QED  BY <2>2, <2>3, <2>4, LaneInside
<1>16. ASSUME UNCHANGED <<call, tail, chained>> PROVE LaneInv'
  BY <1>16 DEF LaneInv, PlaceInv, TailInv, QueueInv, LaneOrder, Before,
               Settled, Started
<1>17. ASSUME NEW r \in Readers, NEW n \in PageSizes, Read(r, n)
       PROVE  LaneInv'
  BY <1>16, <1>17 DEF Read
<1>18. CASE UNCHANGED vars
  BY <1>16, <1>18 DEF vars
<1> QED
  BY <1>4, <1>5, <1>6, <1>7, <1>8, <1>9, <1>11, <1>12, <1>13, <1>14, <1>15,
     <1>17, <1>18, LaneCrash DEF Next, Step, Turn

\* The turns of a lane run one at a time and in the order they were chained,
\* for any number of calls, whoever fails, is cancelled or is forgotten
\* (PerInstanceSerializedLane, kernel-mechanism-v1.mjs:2405).
THEOREM LaneIsOrdered == Spec => []LaneOrder
<1>1. Init => LaneInv
  <2> SUFFICES ASSUME Init PROVE LaneInv
    OBVIOUS
  <2>1. \A c \in Calls : call[c].at = "idle" /\ call[c].place = 0
    BY DEF Init, NewCall
  <2>2. \A c \in Calls : LaneOf(c) \in Lanes
    BY LifecycleAssumption DEF LaneOf, Lanes
  <2>3. PlaceInv
    BY <2>1, <2>2 DEF Init, PlaceInv, InLane
  <2>4. TailInv
    BY <2>1 DEF Init, TailInv
  <2>5. QueueInv
    BY <2>1 DEF QueueInv
  <2>6. LaneOrder
    BY <2>1 DEF LaneOrder
  <2> QED  BY <2>3, <2>4, <2>5, <2>6 DEF LaneInv
<1>2. /\ WindowsOK /\ RestOK /\ OpenInv
      /\ (WindowsOK /\ RestOK /\ OpenInv)' /\ LaneInv /\ [Next]_vars
      => LaneInv'
  BY LaneStep
<1>3. LaneInv => LaneOrder
  BY DEF LaneInv
<1> QED  BY <1>1, <1>2, <1>3, TypeInv, PTL DEF Spec
=============================================================================
