---------------------- MODULE OriginalReceiptRingProofs ----------------------
(***************************************************************************)
(* Proofs about the ring of original receipts and its archive.             *)
(*                                                                         *)
(* The log only ever grows and an archive document is never rewritten.  So *)
(* whatever an occurrence found out about the first snapRev receipts of    *)
(* the log stays true while it is under way, and the ring it composes over *)
(* them is right if its CAS succeeds: the log then still has that length.  *)
(* The facts about one occurrence are predicates on its row, the log and   *)
(* the archive (Fits), so that they can be compared between two states.    *)
(***************************************************************************)
EXTENDS OriginalReceiptRing, SequenceTheorems, TLAPS

-----------------------------------------------------------------------------
(* Logs, their youngest parts and the archives of the rest                  *)

Archives == [Turns -> Entry \cup {NoEntry}]

\* s is the youngest part of the log l.
Youngest(s, l) ==
  /\ Len(s) <= Len(l)
  /\ \A j \in 1..Len(s) : s[j] = l[Len(l) - Len(s) + j]

\* The archive a holds the oldest n receipts of the log l.
Archived(n, l, a) == \A k \in 1..n : a[l[k].turn] = l[k]

\* One receipt for each turn, in order of their revisions.
Once(l) == \A j, k \in 1..Len(l) : /\ l[j].turn = l[k].turn => j = k
                                   /\ l[k].rev = k

\* What archive documents hold was committed, each for its own turn.
Committed(l, a) ==
  \A t \in Turns : a[t] # NoEntry =>
    /\ a[t].turn = t
    /\ \E k \in 1..Len(l) : a[t] = l[k]

LEMMA EntryIs ==
  /\ NoEntry \notin Entry
  /\ \A e \in Entry : e.turn \in Turns /\ e # NoEntry
  /\ RingBound \in Nat \ {0} /\ HistoryBound \in Nat
  /\ HistoryBound <= RingBound
BY RingAssumption DEF Entry, NoEntry

\* Last returns the youngest part of the length asked for, or everything.
LEMMA LastIs ==
  ASSUME NEW s \in Seq(Entry), NEW n \in Nat
  PROVE  /\ Last(s, n) \in Seq(Entry)
         /\ Len(Last(s, n)) = IF Len(s) > n THEN n ELSE Len(s)
         /\ Youngest(Last(s, n), s)
<1>1. Len(s) \in Nat /\ Len(s) \in Int
  OBVIOUS
<1>2. CASE Len(s) > n
  <2> DEFINE m == Len(s) - n + 1
             w == SubSeq(s, m, Len(s))
  <2>1. Last(s, n) = w
    BY <1>2 DEF Last
  <2>2. m \in Int /\ 1 <= m /\ Len(s) - m + 1 = n
    BY <1>1, <1>2
  <2>3. \A k \in m..Len(s) : s[k] \in Entry
    BY <1>1, <2>2
  <2>4. /\ w \in Seq(Entry) /\ Len(w) = IF m <= Len(s) THEN n ELSE 0
        /\ \A j \in 1..n : w[j] = s[m + j - 1]
    <3> HIDE DEF m
    <3> QED
      BY <1>1, <2>2, <2>3, SubSeqProperties
  <2>5. Len(w) = n
    BY <1>1, <1>2, <2>4
  <2>6. \A j \in 1..n : w[j] = s[Len(s) - n + j]
    BY <1>1, <2>4
  <2> HIDE DEF w
  <2> QED
    BY <1>1, <1>2, <2>1, <2>4, <2>5, <2>6 DEF Youngest
<1>3. CASE ~(Len(s) > n)
  <2>1. Last(s, n) = SubSeq(s, 1, Len(s))
    BY <1>3 DEF Last
  <2>2. Last(s, n) = s
    BY <2>1, SubSeqFull
  <2>3. Youngest(s, s)
    BY <1>1 DEF Youngest
  <2> QED
    BY <1>3, <2>2, <2>3
<1> QED
  BY <1>2, <1>3

\* The youngest part of a given length is unique.
LEMMA YoungestIsLast ==
  ASSUME NEW s \in Seq(Entry), NEW l \in Seq(Entry), Youngest(s, l)
  PROVE  s = Last(l, Len(s))
<1>1. Len(s) \in Nat /\ Len(l) \in Nat /\ Len(s) <= Len(l)
  BY DEF Youngest
<1>2. /\ Last(l, Len(s)) \in Seq(Entry) /\ Len(Last(l, Len(s))) = Len(s)
      /\ Youngest(Last(l, Len(s)), l)
  BY <1>1, LastIs
<1>3. \A j \in 1..Len(s) : s[j] = Last(l, Len(s))[j]
  BY <1>2 DEF Youngest
<1> QED
  BY <1>2, <1>3, SeqEqual

\* A part taken from the end of the youngest part is the youngest part.
LEMMA YoungestOfYoungest ==
  ASSUME NEW s \in Seq(Entry), NEW p \in Seq(Entry), NEW l \in Seq(Entry),
         Youngest(s, p), Youngest(p, l)
  PROVE  Youngest(s, l)
<1>1. /\ Len(s) \in Nat /\ Len(p) \in Nat /\ Len(l) \in Nat
      /\ Len(s) <= Len(p) /\ Len(p) <= Len(l)
  BY DEF Youngest
<1>2. ASSUME NEW j \in 1..Len(s) PROVE s[j] = l[Len(l) - Len(s) + j]
  <2> DEFINE i == Len(p) - Len(s) + j
  <2>1. i \in 1..Len(p) /\ Len(l) - Len(p) + i = Len(l) - Len(s) + j
    BY <1>1
  <2>2. s[j] = p[i]
    BY DEF Youngest
  <2> HIDE DEF i
  <2> QED
    BY <2>1, <2>2 DEF Youngest
<1> QED
  BY <1>1, <1>2 DEF Youngest

\* A receipt added to the log is added to its youngest part.
LEMMA YoungestAppend ==
  ASSUME NEW s \in Seq(Entry), NEW l \in Seq(Entry), NEW e \in Entry,
         Youngest(s, l)
  PROVE  Youngest(Append(s, e), Append(l, e))
<1>1. /\ Len(s) \in Nat /\ Len(l) \in Nat /\ Len(s) <= Len(l)
      /\ Len(Append(s, e)) = Len(s) + 1 /\ Len(Append(l, e)) = Len(l) + 1
      /\ \A k \in 1..Len(s) : Append(s, e)[k] = s[k]
      /\ \A k \in 1..Len(l) : Append(l, e)[k] = l[k]
      /\ Append(s, e)[Len(s) + 1] = e /\ Append(l, e)[Len(l) + 1] = e
  BY DEF Youngest
<1>2. ASSUME NEW j \in 1..(Len(s) + 1)
      PROVE  Append(s, e)[j] = Append(l, e)[Len(l) - Len(s) + j]
  <2>1. CASE j = Len(s) + 1
    <3>1. Len(l) - Len(s) + j = Len(l) + 1
      BY <1>1, <2>1
    <3> QED
      BY <1>1, <2>1, <3>1
  <2>2. CASE j # Len(s) + 1
    <3>1. j \in 1..Len(s) /\ Len(l) - Len(s) + j \in 1..Len(l)
      BY <1>1, <2>2
    <3> QED
      BY <1>1, <3>1 DEF Youngest
  <2> QED
    BY <2>1, <2>2
<1>3. /\ Len(l) + 1 - (Len(s) + 1) = Len(l) - Len(s)
      /\ Len(s) + 1 <= Len(l) + 1
  BY <1>1
<1> DEFINE t == Append(s, e)
           m == Append(l, e)
<1>4. /\ Len(t) = Len(s) + 1 /\ Len(m) = Len(l) + 1
      /\ \A j \in 1..(Len(s) + 1) : t[j] = m[Len(l) - Len(s) + j]
  BY <1>1, <1>2
<1> HIDE DEF t, m
<1>5. Youngest(t, m)
  BY <1>3, <1>4 DEF Youngest
<1> QED
  BY <1>5 DEF t, m

\* The log of the next state goes on from the log of this one, and archive
\* documents stay.
GoesOn(l, m) ==
  /\ Len(l) <= Len(m)
  /\ \A k \in 1..Len(l) : m[k] = l[k]

Stays(a, b) == \A t \in Turns : a[t] # NoEntry => b[t] = a[t]

LEMMA ArchivedStays ==
  ASSUME NEW l \in Seq(Entry), NEW m \in Seq(Entry), NEW a, NEW b,
         GoesOn(l, m), Stays(a, b), NEW n \in Int, n <= Len(l),
         Archived(n, l, a)
  PROVE  Archived(n, m, b)
<1> SUFFICES ASSUME NEW k \in 1..n PROVE b[m[k].turn] = m[k]
  BY DEF Archived
<1>1. k \in 1..Len(l) /\ m[k] = l[k] /\ l[k] \in Entry
  BY DEF GoesOn
<1>2. a[l[k].turn] = l[k] /\ l[k].turn \in Turns /\ l[k] # NoEntry
  BY <1>1, EntryIs DEF Archived
<1> QED
  BY <1>1, <1>2 DEF Stays

LEMMA CommittedStays ==
  ASSUME NEW l \in Seq(Entry), NEW m \in Seq(Entry), NEW a,
         GoesOn(l, m), Committed(l, a)
  PROVE  Committed(m, a)
BY DEF Committed, GoesOn

-----------------------------------------------------------------------------
(* One occurrence                                                           *)

Row == [pc : Labels, turn : Turns \cup {NoTurn}, input : Inputs \cup {NoInput},
        snapRev : Nat, snapHistory : Seq(Entry), next : Seq(Entry)]

EntryOf(x) == [turn |-> x.turn, input |-> x.input, rev |-> x.snapRev + 1]

\* The ring composed is the youngest part of the snapshot's log and the new
\* receipt; what it leaves out is archived, and it leaves out nothing as long
\* as it is below its bound.
ComposedOver(x, l, a) ==
  LET n == Len(x.next)
      m == x.snapRev + 1
  IN /\ n \in 1..m
     /\ x.next[n] = EntryOf(x)
     /\ \A j \in 1..(n - 1) : x.next[j] = l[m - n + j]
     /\ Archived(m - n, l, a)
     /\ n < RingBound => n = m
     /\ x.pc \in {"evict", "compare"} => n > RingBound

Fits(x, l, a) ==
  /\ x \in Row
  /\ x.pc # "idle" => /\ x.turn \in Turns /\ x.input \in Inputs
                      /\ x.snapRev <= Len(l)
  /\ x.pc = "archiveRead" =>
       \A k \in 1..x.snapRev : l[k].turn = x.turn => a[x.turn] # NoEntry
  /\ x.pc \in {"decided", "evict", "compare", "put"} =>
       \A k \in 1..x.snapRev : l[k].turn # x.turn
  /\ x.pc \in {"evict", "compare", "put"} => ComposedOver(x, l, a)
  /\ x.pc = "compare" => a[Head(x.next).turn] # NoEntry

\* What an occurrence found out stays true.
LEMMA FitsStays ==
  ASSUME NEW x, NEW l \in Seq(Entry), NEW m \in Seq(Entry), NEW a, NEW b,
         GoesOn(l, m), Stays(a, b), Fits(x, l, a)
  PROVE  Fits(x, m, b)
<1>1. CASE x.pc = "idle"
  BY <1>1 DEF Fits
<1>2. CASE x.pc # "idle"
  <2>1. /\ x \in Row /\ x.snapRev \in Nat /\ x.snapRev <= Len(l)
        /\ x.turn \in Turns /\ x.next \in Seq(Entry)
        /\ x.snapRev <= Len(m) /\ Len(l) \in Nat
        /\ \A k \in 1..x.snapRev : m[k] = l[k]
    BY <1>2 DEF Fits, Row, GoesOn
  <2>2. x.pc = "archiveRead" =>
          \A k \in 1..x.snapRev : m[k].turn = x.turn => b[x.turn] # NoEntry
    BY <2>1 DEF Fits, Stays
  <2>3. x.pc \in {"decided", "evict", "compare", "put"} =>
          \A k \in 1..x.snapRev : m[k].turn # x.turn
    BY <2>1 DEF Fits
  <2>4. ASSUME x.pc \in {"evict", "compare", "put"}
        PROVE  ComposedOver(x, m, b)
    <3> DEFINE n == Len(x.next)
               p == x.snapRev + 1
    <3>1. /\ n \in 1..p /\ x.next[n] = EntryOf(x)
          /\ \A j \in 1..(n - 1) : x.next[j] = l[p - n + j]
          /\ Archived(p - n, l, a)
          /\ n < RingBound => n = p
          /\ x.pc \in {"evict", "compare"} => n > RingBound
      BY <2>4 DEF Fits, ComposedOver
    <3>2. p - n \in Int /\ p - n <= Len(l)
      BY <2>1, <3>1
    <3>3. Archived(p - n, m, b)
      <4> HIDE DEF p, n
      <4> QED
        BY <3>1, <3>2, ArchivedStays
    <3>4. ASSUME NEW j \in 1..(n - 1) PROVE x.next[j] = m[p - n + j]
      <4>1. p - n + j \in 1..x.snapRev
        <5>1. n \in 1..p /\ x.snapRev \in Nat /\ p = x.snapRev + 1
          BY <2>1, <3>1
        <5> HIDE DEF n, p
        <5> QED
          BY <5>1
      <4> QED
        BY <2>1, <3>1, <4>1
    <3> QED
      BY <3>1, <3>3, <3>4 DEF ComposedOver
  <2>5. x.pc = "compare" => b[Head(x.next).turn] # NoEntry
    <3> SUFFICES ASSUME x.pc = "compare" PROVE b[Head(x.next).turn] # NoEntry
      OBVIOUS
    <3>1. Len(x.next) > RingBound /\ a[Head(x.next).turn] # NoEntry
      BY DEF Fits, ComposedOver
    <3>2. Head(x.next).turn \in Turns
      BY <2>1, <3>1, EntryIs
    <3> QED
      BY <3>1, <3>2 DEF Stays
  <2> QED
    BY <1>2, <2>1, <2>2, <2>3, <2>4, <2>5 DEF Fits
<1> QED
  BY <1>1, <1>2

-----------------------------------------------------------------------------
(* The invariant                                                            *)

\* The ring is the youngest part of the log, and full before it leaves
\* anything out; everything it leaves out is archived.
RingOver(s, l, a) ==
  /\ Youngest(s, l)
  /\ Archived(Len(l) - Len(s), l, a)
  /\ Len(s) < RingBound => Len(s) = Len(l)

Inv ==
  /\ log \in Seq(Entry) /\ ring \in Seq(Entry) /\ history \in Seq(Entry)
  /\ archive \in Archives
  /\ loc \in [Runtimes -> Row]
  /\ faults \in Nat
  /\ Once(log)
  /\ Committed(log, archive)
  /\ RingOver(ring, log, archive)
  /\ Youngest(history, log) /\ Len(history) <= HistoryBound
  /\ \A r \in Runtimes : Fits(loc[r], log, archive)

\* A step of one occurrence that commits nothing keeps the invariant if what
\* it archives was committed and its own row fits.
LEMMA RowKept ==
  ASSUME Inv, NEW r \in Runtimes, NEW x,
         loc' = [loc EXCEPT ![r] = x],
         UNCHANGED <<log, ring, history>>, faults' \in Nat,
         archive' \in Archives, Stays(archive, archive'),
         Committed(log, archive'), Fits(x, log, archive')
  PROVE  Inv'
<1>1. x \in Row
  BY DEF Fits
<1>2. GoesOn(log, log) /\ log \in Seq(Entry)
  BY DEF GoesOn, Inv
<1>3. \A q \in Runtimes : Fits(loc'[q], log, archive')
  <2> SUFFICES ASSUME NEW q \in Runtimes PROVE Fits(loc'[q], log, archive')
    OBVIOUS
  <2>1. CASE q = r
    <3>1. loc'[q] = x
      BY <2>1 DEF Inv
    <3> QED
      BY <3>1
  <2>2. CASE q # r
    <3>1. loc'[q] = loc[q] /\ Fits(loc[q], log, archive)
      BY <2>2 DEF Inv
    <3> QED
      BY <1>2, <3>1, FitsStays
  <2> QED
    BY <2>1, <2>2
<1>4. RingOver(ring, log, archive')
  <2>1. /\ RingOver(ring, log, archive) /\ ring \in Seq(Entry)
        /\ Len(ring) \in Nat /\ Len(log) \in Nat
    BY DEF Inv
  <2>2. Len(log) - Len(ring) \in Int /\ Len(log) - Len(ring) <= Len(log)
    BY <2>1
  <2>3. Archived(Len(log) - Len(ring), log, archive')
    BY <1>2, <2>1, <2>2, ArchivedStays DEF RingOver
  <2> QED
    BY <2>1, <2>3 DEF RingOver
<1>5. loc' \in [Runtimes -> Row]
  BY <1>1 DEF Inv
<1> QED
  BY <1>3, <1>4, <1>5 DEF Inv

\* The same, for a step that leaves the archive alone.
LEMMA QuietKept ==
  ASSUME Inv, NEW r \in Runtimes, NEW x,
         loc' = [loc EXCEPT ![r] = x],
         UNCHANGED <<log, ring, history, archive>>, faults' \in Nat,
         Fits(x, log, archive)
  PROVE  Inv'
<1>1. /\ archive' \in Archives /\ Stays(archive, archive')
      /\ Committed(log, archive') /\ Fits(x, log, archive')
  BY DEF Inv, Stays
<1> QED
  BY <1>1, RowKept

LEMMA IdleFits ==
  ASSUME NEW l, NEW a
  PROVE  Fits(Idle, l, a)
<1>1. /\ <<>> \in Seq(Entry) /\ Idle.pc = "idle" /\ 0 \in Nat
      /\ Idle = [pc |-> "idle", turn |-> NoTurn, input |-> NoInput,
                 snapRev |-> 0, snapHistory |-> <<>>, next |-> <<>>]
  BY DEF Idle
<1>2. Idle \in Row
  BY <1>1 DEF Row, Labels
<1> QED
  BY <1>1, <1>2 DEF Fits

LEMMA ReturnKept ==
  ASSUME Inv, NEW r \in Runtimes, Return(r),
         UNCHANGED <<log, ring, history, archive>>, faults' \in Nat
  PROVE  Inv'
BY IdleFits, QuietKept DEF Return

-----------------------------------------------------------------------------
(* The steps                                                                *)

LEMMA RowIs ==
  ASSUME Inv, NEW r \in Runtimes
  PROVE  /\ loc \in [Runtimes -> Row] /\ loc[r] \in Row
         /\ Fits(loc[r], log, archive)
         /\ loc[r].next \in Seq(Entry) /\ loc[r].snapRev \in Nat
         /\ \A p : [loc EXCEPT ![r].pc = p]
                     = [loc EXCEPT ![r] = [loc[r] EXCEPT !.pc = p,
                                                         !.next = @]]
         /\ \A p, n : [loc EXCEPT ![r].pc = p, ![r].next = n]
                        = [loc EXCEPT ![r] = [loc[r] EXCEPT !.pc = p,
                                                            !.next = n]]
BY DEF Inv, Row

LEMMA LogIs ==
  ASSUME Inv
  PROVE  /\ log \in Seq(Entry) /\ ring \in Seq(Entry)
         /\ Len(log) \in Nat /\ Len(ring) \in Nat /\ Len(ring) <= Len(log)
         /\ \A k \in 1..Len(log) : /\ log[k] \in Entry
                                   /\ log[k].turn \in Turns
                                   /\ log[k] # NoEntry
         /\ faults \in Nat /\ faults + 1 \in Nat
BY EntryIs DEF Inv, RingOver, Youngest

\* A turn of the log that the ring does not hold has its archive.
LEMMA KnownOrArchived ==
  ASSUME Inv, NEW t, ~Known(t, ring), NEW k \in 1..Len(log), log[k].turn = t
  PROVE  archive[t] = log[k]
<1> DEFINE n == Len(log) - Len(ring)
<1>1. /\ n \in Nat /\ k \in Nat /\ Youngest(ring, log)
      /\ Archived(n, log, archive)
  BY LogIs DEF Inv, RingOver
<1>2. CASE k \in 1..n
  BY <1>1, <1>2 DEF Archived
<1>3. CASE k \notin 1..n
  <2>1. k - n \in 1..Len(ring) /\ n + (k - n) = k
    BY <1>1, <1>3, LogIs
  <2>2. ring[k - n] = log[k]
    BY <1>1, <2>1 DEF Youngest
  <2> QED
    BY <2>1, <2>2 DEF Known, EntriesOf
<1> QED
  BY <1>2, <1>3

LEMMA SubmitKept ==
  ASSUME Inv, NEW r \in Runtimes, NEW t \in Turns, NEW i \in Inputs,
         Submit(r, t, i)
  PROVE  Inv'
<1>1. /\ UNCHANGED <<log, ring, history, archive>> /\ faults' \in Nat
  BY LogIs DEF Submit
<1>2. CASE Known(t, ring)
  BY <1>1, <1>2 DEF Submit, Inv
<1>3. CASE ~Known(t, ring)
  <2> DEFINE x == [pc |-> "archiveRead", turn |-> t, input |-> i,
                   snapRev |-> stateRev, snapHistory |-> history,
                   next |-> <<>>]
  <2>1. loc' = [loc EXCEPT ![r] = x]
    BY <1>3 DEF Submit
  <2>2. x \in Row
    BY LogIs DEF Row, Labels, stateRev, Inv
  <2>3. \A k \in 1..Len(log) : log[k].turn = t => archive[t] # NoEntry
    BY <1>3, LogIs, KnownOrArchived
  <2>4. /\ x.pc = "archiveRead" /\ x.turn = t /\ x.input = i
        /\ x.snapRev = Len(log)
    BY DEF stateRev
  <2> HIDE DEF x
  <2>5. Fits(x, log, archive)
    BY <2>2, <2>3, <2>4, LogIs DEF Fits
  <2> QED
    BY <1>1, <2>1, <2>5, QuietKept
<1> QED
  BY <1>2, <1>3

LEMMA ArchiveReadKept ==
  ASSUME Inv, NEW r \in Runtimes, ArchiveRead(r)
  PROVE  Inv'
<1>1. /\ UNCHANGED <<log, ring, history, archive>> /\ faults' \in Nat
      /\ loc[r].pc = "archiveRead"
  BY LogIs DEF ArchiveRead, At
<1>2. CASE Return(r)
  BY <1>1, <1>2, ReturnKept
<1>3. CASE /\ archive[loc[r].turn] = NoEntry
           /\ loc' = [loc EXCEPT ![r].pc = "decided"]
  <2> DEFINE x == loc[r]
             y == [x EXCEPT !.pc = "decided", !.next = x.next]
  <2>1. loc' = [loc EXCEPT ![r] = y]
    BY <1>3, RowIs
  <2>2. Fits(x, log, archive) /\ x \in Row /\ x.next \in Seq(Entry)
    BY RowIs
  <2>3. /\ y \in Row /\ y.pc = "decided" /\ y.turn = x.turn
        /\ y.input = x.input /\ y.snapRev = x.snapRev
    BY <2>2 DEF Row, Labels
  <2> HIDE DEF y
  <2>4. Fits(y, log, archive)
    BY <1>1, <1>3, <2>2, <2>3 DEF Fits
  <2> QED
    BY <1>1, <2>1, <2>4, QuietKept
<1> QED
  BY <1>2, <1>3 DEF ArchiveRead

\* The first ring of a commit: the ring of the snapshot and the new receipt.
LEMMA ComposeKept ==
  ASSUME Inv, NEW r \in Runtimes, Compose(r)
  PROVE  Inv'
<1>1. /\ UNCHANGED <<log, ring, history, archive>> /\ faults' \in Nat
      /\ loc[r].pc = "decided"
  BY LogIs DEF Compose, At
<1>2. CASE Return(r)
  BY <1>1, <1>2, ReturnKept
<1>3. CASE ~Return(r)
  <2> DEFINE x == loc[r]
             e == EntryOf(x)
             nx == Append(ring, e)
             p == IF Len(nx) > RingBound THEN "evict" ELSE "put"
             y == [x EXCEPT !.pc = p, !.next = nx]
  <2>1. Len(log) = x.snapRev /\ Composed(r, nx)
    BY <1>3 DEF Compose, stateRev, EntryOf
  <2>2. loc' = [loc EXCEPT ![r] = y]
    BY <2>1, RowIs DEF Composed
  <2>3. /\ Fits(x, log, archive) /\ x \in Row /\ x.turn \in Turns
        /\ x.input \in Inputs /\ x.snapRev \in Nat
    BY <1>1, RowIs DEF Fits
  <2>4. e \in Entry
    BY <2>3 DEF EntryOf, Entry
  <2>5. /\ nx \in Seq(Entry) /\ Len(nx) = Len(ring) + 1
        /\ \A j \in 1..Len(ring) : nx[j] = ring[j]
        /\ nx[Len(ring) + 1] = e
    <3> HIDE DEF e
    <3> QED
      BY <2>4, LogIs, AppendProperties
  <2>6. p \in Labels
    BY DEF Labels
  <2>7. /\ y \in Row /\ y.pc = p /\ y.next = nx /\ y.turn = x.turn
        /\ y.input = x.input /\ y.snapRev = x.snapRev
    <3> HIDE DEF nx, p
    <3> QED
      BY <2>3, <2>5, <2>6 DEF Row
  <2>8. EntryOf(y) = e
    BY <2>7 DEF EntryOf
  <2>9. p \in {"evict", "put"} /\ (p = "evict" => Len(nx) > RingBound)
    OBVIOUS
  <2> HIDE DEF e, nx, p, y
  <2>10. ComposedOver(y, log, archive)
    <3>1. RingOver(ring, log, archive) /\ RingBound \in Nat
      BY EntryIs DEF Inv
    <3>2. /\ Len(nx) \in 1..(Len(log) + 1)
          /\ Len(log) + 1 - Len(nx) = Len(log) - Len(ring)
          /\ Len(nx) - 1 = Len(ring)
          /\ Len(nx) < RingBound => Len(nx) = Len(log) + 1
      BY <2>5, <3>1, LogIs DEF RingOver
    <3>3. \A j \in 1..Len(ring) : nx[j] = log[Len(log) - Len(ring) + j]
      BY <2>5, <3>1 DEF RingOver, Youngest
    <3>4. nx[Len(nx)] = EntryOf(y)
      BY <2>5, <2>8
    <3>5. Archived(Len(log) - Len(ring), log, archive)
      BY <3>1 DEF RingOver
    <3> DEFINE n == Len(y.next)
               m == y.snapRev + 1
    <3>6. /\ n = Len(nx) /\ m = Len(log) + 1 /\ m - n = Len(log) - Len(ring)
          /\ n - 1 = Len(ring) /\ n \in 1..m
      BY <2>1, <2>7, <3>2
    <3>7. /\ y.next[n] = EntryOf(y)
          /\ \A j \in 1..(n - 1) : y.next[j] = log[m - n + j]
          /\ Archived(m - n, log, archive)
          /\ n < RingBound => n = m
          /\ y.pc \in {"evict", "compare"} => n > RingBound
      <4> HIDE DEF n, m
      <4> QED
        BY <2>7, <2>9, <3>2, <3>3, <3>4, <3>5, <3>6
    <3> QED
      BY <3>6, <3>7 DEF ComposedOver
  <2>11. Fits(y, log, archive)
    BY <1>1, <2>1, <2>3, <2>7, <2>9, <2>10 DEF Fits
  <2> QED
    BY <1>1, <2>2, <2>11, QuietKept
<1> QED
  BY <1>2, <1>3

\* The oldest receipt of a ring that is too long is a committed one.
LEMMA OldestIs ==
  ASSUME NEW x, NEW l \in Seq(Entry), NEW a, Fits(x, l, a),
         x.pc \in {"evict", "compare"}
  PROVE  LET n == Len(x.next)
             k == x.snapRev + 2 - n
         IN /\ n \in Nat /\ n > RingBound /\ n >= 2
            /\ k \in 1..Len(l) /\ k <= x.snapRev
            /\ Head(x.next) = l[k] /\ Head(x.next) \in Entry
            /\ Tail(x.next) \in Seq(Entry) /\ Len(Tail(x.next)) = n - 1
            /\ \A j \in 1..(n - 1) : Tail(x.next)[j] = x.next[j + 1]
<1> DEFINE n == Len(x.next)
           k == x.snapRev + 2 - n
<1>1. /\ x.next \in Seq(Entry) /\ x.snapRev \in Nat /\ n \in Nat
      /\ x.snapRev <= Len(l) /\ Len(l) \in Nat
      /\ RingBound \in Nat \ {0}
  BY EntryIs DEF Fits, Row
<1>2. /\ n \in 1..(x.snapRev + 1) /\ n > RingBound
      /\ \A j \in 1..(n - 1) : x.next[j] = l[x.snapRev + 1 - n + j]
  <2>1. x.pc \in {"evict", "compare", "put"}
    OBVIOUS
  <2>2. ComposedOver(x, l, a)
    BY <2>1 DEF Fits
  <2>3. n \in 1..(x.snapRev + 1) /\ n > RingBound
    BY <1>1, <2>2 DEF ComposedOver
  <2>4. ASSUME NEW j \in 1..(n - 1)
        PROVE  x.next[j] = l[x.snapRev + 1 - n + j]
    BY <1>1, <2>2 DEF ComposedOver
  <2> QED
    BY <2>3, <2>4
<1>3. n >= 2 /\ k \in 1..Len(l) /\ k <= x.snapRev /\ 1 \in 1..(n - 1)
  BY <1>1, <1>2
<1>4. x.next[1] = l[k]
  <2>1. x.snapRev + 1 - n + 1 = k
    BY <1>1
  <2> QED
    BY <1>2, <1>3, <2>1
<1>5. x.next # <<>> /\ Head(x.next) = x.next[1]
  BY <1>1, <1>3
<1>6. /\ Head(x.next) \in Entry /\ Tail(x.next) \in Seq(Entry)
      /\ Len(Tail(x.next)) = n - 1
      /\ \A j \in 1..Len(Tail(x.next)) : Tail(x.next)[j] = x.next[j + 1]
  BY <1>1, <1>5, HeadTailProperties
<1> QED
  BY <1>1, <1>2, <1>3, <1>4, <1>5, <1>6

\* The places of a ring of n receipts over a log of m when one leaves.
LEMMA DropPlaces ==
  ASSUME NEW n \in Nat, NEW m \in Nat, NEW b \in Nat,
         1 <= n, n <= m, n >= 2, n > b
  PROVE  /\ n - 1 \in 1..m /\ n - 1 >= b /\ m - (n - 1) = m + 1 - n
         /\ \A j \in 1..(n - 2) : /\ j \in 1..(n - 1) /\ j + 1 \in 1..(n - 1)
                                  /\ m - n + (j + 1) = m + 1 - n + j
         /\ \A k \in 1..(m + 1 - n) : k # m + 1 - n => k \in 1..(m - n)
OBVIOUS

\* Once the oldest receipt is archived it may leave the ring.
LEMMA DropFits ==
  ASSUME NEW x, NEW l \in Seq(Entry), NEW a, NEW b, NEW y,
         Fits(x, l, a), x.pc \in {"evict", "compare"}, Stays(a, b),
         b[Head(x.next).turn] = Head(x.next),
         y \in Row, y.next = Tail(x.next), y.turn = x.turn,
         y.input = x.input, y.snapRev = x.snapRev,
         y.pc = IF Len(y.next) > RingBound THEN "evict" ELSE "put"
  PROVE  Fits(y, l, b)
<1> DEFINE n == Len(x.next)
           m == x.snapRev + 1
<1>1. GoesOn(l, l)
  BY DEF GoesOn
<1>2. Fits(x, l, b)
  BY <1>1, FitsStays
<1>3. /\ n \in 1..m /\ x.next[n] = EntryOf(x)
      /\ \A j \in 1..(n - 1) : x.next[j] = l[m - n + j]
      /\ Archived(m - n, l, b)
      /\ x.snapRev \in Nat
      /\ x.turn \in Turns /\ x.input \in Inputs /\ x.snapRev <= Len(l)
      /\ \A k \in 1..x.snapRev : l[k].turn # x.turn
  BY <1>2 DEF Fits, ComposedOver, Row
<1>4. /\ n \in Nat /\ n > RingBound /\ n >= 2 /\ RingBound \in Nat
      /\ Head(x.next) = l[m + 1 - n]
      /\ Len(y.next) = n - 1
      /\ \A j \in 1..(n - 1) : y.next[j] = x.next[j + 1]
  <2> DEFINE k == x.snapRev + 2 - n
  <2>1. k = m + 1 - n
    <3>1. n \in Int /\ x.snapRev \in Int
      BY <1>3
    <3> HIDE DEF n
    <3> QED
      BY <3>1
  <2>2. /\ n \in Nat /\ n > RingBound /\ n >= 2
        /\ Head(x.next) = l[k] /\ Len(Tail(x.next)) = n - 1
        /\ \A j \in 1..(n - 1) : Tail(x.next)[j] = x.next[j + 1]
    BY OldestIs
  <2>3. RingBound \in Nat
    BY EntryIs
  <2> HIDE DEF n, m, k
  <2> QED
    BY <2>1, <2>2, <2>3
<1>5. /\ n - 1 \in 1..m /\ n - 1 >= RingBound /\ m - (n - 1) = m + 1 - n
      /\ \A j \in 1..(n - 2) : /\ j \in 1..(n - 1) /\ j + 1 \in 1..(n - 1)
                               /\ m - n + (j + 1) = m + 1 - n + j
      /\ \A k \in 1..(m + 1 - n) : k # m + 1 - n => k \in 1..(m - n)
  <2>1. 1 <= n /\ n <= m /\ m \in Nat
    BY <1>3
  <2> HIDE DEF n, m
  <2>2. n \in Nat /\ n >= 2 /\ n > RingBound /\ RingBound \in Nat
    BY <1>4
  <2> QED
    BY <2>1, <2>2, DropPlaces
<1>6. /\ Len(y.next) \in 1..m /\ Len(y.next) >= RingBound
      /\ m - Len(y.next) = m + 1 - n
  BY <1>4, <1>5
<1>7. y.next[n - 1] = EntryOf(y)
  <2>1. n - 1 \in 1..(n - 1) /\ n - 1 + 1 = n
    BY <1>4
  <2>2. y.next[n - 1] = x.next[n]
    BY <1>4, <2>1
  <2>3. EntryOf(y) = EntryOf(x)
    BY DEF EntryOf
  <2> QED
    BY <1>3, <2>2, <2>3
<1>8. ASSUME NEW j \in 1..(n - 2) PROVE y.next[j] = l[m + 1 - n + j]
  <2>1. /\ j \in 1..(n - 1) /\ j + 1 \in 1..(n - 1)
        /\ m - n + (j + 1) = m + 1 - n + j
    BY <1>5
  <2>2. y.next[j] = x.next[j + 1]
    BY <1>4, <2>1
  <2>3. x.next[j + 1] = l[m - n + (j + 1)]
    BY <1>3, <2>1
  <2> QED
    BY <2>1, <2>2, <2>3
<1>9. Archived(m + 1 - n, l, b)
  <2> SUFFICES ASSUME NEW k \in 1..(m + 1 - n) PROVE b[l[k].turn] = l[k]
    BY DEF Archived
  <2>1. CASE k = m + 1 - n
    <3>1. l[k] = Head(x.next)
      BY <1>4, <2>1
    <3> QED
      BY <3>1
  <2>2. CASE k # m + 1 - n
    <3>1. k \in 1..(m - n)
      BY <1>5, <2>2
    <3> QED
      BY <1>3, <3>1 DEF Archived
  <2> QED
    BY <2>1, <2>2
<1>10. ComposedOver(y, l, b)
  <2> DEFINE o == Len(y.next)
  <2>1. /\ o \in 1..m /\ o = n - 1 /\ m - o = m + 1 - n
        /\ ~(o < RingBound) /\ o - 1 = n - 2
    BY <1>4, <1>6
  <2>2. \A j \in 1..(o - 1) : y.next[j] = l[m - o + j]
    BY <1>8, <2>1
  <2>3. y.next[o] = EntryOf(y) /\ Archived(m - o, l, b)
    BY <1>7, <1>9, <2>1
  <2>4. y.pc \in {"evict", "compare"} => o > RingBound
    OBVIOUS
  <2> QED
    BY <2>1, <2>2, <2>3, <2>4 DEF ComposedOver
<1> QED
  BY <1>3, <1>10 DEF Fits

\* A ring that is over its bound is written as it is.
LEMMA KeepFits ==
  ASSUME Inv, NEW r \in Runtimes, loc[r].pc \in {"evict", "compare"},
         KeepOldest(r), UNCHANGED <<log, ring, history, archive>>,
         faults' \in Nat
  PROVE  Inv'
<1> DEFINE x == loc[r]
           y == [x EXCEPT !.pc = "put", !.next = x.next]
<1>1. loc' = [loc EXCEPT ![r] = y]
  BY RowIs DEF KeepOldest
<1>2. Fits(x, log, archive) /\ x \in Row /\ x.next \in Seq(Entry)
  BY RowIs
<1>3. /\ y \in Row /\ y.pc = "put" /\ y.turn = x.turn /\ y.next = x.next
      /\ y.input = x.input /\ y.snapRev = x.snapRev
  BY <1>2 DEF Row, Labels
<1> HIDE DEF y
<1>4. ComposedOver(y, log, archive)
  BY <1>2, <1>3 DEF Fits, ComposedOver, EntryOf
<1>5. Fits(y, log, archive)
  BY <1>2, <1>3, <1>4 DEF Fits
<1> QED
  BY <1>1, <1>5, QuietKept

LEMMA DropKept ==
  ASSUME Inv, NEW r \in Runtimes, loc[r].pc \in {"evict", "compare"},
         Composed(r, Tail(loc[r].next)), UNCHANGED <<log, ring, history>>,
         faults' \in Nat, archive' \in Archives, Stays(archive, archive'),
         Committed(log, archive'),
         archive'[Head(loc[r].next).turn] = Head(loc[r].next)
  PROVE  Inv'
<1> DEFINE x == loc[r]
           nx == Tail(x.next)
           p == IF Len(nx) > RingBound THEN "evict" ELSE "put"
           y == [x EXCEPT !.pc = p, !.next = nx]
<1>1. loc' = [loc EXCEPT ![r] = y]
  BY RowIs DEF Composed
<1>2. Fits(x, log, archive) /\ x \in Row
  BY RowIs
<1>3. nx \in Seq(Entry) /\ p \in Labels
  BY <1>2, LogIs, OldestIs DEF Labels
<1>4. /\ y \in Row /\ y.pc = p /\ y.turn = x.turn /\ y.next = nx
      /\ y.input = x.input /\ y.snapRev = x.snapRev
  <2> HIDE DEF nx, p
  <2> QED
    BY <1>2, <1>3 DEF Row
<1>5. Fits(y, log, archive')
  <2> HIDE DEF y
  <2> QED
    BY <1>2, <1>4, LogIs, DropFits
<1> HIDE DEF y
<1> QED
  BY <1>1, <1>5, RowKept

LEMMA EvictKept ==
  ASSUME Inv, NEW r \in Runtimes, Evict(r)
  PROVE  Inv'
<1> DEFINE o == Head(loc[r].next)
<1>1. /\ UNCHANGED <<log, ring, history>> /\ faults' \in Nat
      /\ loc[r].pc = "evict"
  BY LogIs DEF Evict, At
<1>2. PICK k \in 1..Len(log) : o = log[k] /\ o \in Entry
  BY <1>1, LogIs, RowIs, OldestIs
<1>3. CASE KeepOldest(r) /\ UNCHANGED archive
  BY <1>1, <1>3, KeepFits
<1>4. CASE loc' = [loc EXCEPT ![r].pc = "compare"] /\ UNCHANGED archive
           /\ archive[o.turn] # NoEntry
  <2> DEFINE x == loc[r]
             y == [x EXCEPT !.pc = "compare", !.next = x.next]
  <2>1. loc' = [loc EXCEPT ![r] = y]
    BY <1>4, RowIs
  <2>2. Fits(x, log, archive) /\ x \in Row /\ x.next \in Seq(Entry)
    BY RowIs
  <2>3. /\ y \in Row /\ y.pc = "compare" /\ y.turn = x.turn
        /\ y.next = x.next /\ y.input = x.input /\ y.snapRev = x.snapRev
    BY <2>2 DEF Row, Labels
  <2> HIDE DEF y
  <2>4. ComposedOver(y, log, archive)
    BY <1>1, <2>2, <2>3 DEF Fits, ComposedOver, EntryOf
  <2>5. Fits(y, log, archive)
    BY <1>1, <1>4, <2>2, <2>3, <2>4 DEF Fits
  <2> QED
    BY <1>1, <1>4, <2>1, <2>5, QuietKept
<1>5. CASE /\ archive[o.turn] = NoEntry
           /\ archive' = [archive EXCEPT ![o.turn] = o]
           /\ Composed(r, Tail(loc[r].next))
  <2>1. o.turn \in Turns /\ o # NoEntry /\ archive \in Archives
    BY <1>2, EntryIs DEF Inv
  <2> HIDE DEF o
  <2>2. /\ archive' \in Archives /\ archive'[o.turn] = o
        /\ \A t \in Turns : t # o.turn => archive'[t] = archive[t]
    BY <1>2, <1>5, <2>1 DEF Archives
  <2>3. Stays(archive, archive')
    BY <1>5, <2>2 DEF Stays
  <2>4. Committed(log, archive')
    BY <1>2, <2>2 DEF Committed, Inv
  <2> QED
    BY <1>1, <1>5, <2>2, <2>3, <2>4, DropKept DEF o
<1> QED
  BY <1>3, <1>4, <1>5 DEF Evict

\* The archive found in the way is of the receipt that is to leave: both are
\* of one turn and were committed, and a turn is committed once.
LEMMA CompareKept ==
  ASSUME Inv, NEW r \in Runtimes, Compare(r)
  PROVE  Inv'
<1> DEFINE o == Head(loc[r].next)
<1>1. /\ UNCHANGED <<log, ring, history, archive>> /\ faults' \in Nat
      /\ loc[r].pc = "compare"
  BY LogIs DEF Compare, At
<1>2. PICK k \in 1..Len(log) : o = log[k] /\ o \in Entry
  BY <1>1, LogIs, RowIs, OldestIs
<1>3. archive[o.turn] # NoEntry /\ o.turn \in Turns
  BY <1>1, <1>2, RowIs, EntryIs DEF Fits
<1>4. PICK j \in 1..Len(log) : archive[o.turn] = log[j]
                               /\ log[j].turn = o.turn
  BY <1>3 DEF Inv, Committed
<1>5. archive[o.turn] = o
  <2>1. j = k
    BY <1>2, <1>4 DEF Inv, Once
  <2> QED
    BY <1>2, <1>4, <2>1
<1>6. CASE KeepOldest(r)
  BY <1>1, <1>6, KeepFits
<1>7. CASE Composed(r, Tail(loc[r].next))
  <2>1. /\ archive' \in Archives /\ Stays(archive, archive')
        /\ Committed(log, archive')
    BY <1>1 DEF Inv, Stays
  <2> QED
    BY <1>1, <1>5, <1>7, <2>1, DropKept
<1> QED
  BY <1>5, <1>6, <1>7 DEF Compare

\* The CAS that succeeds finds the log its ring was composed over.
LEMMA PutKept ==
  ASSUME Inv, NEW r \in Runtimes, Put(r)
  PROVE  Inv'
<1> DEFINE x == loc[r]
           e == EntryOf(x)
<1>1. UNCHANGED <<archive, faults>> /\ x.pc = "put" /\ Return(r)
  BY DEF Put, At
<1>2. CASE Len(log) # x.snapRev
  <2>1. UNCHANGED <<log, ring, history>>
    BY <1>2 DEF Put, stateRev
  <2> QED
    BY <1>1, <2>1, LogIs, ReturnKept
<1>3. CASE Len(log) = x.snapRev
  <2>1. /\ log' = Append(log, e) /\ ring' = x.next
        /\ history' = Last(Append(history, e), HistoryBound)
    BY <1>3 DEF Put, stateRev, EntryOf
  <2>2. /\ Fits(x, log, archive) /\ x \in Row /\ x.turn \in Turns
        /\ x.input \in Inputs /\ x.snapRev \in Nat /\ x.next \in Seq(Entry)
        /\ \A k \in 1..Len(log) : log[k].turn # x.turn
        /\ ComposedOver(x, log, archive)
    BY <1>1, <1>3, RowIs DEF Fits
  <2>3. e \in Entry /\ e.turn = x.turn /\ e.rev = Len(log) + 1
    BY <1>3, <2>2 DEF EntryOf, Entry
  <2>4. /\ log \in Seq(Entry) /\ history \in Seq(Entry) /\ Len(log) \in Nat
        /\ archive \in Archives /\ Once(log) /\ Committed(log, archive)
        /\ Youngest(history, log)
    BY LogIs DEF Inv
  <2> HIDE DEF e
  <2>5. /\ log' \in Seq(Entry) /\ Len(log') = Len(log) + 1
        /\ \A k \in 1..Len(log) : log'[k] = log[k]
        /\ log'[Len(log) + 1] = e
    BY <2>1, <2>3, <2>4
  <2>6. GoesOn(log, log') /\ Stays(archive, archive)
    BY <2>4, <2>5 DEF GoesOn, Stays
  <2>7. Once(log')
    <3> SUFFICES ASSUME NEW j \in 1..Len(log'), NEW k \in 1..Len(log')
                 PROVE  /\ log'[j].turn = log'[k].turn => j = k
                        /\ log'[k].rev = k
      BY DEF Once
    <3>1. /\ j = Len(log) + 1 \/ j \in 1..Len(log)
          /\ k = Len(log) + 1 \/ k \in 1..Len(log)
      BY <2>4, <2>5
    <3> QED
      BY <2>2, <2>3, <2>4, <2>5, <3>1 DEF Once
  <2>8. Committed(log', archive)
    BY <2>4, <2>5, <2>6, CommittedStays
  <2>9. RingOver(x.next, log', archive)
    <3> DEFINE n == Len(x.next)
               m == x.snapRev + 1
    <3>1. /\ n \in 1..m /\ x.next[n] = e
          /\ \A j \in 1..(n - 1) : x.next[j] = log[m - n + j]
          /\ Archived(m - n, log, archive)
          /\ n < RingBound => n = m
      BY <2>2 DEF ComposedOver, e
    <3>2. /\ Len(log') = m /\ m \in Nat /\ n \in Nat /\ m - n \in Int
          /\ m - n <= Len(log) /\ m = Len(log) + 1
      <4>1. /\ m = Len(log) + 1 /\ Len(log) \in Nat /\ n \in 1..m
            /\ Len(log') = Len(log) + 1
        BY <1>3, <2>4, <2>5, <3>1
      <4> HIDE DEF m, n
      <4> QED
        BY <4>1
    <3>3. Archived(m - n, log', archive)
      <4> HIDE DEF m, n
      <4> QED
        BY <2>4, <2>5, <2>6, <3>1, <3>2, ArchivedStays
    <3>4. ASSUME NEW j \in 1..n PROVE x.next[j] = log'[m - n + j]
      <4> HIDE DEF m, n
      <4>1. CASE j = n
        <5>1. m - n + j = Len(log) + 1
          BY <3>2, <4>1
        <5> QED
          BY <2>5, <3>1, <4>1, <5>1
      <4>2. CASE j # n
        <5>1. j \in 1..(n - 1) /\ m - n + j \in 1..Len(log)
          BY <3>1, <3>2, <4>2
        <5> QED
          BY <2>5, <3>1, <5>1
      <4> QED
        BY <4>1, <4>2
    <3> QED
      BY <3>1, <3>2, <3>3, <3>4 DEF RingOver, Youngest
  <2>10. /\ history' \in Seq(Entry) /\ Len(history') <= HistoryBound
         /\ Youngest(history', log')
    <3> DEFINE h == Append(history, e)
    <3>1. h \in Seq(Entry) /\ Len(h) \in Nat /\ HistoryBound \in Nat
      BY <2>3, <2>4, EntryIs
    <3>2. Youngest(h, log')
      BY <2>1, <2>3, <2>4, YoungestAppend
    <3>3. history' = Last(h, HistoryBound)
      BY <2>1
    <3> HIDE DEF h
    <3>4. /\ history' \in Seq(Entry) /\ Youngest(history', h)
          /\ Len(history') = IF Len(h) > HistoryBound THEN HistoryBound
                                                      ELSE Len(h)
      BY <3>1, <3>3, LastIs
    <3> QED
      BY <2>5, <3>1, <3>2, <3>4, YoungestOfYoungest
  <2>11. /\ loc' \in [Runtimes -> Row]
         /\ \A q \in Runtimes : Fits(loc'[q], log', archive')
    <3>1. Fits(Idle, log', archive) /\ Idle \in Row
      BY IdleFits DEF Fits
    <3>2. \A q \in Runtimes : Fits(loc[q], log', archive)
      BY <2>4, <2>5, <2>6, RowIs, FitsStays
    <3> QED
      BY <1>1, <3>1, <3>2 DEF Inv, Return
  <2> QED
    BY <1>1, <2>1, <2>2, <2>4, <2>5, <2>7, <2>8, <2>9, <2>10, <2>11 DEF Inv
<1> QED
  BY <1>2, <1>3

LEMMA InitInv == Init => Inv
<1> SUFFICES ASSUME Init PROVE Inv
  OBVIOUS
<1>1. /\ log = <<>> /\ ring = <<>> /\ history = <<>> /\ faults = 0
      /\ archive \in Archives /\ \A t \in Turns : archive[t] = NoEntry
      /\ loc = [r \in Runtimes |-> Idle]
  BY DEF Init, Archives
<1>2. <<>> \in Seq(Entry) /\ Len(<<>>) = 0
  OBVIOUS
<1>3. /\ Youngest(<<>>, <<>>) /\ Once(<<>>) /\ Archived(0, <<>>, archive)
      /\ Committed(<<>>, archive) /\ RingOver(<<>>, <<>>, archive)
  BY <1>1, <1>2 DEF Youngest, Once, Archived, Committed, RingOver
<1>4. /\ loc \in [Runtimes -> Row]
      /\ \A r \in Runtimes : Fits(loc[r], log, archive)
  <2>1. Fits(Idle, log, archive) /\ Idle \in Row
    BY IdleFits DEF Fits
  <2> QED
    BY <1>1, <2>1
<1> QED
  BY <1>1, <1>2, <1>3, <1>4, EntryIs DEF Inv

LEMMA NextInv == Inv /\ [Next]_vars => Inv'
<1> SUFFICES ASSUME Inv, [Next]_vars PROVE Inv'
  OBVIOUS
<1>1. CASE UNCHANGED vars
  BY <1>1 DEF vars, Inv
<1>2. ASSUME NEW r \in Runtimes, Crash(r) PROVE Inv'
  BY <1>2, LogIs, ReturnKept DEF Crash
<1> QED
  BY <1>1, <1>2, SubmitKept, ArchiveReadKept, ComposeKept, EvictKept,
     CompareKept, PutKept DEF Next

LEMMA InvAlways == Spec => []Inv
BY InitInv, NextInv, PTL DEF Spec

-----------------------------------------------------------------------------
(* The theorems                                                             *)

\* Ring, history and archive documents hold receipts, each archive document
\* the receipt of its own turn, and every occurrence is well formed.
THEOREM TypeCorrect == Spec => []TypeOK
<1>1. Inv => TypeOK
  <2> SUFFICES ASSUME Inv PROVE TypeOK
    OBVIOUS
  <2>1. \A t \in Turns : archive[t] # NoEntry =>
          archive[t] \in Entry /\ archive[t].turn = t
    BY DEF Inv, Archives, Committed
  <2>2. ASSUME NEW r \in Runtimes
        PROVE  /\ loc[r].pc \in Labels /\ loc[r].snapRev \in Nat
               /\ loc[r].snapHistory \in Seq(Entry)
               /\ loc[r].next \in Seq(Entry)
               /\ loc[r].pc # "idle" => /\ loc[r].turn \in Turns
                                        /\ loc[r].input \in Inputs
    BY RowIs DEF Row, Fits
  <2> QED
    BY <2>1, <2>2 DEF TypeOK, Inv, At
<1> QED
  BY <1>1, InvAlways, PTL

\* Archive-gated eviction forgets nothing: every receipt that was ever
\* committed is in the ring or in its archive document, whichever runtimes
\* evict, fail or crash in between (#ensureDurableReceiptArchived).
THEOREM NothingForgotten == Spec => []NeverForgotten
<1>1. Inv => NeverForgotten
  <2> SUFFICES ASSUME Inv, NEW k \in 1..Len(log), ~(log[k] \in EntriesOf(ring))
               PROVE  archive[log[k].turn] = log[k]
    BY DEF NeverForgotten, EntriesOf
  <2> DEFINE n == Len(log) - Len(ring)
  <2>1. /\ n \in Nat /\ k \in Nat /\ Youngest(ring, log)
        /\ Archived(n, log, archive)
    BY LogIs DEF Inv, RingOver
  <2>2. k \in 1..n
    <3> SUFFICES ASSUME k \notin 1..n PROVE FALSE
      OBVIOUS
    <3>1. k - n \in 1..Len(ring) /\ n + (k - n) = k
      BY <2>1, LogIs
    <3>2. ring[k - n] = log[k]
      BY <2>1, <3>1 DEF Youngest
    <3> QED
      BY <3>1, <3>2 DEF EntriesOf
  <2> QED
    BY <2>1, <2>2 DEF Archived
<1> QED
  BY <1>1, InvAlways, PTL

\* The replay ladder and the CAS admit a turn once, for any number of runtimes
\* that submit it at once, and the revisions of the receipts count the commits.
THEOREM AdmissionIsOnce == Spec => []AdmittedOnce
<1>1. Inv => AdmittedOnce
  BY DEF Inv, Once, AdmittedOnce
<1> QED
  BY <1>1, InvAlways, PTL

\* #nextDurableOriginalReceipts drops the oldest receipts only, and drops none
\* that the bounded history still knows.
THEOREM RingStaysSuffix == Spec => []RingIsSuffix
<1>1. Inv => RingIsSuffix
  <2> SUFFICES ASSUME Inv PROVE RingIsSuffix
    OBVIOUS
  <2>1. ring = Last(log, Len(ring))
    BY YoungestIsLast DEF Inv, RingOver
  <2>2. /\ Youngest(history, log) /\ Youngest(ring, log)
        /\ Len(history) \in Nat /\ Len(history) <= Len(ring)
    BY LogIs, EntryIs DEF Inv, RingOver, Youngest
  <2>3. ASSUME NEW j \in 1..Len(history)
        PROVE  \E k \in 1..Len(ring) : history[j] = ring[k]
    <3> DEFINE k == Len(ring) - Len(history) + j
    <3>1. /\ k \in 1..Len(ring)
          /\ Len(log) - Len(ring) + k = Len(log) - Len(history) + j
      BY <2>2, LogIs
    <3>2. history[j] = log[Len(log) - Len(history) + j]
      BY <2>2 DEF Youngest
    <3> HIDE DEF k
    <3>3. ring[k] = log[Len(log) - Len(ring) + k]
      BY <2>2, <3>1 DEF Youngest
    <3> QED
      BY <3>1, <3>2, <3>3
  <2> QED
    BY <2>1, <2>3, LogIs DEF RingIsSuffix, EntriesOf
<1> QED
  BY <1>1, InvAlways, PTL

\* Archives are written before the CAS that makes room by them, which may
\* fail; still they hold committed receipts only.
THEOREM ArchivesAreAdmitted == Spec => []ArchivedWasAdmitted
<1>1. Inv => ArchivedWasAdmitted
  BY DEF Inv, Committed, ArchivedWasAdmitted, EntriesOf
<1> QED
  BY <1>1, InvAlways, PTL

-----------------------------------------------------------------------------
(* How far the ring may grow                                                *)

\* Every occurrence may hold one receipt more than the bound and the faults
\* allow, until it has evicted one or met another fault.
Grown ==
  /\ Len(ring) <= RingBound + faults
  /\ \A r \in Runtimes :
       /\ loc[r].pc \in {"evict", "compare"} =>
            Len(loc[r].next) <= RingBound + faults + 1
       /\ loc[r].pc = "put" => Len(loc[r].next) <= RingBound + faults

LEMMA GrownRow ==
  ASSUME Inv, Grown, NEW r \in Runtimes, NEW x,
         loc' = [loc EXCEPT ![r] = x],
         ring' = ring, faults' \in {faults, faults + 1},
         x.pc \in {"evict", "compare"} =>
           Len(x.next) <= RingBound + faults' + 1,
         x.pc = "put" => Len(x.next) <= RingBound + faults'
  PROVE  Grown'
<1>1. /\ faults \in Nat /\ RingBound \in Nat /\ Len(ring) \in Nat
      /\ loc \in [Runtimes -> Row]
      /\ \A q \in Runtimes : Len(loc[q].next) \in Nat
  <2>1. \A q \in Runtimes : loc[q].next \in Seq(Entry)
    BY RowIs
  <2>2. \A q \in Runtimes : Len(loc[q].next) \in Nat
    BY <2>1, LenProperties
  <2>3. loc \in [Runtimes -> Row]
    BY DEF Inv
  <2>4. faults \in Nat /\ RingBound \in Nat /\ Len(ring) \in Nat
    BY LogIs, EntryIs
  <2> QED
    BY <2>2, <2>3, <2>4
<1>2. Len(ring') <= RingBound + faults'
  BY <1>1 DEF Grown
<1>3. ASSUME NEW q \in Runtimes
      PROVE  /\ loc'[q].pc \in {"evict", "compare"} =>
                  Len(loc'[q].next) <= RingBound + faults' + 1
             /\ loc'[q].pc = "put" => Len(loc'[q].next) <= RingBound + faults'
  <2>1. CASE q = r
    <3>1. loc'[q] = x
      BY <1>1, <2>1
    <3> QED
      BY <3>1
  <2>2. CASE q # r
    <3>1. loc'[q] = loc[q]
      BY <1>1, <2>2
    <3> QED
      BY <1>1, <3>1 DEF Grown
  <2> QED
    BY <2>1, <2>2
<1> QED
  BY <1>2, <1>3 DEF Grown

LEMMA GrownReturn ==
  ASSUME Inv, Grown, NEW r \in Runtimes, Return(r),
         ring' = ring, faults' \in {faults, faults + 1}
  PROVE  Grown'
<1>1. Idle.pc = "idle"
  BY DEF Idle
<1> QED
  BY <1>1, GrownRow DEF Return

\* A ring composed: over the bound it still has to shrink by one.
LEMMA GrownComposed ==
  ASSUME Inv, Grown, NEW r \in Runtimes, NEW nx \in Seq(Entry),
         Composed(r, nx), ring' = ring, faults' = faults,
         Len(nx) <= RingBound + faults + 1
  PROVE  Grown'
<1> DEFINE x == loc[r]
           p == IF Len(nx) > RingBound THEN "evict" ELSE "put"
           y == [x EXCEPT !.pc = p, !.next = nx]
<1>1. loc' = [loc EXCEPT ![r] = y]
  BY RowIs DEF Composed
<1>2. y.pc = p /\ y.next = nx
  BY RowIs DEF Row
<1>3. p = "put" => Len(nx) <= RingBound + faults
  BY LogIs, EntryIs
<1> HIDE DEF y
<1>4. p \in {"evict", "put"}
  OBVIOUS
<1> HIDE DEF p
<1> QED
  BY <1>1, <1>2, <1>3, <1>4, GrownRow

\* An eviction given up is paid for by a fault.
LEMMA GrownKept ==
  ASSUME Inv, Grown, NEW r \in Runtimes, loc[r].pc \in {"evict", "compare"},
         KeepOldest(r), ring' = ring, faults' = faults + 1
  PROVE  Grown'
<1> DEFINE x == loc[r]
           y == [x EXCEPT !.pc = "put", !.next = x.next]
<1>1. loc' = [loc EXCEPT ![r] = y]
  BY RowIs DEF KeepOldest
<1>2. y.pc = "put" /\ y.next = x.next
  BY RowIs DEF Row
<1>3. Len(x.next) <= RingBound + faults'
  <2>1. /\ Len(x.next) <= RingBound + faults + 1 /\ Len(x.next) \in Nat
        /\ RingBound \in Nat /\ faults \in Nat
    <3>1. x.next \in Seq(Entry)
      BY RowIs
    <3> QED
      BY <3>1, LogIs, EntryIs DEF Grown
  <2> QED
    BY <2>1
<1> HIDE DEF y
<1> QED
  BY <1>1, <1>2, <1>3, GrownRow

LEMMA GrownTail ==
  ASSUME Inv, Grown, NEW r \in Runtimes, loc[r].pc \in {"evict", "compare"},
         Composed(r, Tail(loc[r].next)), ring' = ring, faults' = faults
  PROVE  Grown'
<1>1. /\ Tail(loc[r].next) \in Seq(Entry)
      /\ Len(Tail(loc[r].next)) = Len(loc[r].next) - 1
      /\ Len(loc[r].next) \in Nat /\ RingBound \in Nat /\ faults \in Nat
  BY LogIs, RowIs, OldestIs, EntryIs
<1>2. Len(loc[r].next) <= RingBound + faults + 1
  BY DEF Grown
<1>3. Len(Tail(loc[r].next)) <= RingBound + faults + 1
  BY <1>1, <1>2
<1> QED
  BY <1>1, <1>3, GrownComposed

LEMMA GrownInit == Init => Grown
BY EntryIs DEF Init, Grown, Idle

LEMMA GrownNext ==
  ASSUME KeyExistsCode
  PROVE  Inv /\ Grown /\ [Next]_vars => Grown'
<1> SUFFICES ASSUME Inv, Grown, [Next]_vars PROVE Grown'
  OBVIOUS
<1>1. CASE UNCHANGED vars
  BY <1>1 DEF vars, Grown
<1>2. ASSUME NEW r \in Runtimes, NEW t \in Turns, NEW i \in Inputs,
             Submit(r, t, i)
      PROVE  Grown'
  <2>1. CASE Known(t, ring)
    BY <1>2, <2>1 DEF Submit, Grown
  <2>2. CASE ~Known(t, ring)
    <3> DEFINE x == [pc |-> "archiveRead", turn |-> t, input |-> i,
                     snapRev |-> stateRev, snapHistory |-> history,
                     next |-> <<>>]
    <3>1. loc' = [loc EXCEPT ![r] = x] /\ UNCHANGED <<ring, faults>>
      BY <1>2, <2>2 DEF Submit
    <3>2. x.pc = "archiveRead"
      OBVIOUS
    <3> HIDE DEF x
    <3> QED
      BY <3>1, <3>2, GrownRow
  <2> QED
    BY <2>1, <2>2
<1>3. ASSUME NEW r \in Runtimes, ArchiveRead(r) PROVE Grown'
  <2>1. ring' = ring /\ faults' \in {faults, faults + 1}
    BY <1>3 DEF ArchiveRead
  <2>2. CASE Return(r)
    BY <2>1, <2>2, GrownReturn
  <2>3. CASE loc' = [loc EXCEPT ![r].pc = "decided"]
    <3> DEFINE y == [loc[r] EXCEPT !.pc = "decided", !.next = loc[r].next]
    <3>1. loc' = [loc EXCEPT ![r] = y]
      BY <2>3, RowIs
    <3>2. y.pc = "decided"
      BY RowIs DEF Row
    <3> HIDE DEF y
    <3> QED
      BY <2>1, <3>1, <3>2, GrownRow
  <2> QED
    BY <1>3, <2>2, <2>3 DEF ArchiveRead
<1>4. ASSUME NEW r \in Runtimes, Compose(r) PROVE Grown'
  <2>1. ring' = ring /\ faults' = faults
    BY <1>4 DEF Compose
  <2>2. CASE Return(r)
    BY <2>1, <2>2, GrownReturn
  <2>3. CASE ~Return(r)
    <3> DEFINE e == [turn |-> loc[r].turn, input |-> loc[r].input,
                     rev |-> stateRev + 1]
    <3>1. Composed(r, Append(ring, e)) /\ loc[r].pc = "decided"
      BY <1>4, <2>3 DEF Compose, At
    <3>2. e \in Entry
      <4>1. loc[r].turn \in Turns /\ loc[r].input \in Inputs
        BY <3>1, RowIs DEF Fits
      <4>2. Len(log) + 1 \in Nat
        BY LogIs
      <4> QED
        BY <4>1, <4>2 DEF Entry, stateRev
    <3> HIDE DEF e
    <3>3. /\ Append(ring, e) \in Seq(Entry)
          /\ Len(Append(ring, e)) = Len(ring) + 1
      BY <3>2, LogIs, AppendProperties
    <3>4. Len(Append(ring, e)) <= RingBound + faults + 1
      <4>1. /\ Len(ring) <= RingBound + faults /\ Len(ring) \in Nat
            /\ RingBound \in Nat /\ faults \in Nat
        BY LogIs, EntryIs DEF Grown
      <4> QED
        BY <3>3, <4>1
    <3> QED
      BY <2>1, <3>1, <3>3, <3>4, GrownComposed
  <2> QED
    BY <2>2, <2>3
<1>5. ASSUME NEW r \in Runtimes, Evict(r) PROVE Grown'
  <2>1. ring' = ring /\ loc[r].pc = "evict"
    BY <1>5 DEF Evict, At
  <2>2. CASE Composed(r, Tail(loc[r].next)) /\ faults' = faults
    BY <2>1, <2>2, GrownTail
  <2>3. CASE loc' = [loc EXCEPT ![r].pc = "compare"] /\ faults' = faults
    <3> DEFINE y == [loc[r] EXCEPT !.pc = "compare", !.next = loc[r].next]
    <3>1. loc' = [loc EXCEPT ![r] = y]
      BY <2>3, RowIs
    <3>2. y.pc = "compare" /\ y.next = loc[r].next
      BY RowIs DEF Row
    <3> HIDE DEF y
    <3> QED
      BY <2>1, <2>3, <3>1, <3>2, GrownRow DEF Grown
  <2>4. CASE KeepOldest(r) /\ faults' = faults + 1
    BY <2>1, <2>4, GrownKept
  <2> QED
    BY <1>5, <2>2, <2>3, <2>4 DEF Evict
<1>6. ASSUME NEW r \in Runtimes, Compare(r) PROVE Grown'
  <2>1. ring' = ring /\ loc[r].pc = "compare"
    BY <1>6 DEF Compare, At
  <2>2. CASE Composed(r, Tail(loc[r].next)) /\ faults' = faults
    BY <2>1, <2>2, GrownTail
  <2>3. CASE Return(r) /\ faults' = faults
    BY <2>1, <2>3, GrownReturn
  <2>4. CASE KeepOldest(r) /\ faults' = faults + 1
    BY <2>1, <2>4, GrownKept
  <2> QED
    BY <1>6, <2>2, <2>3, <2>4 DEF Compare
<1>7. ASSUME NEW r \in Runtimes, Put(r) PROVE Grown'
  <2>1. Return(r) /\ faults' = faults /\ loc[r].pc = "put"
    BY <1>7 DEF Put, At
  <2>2. ring' = ring \/ ring' = loc[r].next
    BY <1>7 DEF Put
  <2>3. Len(ring') <= RingBound + faults'
    BY <2>1, <2>2 DEF Grown
  <2>4. Idle.pc = "idle" /\ loc' = [loc EXCEPT ![r] = Idle]
    BY <2>1 DEF Idle, Return
  <2> QED
    BY <2>1, <2>3, <2>4, RowIs DEF Grown
<1>8. ASSUME NEW r \in Runtimes, Crash(r) PROVE Grown'
  BY <1>8, GrownReturn DEF Crash
<1> QED
  BY <1>1, <1>2, <1>3, <1>4, <1>5, <1>6, <1>7, <1>8 DEF Next

\* Where a create that lost its race is reported as HOST_KEY_EXISTS, only
\* faults of the archive let the ring grow past its bound; a race of two
\* evictions does not (#nextDurableOriginalReceipts).
THEOREM GrowthIsByFaults ==
  ASSUME KeyExistsCode
  PROVE  Spec => []GrowsByFaultsOnly
<1>1. Grown => GrowsByFaultsOnly
  BY DEF Grown, GrowsByFaultsOnly
<1> QED
  BY <1>1, GrownInit, GrownNext, InvAlways, PTL DEF Spec
=============================================================================
