-------------------------- MODULE OriginalReceiptRing --------------------------
(***************************************************************************)
(* Where the kernel keeps the original receipt of an admitted turn,        *)
(* src/domain-packages/kernel/basic/kernel-mechanism-v1.mjs: a bounded     *)
(* ring inside the instance document, written by the same CAS that moves   *)
(* the state, and one archive document per turn that left the ring.        *)
(* KernelAdmission takes ring and archive together as one map `receipts`;  *)
(* this module is what lies behind that map.                               *)
(*                                                                         *)
(* A receipt is kept as the turn, the canonical input and the revision it  *)
(* committed.  The admission fence and the effects are left out: here      *)
(* every runtime may commit at any time, and only the CAS orders them.     *)
(***************************************************************************)
EXTENDS Integers, Sequences

CONSTANTS
  Runtimes, Turns, Inputs,
  RingBound,      \* durableReceiptRingBound (at least 17 in the code)
  HistoryBound,   \* MAX_ADMITTED_CONTROL_TURN_HISTORY (16 in the code)
  KeyExistsCode,  \* a lost create reports HOST_KEY_EXISTS
  MaxFaults,      \* bound on faults of the archive documents
  MaxCrashes,     \* bound on runtime crashes
  NoTurn, NoInput

ASSUME RingAssumption ==
  /\ RingBound \in Nat \ {0}
  /\ HistoryBound \in 0..RingBound
  /\ KeyExistsCode \in BOOLEAN
  /\ NoTurn \notin Turns

VARIABLES
  log,      \* every receipt in the order of its commit: what was admitted
  ring,     \* durableOriginalReceipts, in the order of its keys
  history,  \* admittedControlTurns
  archive,  \* turn -> the receipt its archive document holds, or NoEntry
  loc,      \* the occurrence a runtime has on its lane
  faults, crashes

vars == <<log, ring, history, archive, loc, faults, crashes>>

NoEntry == [turn |-> NoTurn, input |-> NoInput, rev |-> 0]
Idle == [pc |-> "idle", turn |-> NoTurn, input |-> NoInput, snapRev |-> 0,
         snapHistory |-> <<>>, next |-> <<>>]
Labels == {"idle", "archiveRead", "decided", "evict", "compare", "put"}

At(r, l) == loc[r].pc = l
Return(r) == loc' = [loc EXCEPT ![r] = Idle]

\* The instance document moves by commits only, so its revision is the
\* number of receipts it has ever taken.
stateRev == Len(log)
EntriesOf(s) == {s[k] : k \in 1..Len(s)}

Last(s, n) == SubSeq(s, IF Len(s) > n THEN Len(s) - n + 1 ELSE 1, Len(s))

Known(t, s) == \E e \in EntriesOf(s) : e.turn = t

Init ==
  /\ log = <<>>
  /\ ring = <<>>
  /\ history = <<>>
  /\ archive = [t \in Turns |-> NoEntry]
  /\ loc = [r \in Runtimes |-> Idle]
  /\ faults = 0
  /\ crashes = 0

-----------------------------------------------------------------------------
(* The replay ladder                                                        *)

\* The instance is read.  A turn in the snapshot's ring is answered from it,
\* or refused for another input, and nothing changes.
Submit(r, t, i) ==
  /\ At(r, "idle")
  /\ IF Known(t, ring)
       THEN UNCHANGED loc
       ELSE loc' = [loc EXCEPT ![r] =
                      [pc |-> "archiveRead", turn |-> t, input |-> i,
                       snapRev |-> stateRev, snapHistory |-> history,
                       next |-> <<>>]]
  /\ UNCHANGED <<log, ring, history, archive, faults, crashes>>

\* Broken form: an unreadable archive is taken for an empty one.
ArchiveReadOpen(r) ==
  /\ At(r, "archiveRead")
  /\ \/ /\ archive[loc[r].turn] # NoEntry
        /\ Return(r)
        /\ UNCHANGED faults
     \/ /\ archive[loc[r].turn] = NoEntry
        /\ loc' = [loc EXCEPT ![r].pc = "decided"]
        /\ UNCHANGED faults
     \/ /\ faults < MaxFaults
        /\ faults' = faults + 1
        /\ loc' = [loc EXCEPT ![r].pc = "decided"]
  /\ UNCHANGED <<log, ring, history, archive, crashes>>

\* A turn not in the ring is looked up in its archive document; an archive
\* that cannot be read refuses the turn.  The history of the snapshot is the
\* last to be asked.
ArchiveRead(r) ==
  LET t == loc[r].turn
  IN /\ At(r, "archiveRead")
     /\ \/ /\ archive[t] # NoEntry \/ Known(t, loc[r].snapHistory)
           /\ Return(r)
           /\ UNCHANGED faults
        \/ /\ archive[t] = NoEntry
           /\ ~Known(t, loc[r].snapHistory)
           /\ loc' = [loc EXCEPT ![r].pc = "decided"]
           /\ UNCHANGED faults
        \/ /\ faults < MaxFaults
           /\ faults' = faults + 1
           /\ Return(r)
     /\ UNCHANGED <<log, ring, history, archive, crashes>>

-----------------------------------------------------------------------------
(* The commit: the next ring is composed before the CAS                     *)

\* The loop of #nextDurableOriginalReceipts goes on while the ring is over
\* its bound.
Composed(r, next) ==
  loc' = [loc EXCEPT ![r].pc = IF Len(next) > RingBound THEN "evict" ELSE "put",
                     ![r].next = next]

\* commitAcceptedTransitionInLane reads the instance again: it must be at
\* the snapshot, and the turn not in its ring.
Compose(r) ==
  /\ At(r, "decided")
  /\ IF stateRev = loc[r].snapRev /\ ~Known(loc[r].turn, ring)
       THEN Composed(r, Append(ring, [turn |-> loc[r].turn,
                                      input |-> loc[r].input,
                                      rev |-> stateRev + 1]))
       ELSE Return(r)
  /\ UNCHANGED <<log, ring, history, archive, faults, crashes>>

\* Broken form: the entry leaves the ring whether or not it is archived.
KeepOldestDropped(r) == Composed(r, Tail(loc[r].next))

\* The eviction of the oldest entry is given up: the ring stays as long as
\* it is, and the commit goes on.
KeepOldest(r) == loc' = [loc EXCEPT ![r].pc = "put"]

\* Broken form: the archive is filed under the turn being admitted.
EvictMisfiled(r) ==
  /\ At(r, "evict")
  /\ archive' = [archive EXCEPT ![loc[r].turn] = Head(loc[r].next)]
  /\ Composed(r, Tail(loc[r].next))
  /\ UNCHANGED <<log, ring, history, faults, crashes>>

\* Broken form: the newest entry is archived in place of the oldest.
EvictNewest(r) ==
  LET next == loc[r].next
      newest == next[Len(next)]
  IN /\ At(r, "evict")
     /\ archive' = [archive EXCEPT ![newest.turn] = newest]
     /\ Composed(r, SubSeq(next, 1, Len(next) - 1))
     /\ UNCHANGED <<log, ring, history, faults, crashes>>

\* #ensureDurableReceiptArchived creates the archive of the oldest entry.  A
\* lost create is looked at again only when it is reported as HOST_KEY_EXISTS.
Evict(r) ==
  LET oldest == Head(loc[r].next)
  IN /\ At(r, "evict")
     /\ \/ /\ archive[oldest.turn] = NoEntry
           /\ archive' = [archive EXCEPT ![oldest.turn] = oldest]
           /\ Composed(r, Tail(loc[r].next))
           /\ UNCHANGED faults
        \/ /\ archive[oldest.turn] # NoEntry
           /\ IF KeyExistsCode
                THEN loc' = [loc EXCEPT ![r].pc = "compare"]
                ELSE KeepOldest(r)
           /\ UNCHANGED <<archive, faults>>
        \/ /\ faults < MaxFaults
           /\ faults' = faults + 1
           /\ KeepOldest(r)
           /\ UNCHANGED archive
     /\ UNCHANGED <<log, ring, history, crashes>>

\* Broken form: an archive that exists is a reason to keep the entry.
CompareKeeps(r) ==
  /\ At(r, "compare")
  /\ KeepOldest(r)
  /\ UNCHANGED <<log, ring, history, archive, faults, crashes>>

\* The archive that was there first counts when it holds this receipt; a
\* different one is an anomaly and fails the commit.
Compare(r) ==
  LET oldest == Head(loc[r].next)
  IN /\ At(r, "compare")
     /\ \/ /\ IF archive[oldest.turn].input = oldest.input
                THEN Composed(r, Tail(loc[r].next))
                ELSE Return(r)
           /\ UNCHANGED faults
        \/ /\ faults < MaxFaults
           /\ faults' = faults + 1
           /\ KeepOldest(r)
     /\ UNCHANGED <<log, ring, history, archive, crashes>>

\* Broken form: the ring composed over the snapshot is written over whatever
\* the instance holds.
PutOver(r) ==
  LET entry == [turn |-> loc[r].turn, input |-> loc[r].input,
                rev |-> loc[r].snapRev + 1]
  IN /\ At(r, "put")
     /\ log' = Append(log, entry)
     /\ ring' = loc[r].next
     /\ history' = Last(Append(history, entry), HistoryBound)
     /\ Return(r)
     /\ UNCHANGED <<archive, faults, crashes>>

\* State, ring and history are one document, and one CAS writes them.
Put(r) ==
  LET entry == [turn |-> loc[r].turn, input |-> loc[r].input,
                rev |-> loc[r].snapRev + 1]
  IN /\ At(r, "put")
     /\ IF stateRev = loc[r].snapRev
          THEN /\ log' = Append(log, entry)
               /\ ring' = loc[r].next
               /\ history' = Last(Append(history, entry), HistoryBound)
          ELSE UNCHANGED <<log, ring, history>>
     /\ Return(r)
     /\ UNCHANGED <<archive, faults, crashes>>

\* The Host process dies: archives it has written stay.
Crash(r) ==
  /\ ~At(r, "idle")
  /\ crashes < MaxCrashes
  /\ crashes' = crashes + 1
  /\ Return(r)
  /\ UNCHANGED <<log, ring, history, archive, faults>>

Next ==
  \E r \in Runtimes :
    \/ \E t \in Turns, i \in Inputs : Submit(r, t, i)
    \/ ArchiveRead(r) \/ Compose(r) \/ Evict(r) \/ Compare(r) \/ Put(r)
    \/ Crash(r)

Spec == Init /\ [][Next]_vars

-----------------------------------------------------------------------------
Entry == [turn : Turns, input : Inputs, rev : Nat]

\* The documents hold receipts, an archive document the receipt of its own
\* turn, and an occurrence that has begun has a turn
\* (#nextDurableOriginalReceipts, #ensureDurableReceiptArchived).
TypeOK ==
  /\ log \in Seq(Entry)
  /\ ring \in Seq(Entry)
  /\ history \in Seq(Entry)
  /\ \A t \in Turns :
       archive[t] # NoEntry => archive[t] \in Entry /\ archive[t].turn = t
  /\ \A r \in Runtimes :
       /\ loc[r].pc \in Labels
       /\ loc[r].snapRev \in Nat
       /\ loc[r].snapHistory \in Seq(Entry)
       /\ loc[r].next \in Seq(Entry)
       /\ ~At(r, "idle") => loc[r].turn \in Turns /\ loc[r].input \in Inputs

\* No admitted turn is ever forgotten: its very receipt is in the ring or in
\* its archive, at every instant between two evictions and across crashes
\* (archive-gated eviction, #ensureDurableReceiptArchived).
NeverForgotten ==
  \A e \in EntriesOf(log) : e \in EntriesOf(ring) \/ archive[e.turn] = e

\* A turn is admitted once: no two receipts of the log are of one turn, and
\* their revisions are 1, 2, 3... in order (the ladder and the CAS together).
AdmittedOnce ==
  \A j, k \in 1..Len(log) :
    /\ log[j].turn = log[k].turn => j = k
    /\ log[k].rev = k

\* The ring is the youngest part of the log, whoever evicted what in which
\* order: the oldest leave first and nothing leaves from the middle; the
\* bounded history, which the ladder asks last, knows no turn that the ring
\* has lost (#nextDurableOriginalReceipts, MAX_ADMITTED_CONTROL_TURN_HISTORY
\* against durableReceiptRingBound).
RingIsSuffix ==
  /\ Len(ring) <= Len(log)
  /\ ring = Last(log, Len(ring))
  /\ EntriesOf(history) \subseteq EntriesOf(ring)

\* An archive document is written before the CAS that drops its entry, maybe
\* by a commit that then fails: still it only ever holds a receipt that was
\* committed.
ArchivedWasAdmitted ==
  \A t \in Turns : archive[t] # NoEntry => archive[t] \in EntriesOf(log)

\* "On an archive-write fault the entry STAYS and the document temporarily
\* grows past the bound": the ring is over its bound by faults only
\* (#nextDurableOriginalReceipts).
GrowsByFaultsOnly == Len(ring) <= RingBound + faults
=============================================================================
