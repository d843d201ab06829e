----------------------------- MODULE EffectProofs ------------------------------
(***************************************************************************)
(* What the gate leaves behind, for every value of the constants: the      *)
(* ledger of its decisions, the rows of its outbox, the files, requests    *)
(* and recorded effects of the providers it ran, and the notices it gives  *)
(* of approvals that expire and of events it dispatches.                   *)
(***************************************************************************)
EXTENDS Ledger, MCBackground, ProviderRun, ApprovalStoreProofs, FiniteSetTheorems,
        SequenceTheorems, NaturalsInduction, WellFoundedInduction, TLAPS

(***************************************************************************)
(* Why the ledger keeps what it promises, for every number of gates,       *)
(* crashes, events and grants.  The writer lock leaves one gate that is    *)
(* not closed, so what a gate remembers of the table is never outdated: its *)
(* chain head is the last event's hash, or an event that cannot be hashed   *)
(* is in the table and no link behind it is promised; the lines it holds    *)
(* back are older than the line that is due, which is the last event's.     *)
(* A crash forgets all of that and leaves the table and the file, of which  *)
(* the same holds.                                                         *)
(***************************************************************************)

\* An event that cannot be hashed is in the table.
Blemished == \E j \in 1..Len(events) : events[j].trace \in Oversized

\* The event of trace s is in the table, and the event of t behind it.
Before(table, s, t) ==
    \E i, j \in 1..Len(table) : i < j /\ table[i].trace = s /\ table[j].trace = t

\* The lines are events of the table, in the order of the table.
InOrder(table, lines) ==
    /\ \A k \in 1..Len(lines) : lines[k] \in TracesOf(table)
    /\ \A k, l \in 1..Len(lines) : k < l => Before(table, lines[k], lines[l])

\* What the file will hold once the buffer is flushed.
Lines(g) == jsonl \o gate[g].buffer

\* trace_id is UNIQUE.
UniqueInv ==
    \A i, j \in 1..Len(events) : events[i].trace = events[j].trace => i = j

\* One gate has the lock; a gate without an open store remembers nothing.
LockInv ==
    /\ \A g, h \in lock : g = h
    /\ \A g \in Gates : gate[g].phase # "closed" => g \in lock
    /\ \A g \in Gates : gate[g].phase # "open" => gate[g].buffer = <<>> /\ gate[g].export = {}

\* The event of e is the last of the table and not among the lines so far; a grant
\* it closes has everything in the tables that finalize_evidence will vouch for.
Due(g, e) ==
    /\ events # <<>> /\ e.trace = events[Len(events)].trace
    /\ \A k \in 1..Len(Lines(g)) : Lines(g)[k] # e.trace
    /\ \A x \in e.of : FinalTrace[x] = e.trace /\ x \in receipts \cap intents \cap consumed

\* What an open store remembers is true of the table and of the file.
MemoryInv ==
    \A g \in Gates : gate[g].phase = "open" =>
        /\ gate[g].head = LastHash \/ Blemished
        /\ InOrder(events, Lines(g))
        /\ \A e \in gate[g].export : Due(g, e)

ExportInv == \A g \in Gates : \A e, f \in gate[g].export : e = f

GrantInv ==
    /\ intents = consumed
    /\ \A x \in Grants : dispatches[x] = IF x \in consumed THEN 1 ELSE 0

Types ==
    /\ events \in Seq(Event) /\ jsonl \in Seq(Traces)
    /\ receipts \subseteq Grants /\ intents \subseteq Grants /\ consumed \subseteq Grants
    /\ lock \subseteq Gates /\ gate \in [Gates -> Store]
    /\ acked \subseteq Traces /\ finalized \subseteq Grants
    /\ dispatches \in [Grants -> Nat] /\ deaths \in Nat

LedgerInv ==
    /\ Types /\ UniqueInv /\ LockInv /\ MemoryInv /\ ExportInv /\ GrantInv
    /\ InOrder(events, jsonl) /\ ChainLinksHold /\ AnswersAreDurable

--------------------------------------------------------------------------------
(***************************************************************************)
(* Facts about the table and the file.                                     *)
(***************************************************************************)

LEMMA StoreFields ==
    ASSUME Types, NEW g \in Gates
    PROVE  /\ gate[g] \in Store /\ gate[g].buffer \in Seq(Traces)
           /\ Lines(g) \in Seq(Traces)
  <1>1. gate[g] \in Store /\ gate[g].buffer \in Seq(Traces)
    BY DEF Types, Store
  <1> QED
    BY <1>1, ConcatProperties DEF Types, Lines

LEMMA AtMostOne ==
    ASSUME NEW S, \A e, f \in S : e = f
    PROVE  Cardinality(S) <= 1
  <1>1. CASE S = {}
    BY <1>1, FS_EmptySet
  <1>2. CASE S # {}
    <2>1. PICK e : S = {e}
      BY <1>2
    <2> QED
      BY <2>1, FS_Singleton
  <1> QED
    BY <1>1, <1>2

LEMMA ClosedIsAStore == Closed \in Store
  BY EmptySeq DEF Closed, Store

\* The table with a row more.
LEMMA RowAdded ==
    ASSUME NEW s \in Seq(Event), NEW ev \in Event
    PROVE  /\ Append(s, ev) \in Seq(Event)
           /\ Len(s) \in Nat /\ Len(Append(s, ev)) = Len(s) + 1
           /\ \A i \in 1..Len(s) : Append(s, ev)[i] = s[i]
           /\ Append(s, ev)[Len(s) + 1] = ev
           /\ Append(s, ev) # <<>>
           /\ TracesOf(Append(s, ev)) = TracesOf(s) \cup {ev.trace}
  <1>1. /\ Append(s, ev) \in Seq(Event)
        /\ Len(s) \in Nat /\ Len(Append(s, ev)) = Len(s) + 1
        /\ \A i \in 1..Len(s) : Append(s, ev)[i] = s[i]
        /\ Append(s, ev)[Len(s) + 1] = ev
    OBVIOUS
  <1>2. Append(s, ev) # <<>>
    BY <1>1
  <1>3. TracesOf(Append(s, ev)) = TracesOf(s) \cup {ev.trace}
    BY <1>1 DEF TracesOf
  <1> QED
    BY <1>1, <1>2, <1>3

\* The last row is the one just added.
LEMMA LastOfTable ==
    ASSUME events \in Seq(Event)
    PROVE  /\ LastHash \in Traces \cup {Genesis}
           /\ events # <<>> => Len(events) \in 1..Len(events)
  <1>1. events # <<>> => Len(events) \in 1..Len(events)
    BY EmptySeq
  <1>2. events # <<>> => events[Len(events)] \in Event
    BY <1>1, ElementOfSeq
  <1> QED
    BY <1>1, <1>2 DEF LastHash, Event

\* A line whose event is the last of the table and that is not there yet goes
\* behind the others.
LEMMA LineAdded ==
    ASSUME events \in Seq(Event), UniqueInv, NEW s \in Seq(Traces), NEW t \in Traces,
           InOrder(events, s), events # <<>>, t = events[Len(events)].trace,
           \A k \in 1..Len(s) : s[k] # t
    PROVE  InOrder(events, s \o <<t>>)
  <1> DEFINE u == s \o <<t>>
  <1>1. /\ Len(u) = Len(s) + 1 /\ Len(s) \in Nat
        /\ \A k \in 1..Len(s) : u[k] = s[k]
        /\ u[Len(s) + 1] = t
    <2>1. <<t>> \in Seq(Traces) /\ Len(<<t>>) = 1 /\ <<t>>[1] = t
      OBVIOUS
    <2>2. Len(s) \in Nat
      BY LenProperties
    <2> HIDE DEF u
    <2>3. /\ Len(u) = Len(s) + 1
          /\ \A i \in 1..(Len(s) + 1) : u[i] = IF i <= Len(s) THEN s[i] ELSE <<t>>[i - Len(s)]
      BY <2>1, ConcatProperties DEF u
    <2> QED
      BY <2>1, <2>2, <2>3
  <1> HIDE DEF u
  <1>2. Len(events) \in 1..Len(events)
    BY LastOfTable
  <1>3. t \in TracesOf(events)
    BY <1>2 DEF TracesOf
  <1>4. ASSUME NEW k \in 1..Len(s) PROVE Before(events, s[k], t)
    <2>1. PICK i \in 1..Len(events) : events[i].trace = s[k]
      BY <1>4 DEF InOrder, TracesOf
    <2>2. i # Len(events)
      BY <1>4, <2>1
    <2>3. i < Len(events)
      BY <2>1, <2>2, LenProperties
    <2> QED
      BY <1>2, <2>1, <2>3 DEF Before
  <1>5. ASSUME NEW k \in 1..Len(u) PROVE u[k] \in TracesOf(events)
    <2>1. CASE k <= Len(s)
      BY <1>1, <1>5, <2>1 DEF InOrder
    <2>2. CASE k = Len(s) + 1
      BY <1>1, <1>3, <2>2
    <2> QED
      BY <1>1, <1>5, <2>1, <2>2
  <1>6. ASSUME NEW k \in 1..Len(u), NEW l \in 1..Len(u), k < l PROVE Before(events, u[k], u[l])
    <2>1. k \in 1..Len(s)
      BY <1>1, <1>6
    <2>2. CASE l <= Len(s)
      BY <1>1, <1>6, <2>1, <2>2 DEF InOrder
    <2>3. CASE l = Len(s) + 1
      BY <1>1, <1>4, <2>1, <2>3
    <2> QED
      BY <1>1, <1>6, <2>2, <2>3
  <1>7. InOrder(events, u)
    BY <1>5, <1>6 DEF InOrder
  <1> QED
    BY <1>7 DEF u

\* A row more leaves the lines in order.
LEMMA StillInOrder ==
    ASSUME events \in Seq(Event), NEW ev \in Event, events' = Append(events, ev),
           NEW CONSTANT s, InOrder(events, s)
    PROVE  InOrder(events', s)
  <1>1. /\ Len(events) \in Nat /\ Len(events') = Len(events) + 1
        /\ \A i \in 1..Len(events) : events'[i] = events[i] /\ i \in 1..Len(events')
        /\ TracesOf(events)' = TracesOf(events) \cup {ev.trace}
    BY RowAdded
  <1>2. \A t, u : Before(events, t, u) => Before(events', t, u)
    BY <1>1 DEF Before
  <1> QED
    BY <1>1, <1>2 DEF InOrder

--------------------------------------------------------------------------------
(***************************************************************************)
(* The steps.                                                              *)
(***************************************************************************)

\* Nothing the table or the file holds is touched, and gate g ends with a store that
\* holds no line back and, if open, knows the last hash.
LEMMA FreshStorePreserves ==
    ASSUME LedgerInv, NEW g \in Gates, NEW st \in Store,
           gate' = [gate EXCEPT ![g] = st],
           st.buffer = <<>>, st.export = {}, st.phase = "open" => st.head = LastHash,
           lock' \subseteq Gates, \A h, k \in lock' : h = k,
           \A h \in Gates : gate'[h].phase # "closed" => h \in lock',
           deaths' \in Nat,
           UNCHANGED <<durable, jsonl, acked, finalized, dispatches>>
    PROVE  LedgerInv'
  <1>1. Types /\ gate \in [Gates -> Store]
    BY DEF LedgerInv, Types
  <1>2. Types'
    BY <1>1 DEF Types, durable
  <1>3. gate'[g] = st /\ \A h \in Gates : h # g => gate'[h] = gate[h]
    BY <1>1
  <1>4. LockInv'
    BY <1>3 DEF LedgerInv, LockInv
  <1>5. ExportInv'
    BY <1>3 DEF LedgerInv, ExportInv
  <1>6. LastHash' = LastHash /\ Blemished' = Blemished
    BY DEF durable, LastHash, Blemished
  <1>7. events' = events /\ jsonl' = jsonl
    BY DEF durable
  <1>8. MemoryInv'
    <2> SUFFICES ASSUME NEW h \in Gates, gate'[h].phase = "open"
                 PROVE  /\ gate'[h].head = LastHash' \/ Blemished'
                        /\ InOrder(events', Lines(h)')
                        /\ \A e \in gate'[h].export : Due(h, e)'
      BY DEF MemoryInv
    <2>1. CASE h = g
      <3>1. Lines(g)' = jsonl
        BY <1>1, <1>3, ConcatEmptySeq DEF Lines, Types
      <3>2. InOrder(events', jsonl')
        BY <1>7 DEF LedgerInv
      <3>3. InOrder(events', Lines(g)')
        BY <1>7, <3>1, <3>2
      <3> QED
        BY <1>3, <1>6, <2>1, <3>3
    <2>2. CASE h # g
      <3>1. gate'[h] = gate[h] /\ Lines(h)' = Lines(h)
        BY <1>3, <2>2 DEF Lines
      <3>2. InOrder(events', Lines(h)') = InOrder(events, Lines(h))
        BY <1>7, <3>1
      <3>3. \A e : Due(h, e)' = Due(h, e)
        BY <3>1 DEF durable, Due
      <3> QED
        BY <1>6, <3>1, <3>2, <3>3 DEF LedgerInv, MemoryInv
    <2> QED
      BY <2>1, <2>2
  <1>9. UniqueInv' /\ GrantInv' /\ ChainLinksHold' /\ AnswersAreDurable'
    BY DEF LedgerInv, UniqueInv, GrantInv, ChainLinksHold, LinkHolds, AnswersAreDurable,
           TracesOf, durable
  <1>10. InOrder(events', jsonl')
    BY <1>7 DEF LedgerInv
  <1> QED
    BY <1>2, <1>4, <1>5, <1>8, <1>9, <1>10 DEF LedgerInv

LEMMA AcquirePreserves ==
    ASSUME LedgerInv, NEW g \in Gates, AcquireWriterLock(g)
    PROVE  LedgerInv'
  <1> USE DEF AcquireWriterLock
  <1>1. gate \in [Gates -> Store] /\ deaths \in Nat
    BY DEF LedgerInv, Types
  <1> DEFINE st == [gate[g] EXCEPT !.phase = "locked"]
  <1>2. /\ st \in Store /\ st.phase = "locked"
        /\ st.buffer = gate[g].buffer /\ st.export = gate[g].export
    BY <1>1 DEF Store
  <1>3. gate' = [gate EXCEPT ![g] = st]
    BY <1>1
  <1> HIDE DEF st
  <1>4. st.buffer = <<>> /\ st.export = {}
    BY <1>2 DEF LedgerInv, LockInv
  <1>5. \A h \in Gates : gate'[h].phase # "closed" => h \in lock'
    BY <1>1, <1>3 DEF LedgerInv, LockInv
  <1> QED
    BY <1>1, <1>2, <1>3, <1>4, <1>5, FreshStorePreserves

LEMMA InitPreserves ==
    ASSUME LedgerInv, NEW g \in Gates, InitConnection(g)
    PROVE  LedgerInv'
  <1> USE DEF InitConnection
  <1>1. gate \in [Gates -> Store] /\ deaths \in Nat /\ lock \subseteq Gates
    BY DEF LedgerInv, Types
  <1>2. CASE LastHash \in Oversized
    <2>1. /\ gate' = [gate EXCEPT ![g] = Closed] /\ lock' = lock \ {g}
          /\ Closed.buffer = <<>> /\ Closed.export = {} /\ Closed.phase = "closed"
      BY <1>2 DEF Closed
    <2>2. \A h \in Gates : gate'[h].phase # "closed" => h \in lock'
      BY <1>1, <2>1 DEF LedgerInv, LockInv
    <2> QED
      <3>1. lock' \subseteq Gates /\ \A h, k \in lock' : h = k
        BY <1>1, <2>1 DEF LedgerInv, LockInv
      <3> QED
        BY <1>1, <2>1, <2>2, <3>1, ClosedIsAStore, FreshStorePreserves
  <1>3. CASE LastHash \notin Oversized
    <2> DEFINE st == [Closed EXCEPT !.phase = "open", !.head = LastHash]
    <2>1. LastHash \in Traces \cup {Genesis}
      BY LastOfTable DEF LedgerInv, Types
    <2>2. /\ gate' = [gate EXCEPT ![g] = st] /\ lock' = lock
          /\ st.buffer = <<>> /\ st.export = {} /\ st.phase = "open" /\ st.head = LastHash
      BY <1>3 DEF Closed
    <2>3. st \in Store
      BY <2>1, ClosedIsAStore DEF Store
    <2> HIDE DEF st
    <2>4. \A h \in Gates : gate'[h].phase # "closed" => h \in lock'
      BY <1>1, <2>2 DEF LedgerInv, LockInv
    <2> QED
      <3>1. lock' \subseteq Gates /\ \A h, k \in lock' : h = k
        BY <1>1, <2>2 DEF LedgerInv, LockInv
      <3> QED
        BY <1>1, <2>2, <2>3, <2>4, <3>1, FreshStorePreserves
  <1> QED
    BY <1>2, <1>3

LEMMA CrashPreserves ==
    ASSUME LedgerInv, NEW g \in Gates, GateCrashes(g)
    PROVE  LedgerInv'
  <1> USE DEF GateCrashes
  <1>1. gate \in [Gates -> Store] /\ deaths' \in Nat /\ lock \subseteq Gates
    BY DEF LedgerInv, Types
  <1>2. Closed.buffer = <<>> /\ Closed.export = {} /\ Closed.phase = "closed"
    BY DEF Closed
  <1>3. \A h \in Gates : gate'[h].phase # "closed" => h \in lock'
    BY <1>1, <1>2 DEF LedgerInv, LockInv
  <1> QED
    BY <1>1, <1>2, <1>3, ClosedIsAStore, FreshStorePreserves DEF LedgerInv, LockInv

\* Steps that touch neither the table of events, nor the file, nor any store.
LEMMA GrantStepPreserves ==
    ASSUME LedgerInv, GrantInv', intents \subseteq intents', receipts \subseteq receipts',
           intents' \subseteq Grants, receipts' \subseteq Grants,
           dispatches' \in [Grants -> Nat],
           UNCHANGED <<events, jsonl, lock, gate, acked, finalized, deaths>>
    PROVE  LedgerInv'
  <1>1. consumed' = intents' /\ consumed = intents
    BY DEF GrantInv, LedgerInv
  <1>2. Types'
    BY <1>1 DEF LedgerInv, Types
  <1>3. LockInv' /\ ExportInv' /\ UniqueInv' /\ ChainLinksHold'
    BY DEF LedgerInv, LockInv, ExportInv, UniqueInv, ChainLinksHold, LinkHolds
  <1>4. LastHash' = LastHash /\ Blemished' = Blemished
        /\ \A g \in Gates : Lines(g)' = Lines(g)
    BY DEF LastHash, Blemished, Lines
  <1>5. InOrder(events', jsonl')
    BY DEF LedgerInv
  <1>6. \A g \in Gates : \A e : Due(g, e) => Due(g, e)'
    BY <1>1, <1>4 DEF Due
  <1>7. MemoryInv'
    BY <1>4, <1>6 DEF LedgerInv, MemoryInv
  <1>8. AnswersAreDurable'
    BY <1>1 DEF LedgerInv, AnswersAreDurable, TracesOf
  <1> QED
    BY <1>2, <1>3, <1>5, <1>7, <1>8 DEF LedgerInv

LEMMA ConsumePreserves ==
    ASSUME LedgerInv, NEW g \in Gates, NEW x \in Grants, WriteIntentAndConsumeGrant(g, x)
    PROVE  LedgerInv'
  <1> USE DEF WriteIntentAndConsumeGrant
  <1>1. dispatches \in [Grants -> Nat] /\ intents \subseteq Grants /\ receipts \subseteq Grants
    BY DEF LedgerInv, Types
  <1>2. dispatches[x] = 0
    BY DEF LedgerInv, GrantInv
  <1>3. dispatches'[x] = 1 /\ \A y \in Grants : y # x => dispatches'[y] = dispatches[y]
    BY <1>1, <1>2
  <1>4. GrantInv'
    BY <1>3 DEF LedgerInv, GrantInv
  <1>5. dispatches' \in [Grants -> Nat]
    BY <1>1, <1>2
  <1> QED
    BY <1>1, <1>4, <1>5, GrantStepPreserves

LEMMA ReceiptPreserves ==
    ASSUME LedgerInv, NEW g \in Gates, NEW x \in Grants, WriteReceipt(g, x)
    PROVE  LedgerInv'
  <1> USE DEF WriteReceipt
  <1>1. dispatches \in [Grants -> Nat] /\ intents \subseteq Grants /\ receipts \subseteq Grants
    BY DEF LedgerInv, Types
  <1>2. GrantInv'
    BY DEF LedgerInv, GrantInv
  <1> QED
    BY <1>1, <1>2, GrantStepPreserves

\* An INSERT of the one open gate, in whichever call.
LEMMA InsertedPreserves ==
    ASSUME LedgerInv, NEW g \in Gates, NEW t \in Traces, NEW of \in SUBSET Grants,
           MutexFree(g), Inserted(g, t, of),
           receipts \subseteq receipts', receipts' \subseteq Grants,
           \A x \in of : FinalTrace[x] = t /\ x \in receipts' \cap consumed,
           UNCHANGED <<intents, consumed, jsonl, lock, acked, finalized, dispatches, deaths>>
    PROVE  LedgerInv'
  <1>1. /\ Types /\ gate \in [Gates -> Store] /\ events \in Seq(Event)
        /\ gate[g].phase = "open" /\ gate[g].export = {}
        /\ intents = consumed
    BY DEF LedgerInv, Types, MutexFree, GrantInv
  <1> DEFINE ev == [trace |-> t, prev |-> gate[g].head]
             n == Len(events)
  <1>2. gate[g] \in Store /\ gate[g].head \in Traces \cup {Genesis} /\ ev \in Event
    BY <1>1 DEF Store, Event
  <1>3. events' = Append(events, ev) /\ t \notin TracesOf(events) /\ ev.trace = t
        /\ ev.prev = gate[g].head
    BY DEF Inserted
  <1> HIDE DEF ev
  <1>4. /\ events' \in Seq(Event) /\ n \in Nat /\ Len(events') = n + 1
        /\ \A i \in 1..n : events'[i] = events[i]
        /\ events'[n + 1] = ev /\ events' # <<>>
        /\ TracesOf(events)' = TracesOf(events) \cup {t}
    BY <1>1, <1>2, <1>3, RowAdded
  <1> HIDE DEF n
  <1>5. \A i \in 1..n : events[i].trace # t
    BY <1>3 DEF TracesOf, n
  <1>6. LastHash' = t
    BY <1>3, <1>4 DEF LastHash
  <1>7. UniqueInv'
    <2> SUFFICES ASSUME NEW i \in 1..(n + 1), NEW j \in 1..(n + 1),
                        events'[i].trace = events'[j].trace
                 PROVE  i = j
      BY <1>4 DEF UniqueInv
    <2>1. CASE i \in 1..n /\ j \in 1..n
      BY <1>4, <2>1 DEF LedgerInv, UniqueInv, n
    <2>2. CASE i = n + 1 \/ j = n + 1
      BY <1>3, <1>4, <1>5, <2>2
    <2> QED
      BY <1>4, <2>1, <2>2
  <1>8. Blemished => Blemished'
    BY <1>4 DEF Blemished, n
  <1>9. t \in Oversized => Blemished'
    BY <1>3, <1>4 DEF Blemished
  <1>10. ChainLinksHold'
    <2> SUFFICES ASSUME NEW i \in 1..(n + 1)
                 PROVE  \/ events'[i].prev = IF i = 1 THEN Genesis ELSE events'[i - 1].trace
                        \/ \E j \in 1..(i - 1) : events'[j].trace \in Oversized
      BY <1>4 DEF ChainLinksHold, LinkHolds
    <2>1. CASE i \in 1..n
      <3>1. \/ events[i].prev = IF i = 1 THEN Genesis ELSE events[i - 1].trace
            \/ \E j \in 1..(i - 1) : events[j].trace \in Oversized
        BY <2>1 DEF LedgerInv, ChainLinksHold, LinkHolds, n
      <3>2. /\ events'[i] = events[i] /\ (i # 1 => events'[i - 1] = events[i - 1])
            /\ \A j \in 1..(i - 1) : events'[j] = events[j]
        BY <1>4, <2>1
      <3> QED
        BY <3>1, <3>2
    <2>2. CASE i = n + 1
      <3>1. CASE gate[g].head = LastHash
        <4>1. LastHash = IF n = 0 THEN Genesis ELSE events[n].trace
          BY <1>1, EmptySeq DEF LastHash, n
        <4>2. n # 0 => events'[n] = events[n]
          BY <1>4
        <4> QED
          BY <1>3, <1>4, <2>2, <3>1, <4>1, <4>2
      <3>2. CASE Blemished
        BY <1>4, <2>2, <3>2 DEF Blemished, n
      <3> QED
        BY <1>1, <3>1, <3>2 DEF LedgerInv, MemoryInv
    <2> QED
      BY <1>4, <2>1, <2>2
  <1>11. /\ gate'[g].phase = "open" /\ gate'[g].buffer = gate[g].buffer
         /\ gate'[g].head = t \/ t \in Oversized
         /\ gate'[g].export \subseteq {[trace |-> t, of |-> of]}
         /\ \A h \in Gates : h # g => gate'[h] = gate[h]
    BY <1>1, <1>2 DEF Inserted, Store
  <1>12. gate' \in [Gates -> Store]
    <2>1. [trace |-> t, of |-> of] \in [trace : Traces, of : SUBSET Grants]
      OBVIOUS
    <2> QED
      BY <1>1, <1>2, <2>1 DEF Inserted, Store
  <1>13. Types'
    BY <1>1, <1>4, <1>12 DEF Types
  <1>14. LockInv'
    BY <1>1, <1>11 DEF LedgerInv, LockInv
  <1>15. ExportInv'
    BY <1>11 DEF LedgerInv, ExportInv
  <1>16. \A h \in Gates : h # g => gate[h].phase # "open"
    BY <1>1 DEF LedgerInv, LockInv
  <1>17. MemoryInv'
    <2>1. Lines(g)' = Lines(g)
      BY <1>11 DEF Lines
    <2>2. PICK s : s = Lines(g) /\ InOrder(events, s)
      BY <1>1 DEF LedgerInv, MemoryInv
    <2>3. InOrder(events', s)
      BY <1>1, <1>2, <1>3, <2>2, StillInOrder
    <2>4. InOrder(events', Lines(g)')
      BY <2>1, <2>2, <2>3
    <2>5. ASSUME NEW e \in gate'[g].export PROVE Due(g, e)'
      <3>1. e.trace = t /\ e.of = of
        BY <1>11, <2>5
      <3>2. \A k \in 1..Len(s) : s[k] # t
        BY <1>3, <2>2 DEF InOrder
      <3>3. events'[Len(events')].trace = t
        BY <1>3, <1>4
      <3> QED
        BY <1>1, <1>4, <2>1, <2>2, <3>1, <3>2, <3>3 DEF Due
    <2> QED
      BY <1>6, <1>9, <1>11, <1>16, <2>4, <2>5 DEF MemoryInv
  <1>18. InOrder(events', jsonl')
    <2>1. PICK s : s = jsonl /\ InOrder(events, s)
      BY DEF LedgerInv
    <2>2. InOrder(events', s)
      BY <1>1, <1>2, <1>3, <2>1, StillInOrder
    <2> QED
      BY <2>1, <2>2
  <1>19. AnswersAreDurable' /\ GrantInv'
    BY <1>4 DEF LedgerInv, AnswersAreDurable, GrantInv
  <1> QED
    BY <1>7, <1>10, <1>13, <1>14, <1>15, <1>17, <1>18, <1>19 DEF LedgerInv

LEMMA WritePreserves ==
    ASSUME LedgerInv, NEW g \in Gates, NEW t \in Traces, WriteEvent(g, t)
    PROVE  LedgerInv'
  BY InsertedPreserves DEF WriteEvent, LedgerInv, Types

LEMMA FinalizePreserves ==
    ASSUME LedgerInv, NEW g \in Gates, NEW x \in Grants, FinalizeEvidence(g, x)
    PROVE  LedgerInv'
  <1> USE DEF FinalizeEvidence
  <1>1. x \in consumed
    BY DEF LedgerInv, GrantInv
  <1>2. FinalTrace[x] \in Traces /\ receipts \subseteq Grants /\ {x} \in SUBSET Grants
    BY LedgerAssumption DEF LedgerInv, Types
  <1> QED
    BY <1>1, <1>2, InsertedPreserves

LEMMA ExportPreserves ==
    ASSUME LedgerInv, NEW g \in Gates, NEW written \in BOOLEAN, ExportLine(g, written)
    PROVE  LedgerInv'
  <1>1. /\ Types /\ gate \in [Gates -> Store] /\ events \in Seq(Event) /\ jsonl \in Seq(Traces)
        /\ gate[g] \in Store /\ gate[g].buffer \in Seq(Traces) /\ Lines(g) \in Seq(Traces)
    BY StoreFields DEF LedgerInv, Types
  <1>a. PICK e \in gate[g].export :
            /\ \E left \in IF written THEN {<<>>} ELSE LeftBehind(g, e.trace) :
                  gate' = [gate EXCEPT ![g].export = @ \ {e}, ![g].buffer = left]
            /\ jsonl' = IF written THEN jsonl \o gate[g].buffer \o <<e.trace>> ELSE jsonl
            /\ acked' = IF written \/ e.of # {} THEN acked \cup {e.trace} ELSE acked
            /\ finalized' = finalized \cup e.of
            /\ UNCHANGED <<durable, lock, dispatches, deaths>>
    BY DEF ExportLine
  <1>b. PICK left \in IF written THEN {<<>>} ELSE LeftBehind(g, e.trace) :
            gate' = [gate EXCEPT ![g].export = @ \ {e}, ![g].buffer = left]
    BY <1>a
  <1>2. /\ gate' = [gate EXCEPT ![g].export = @ \ {e}, ![g].buffer = left]
        /\ jsonl' = IF written THEN jsonl \o gate[g].buffer \o <<e.trace>> ELSE jsonl
        /\ acked' = IF written \/ e.of # {} THEN acked \cup {e.trace} ELSE acked
        /\ finalized' = finalized \cup e.of
        /\ UNCHANGED <<durable, lock, dispatches, deaths>>
    BY <1>a, <1>b
  <1>3. gate[g].phase = "open" /\ gate[g].export = {e}
    BY DEF LedgerInv, LockInv, ExportInv
  <1>4. /\ InOrder(events, Lines(g)) /\ Due(g, e)
        /\ gate[g].head = LastHash \/ Blemished
    BY <1>3 DEF LedgerInv, MemoryInv
  <1>5. e.trace \in Traces /\ e.of \in SUBSET Grants /\ <<e.trace>> \in Seq(Traces)
    <2>1. e \in [trace : Traces, of : SUBSET Grants]
      BY <1>1 DEF Store
    <2> QED
      BY <2>1
  <1>6. InOrder(events, Lines(g) \o <<e.trace>>)
    <2>1. UniqueInv /\ events # <<>> /\ e.trace = events[Len(events)].trace
          /\ \A k \in 1..Len(Lines(g)) : Lines(g)[k] # e.trace
      BY <1>4 DEF LedgerInv, Due
    <2> QED
      BY <1>1, <1>4, <1>5, <2>1, LineAdded
  <1>7. left \in Seq(Traces)
    <2>1. Append(gate[g].buffer, e.trace) \in Seq(Traces)
      BY <1>1, <1>5
    <2> QED
      BY <1>1, <1>2, <2>1, EmptySeq DEF LeftBehind
  <1>8. /\ gate'[g].phase = "open" /\ gate'[g].head = gate[g].head
        /\ gate'[g].export = {} /\ gate'[g].buffer = left
        /\ \A h \in Gates : h # g => gate'[h] = gate[h]
        /\ gate' \in [Gates -> Store]
    BY <1>1, <1>2, <1>3, <1>7 DEF Store
  <1>9. jsonl' \in Seq(Traces)
    <2>1. Lines(g) \o <<e.trace>> \in Seq(Traces)
      BY <1>1, <1>5, ConcatProperties
    <2> QED
      BY <1>1, <1>2, <2>1 DEF Lines
  <1>10. InOrder(events, jsonl') /\ InOrder(events, Lines(g)')
    <2>1. CASE written
      <3>1. jsonl' = Lines(g) \o <<e.trace>> /\ Lines(g)' = jsonl' \o <<>>
        BY <1>2, <1>8, <2>1 DEF Lines
      <3>2. Lines(g)' = jsonl'
        BY <1>9, <3>1, ConcatEmptySeq
      <3> QED
        BY <1>6, <3>1, <3>2
    <2>2. CASE ~written /\ left = gate[g].buffer
      <3>1. jsonl' = jsonl /\ Lines(g)' = Lines(g)
        BY <1>2, <1>8, <2>2 DEF Lines
      <3> QED
        BY <1>4, <3>1 DEF LedgerInv
    <2>3. CASE ~written /\ left = Append(gate[g].buffer, e.trace)
      <3>1. Append(gate[g].buffer, e.trace) = gate[g].buffer \o <<e.trace>>
        BY <1>1, <1>5, AppendIsConcat
      <3>2. Lines(g)' = jsonl \o (gate[g].buffer \o <<e.trace>>)
        BY <1>2, <1>8, <2>3, <3>1 DEF Lines
      <3>3. Lines(g)' = Lines(g) \o <<e.trace>>
        <4>1. (jsonl \o gate[g].buffer) \o <<e.trace>> = jsonl \o (gate[g].buffer \o <<e.trace>>)
          <5> DEFINE buffer == gate[g].buffer
                     line == <<e.trace>>
          <5>1. buffer \in Seq(Traces) /\ line \in Seq(Traces) /\ jsonl \in Seq(Traces)
            BY <1>1, <1>5
          <5> HIDE DEF buffer, line
          <5>2. (jsonl \o buffer) \o line = jsonl \o (buffer \o line)
            BY <5>1, ConcatAssociative
          <5> QED
            BY <5>2 DEF buffer, line
        <4> QED
          BY <3>2, <4>1 DEF Lines
      <3>4. jsonl' = jsonl
        BY <1>2, <2>3
      <3> QED
        BY <1>6, <3>3, <3>4 DEF LedgerInv
    <2> QED
      BY <1>2, <2>1, <2>2, <2>3 DEF LeftBehind
  <1>11. InOrder(events', jsonl') /\ InOrder(events', Lines(g)')
    BY <1>2, <1>10 DEF durable
  <1>12. Types'
    BY <1>1, <1>2, <1>5, <1>8, <1>9 DEF Types, durable
  <1>13. LockInv' /\ ExportInv'
    BY <1>2, <1>3, <1>8 DEF LedgerInv, LockInv, ExportInv
  <1>14. MemoryInv'
    <2>1. \A h \in Gates : h # g => gate[h].phase # "open"
      BY <1>3 DEF LedgerInv, LockInv
    <2>2. LastHash' = LastHash /\ Blemished' = Blemished
      BY <1>2 DEF LastHash, Blemished, durable
    <2> QED
      BY <1>4, <1>8, <1>11, <2>1, <2>2 DEF MemoryInv
  <1>15. UniqueInv' /\ GrantInv' /\ ChainLinksHold'
    BY <1>2 DEF LedgerInv, UniqueInv, GrantInv, ChainLinksHold, LinkHolds, durable
  <1>16. AnswersAreDurable'
    <2>1. e.trace \in TracesOf(events)
      BY <1>1, <1>4, LastOfTable DEF Due, TracesOf
    <2>2. \A x \in e.of : FinalTrace[x] \in TracesOf(events)
                          /\ x \in receipts \cap intents \cap consumed
      BY <1>4, <2>1 DEF Due
    <2> QED
      BY <1>2, <2>1, <2>2 DEF LedgerInv, AnswersAreDurable, TracesOf, durable
  <1> QED
    BY <1>11, <1>12, <1>13, <1>14, <1>15, <1>16 DEF LedgerInv

--------------------------------------------------------------------------------
(***************************************************************************)
(* The invariant of the ledger: what a store remembers is true of the table *)
(* and of the file, whatever gates open, write and crash.                  *)
(***************************************************************************)
THEOREM LedgerInvariant == LedgerSpec => []LedgerInv
  <1>1. LedgerInit => LedgerInv
    <2> SUFFICES ASSUME LedgerInit PROVE LedgerInv
      OBVIOUS
    <2>1. Types
      BY ClosedIsAStore, EmptySeq DEF LedgerInit, Types
    <2>2. Len(events) = 0 /\ Len(jsonl) = 0
      BY EmptySeq DEF LedgerInit
    <2>3. UniqueInv /\ ChainLinksHold /\ InOrder(events, jsonl)
      BY <2>2 DEF UniqueInv, ChainLinksHold, InOrder
    <2>4. LockInv /\ MemoryInv /\ ExportInv
      BY DEF LedgerInit, Closed, LockInv, MemoryInv, ExportInv
    <2>5. GrantInv /\ AnswersAreDurable
      BY DEF LedgerInit, GrantInv, AnswersAreDurable
    <2> QED
      BY <2>1, <2>3, <2>4, <2>5 DEF LedgerInv
  <1>2. LedgerInv /\ [LedgerNext]_ledgerVars => LedgerInv'
    <2> SUFFICES ASSUME LedgerInv, [LedgerNext]_ledgerVars PROVE LedgerInv'
      OBVIOUS
    <2>1. CASE UNCHANGED ledgerVars
      <3>1. /\ UNCHANGED <<events, receipts, intents, consumed, jsonl, lock, gate, acked,
                           finalized, dispatches, deaths>>
        BY <2>1 DEF ledgerVars
      <3>2. GrantInv' /\ intents' \subseteq Grants /\ receipts' \subseteq Grants
            /\ dispatches' \in [Grants -> Nat]
        BY <3>1 DEF LedgerInv, GrantInv, Types
      <3> QED
        BY <3>1, <3>2, GrantStepPreserves
    <2>2. CASE LedgerNext
      <3>1. PICK g \in Gates :
                \/ AcquireWriterLock(g) \/ InitConnection(g) \/ GateCrashes(g)
                \/ \E t \in Traces : WriteEvent(g, t)
                \/ \E x \in Grants : \/ WriteIntentAndConsumeGrant(g, x)
                                     \/ FinalizeEvidence(g, x) \/ WriteReceipt(g, x)
                \/ \E written \in BOOLEAN : ExportLine(g, written)
        BY <2>2 DEF LedgerNext
      <3> QED
        BY <3>1, AcquirePreserves, InitPreserves, CrashPreserves, WritePreserves,
           ConsumePreserves, FinalizePreserves, ReceiptPreserves, ExportPreserves
    <2> QED
      BY <2>1, <2>2
  <1> QED
    BY <1>1, <1>2, PTL DEF LedgerSpec

\* What the invariant says of the file, in the words of the property.
LEMMA OrderOfFile ==
    ASSUME events \in Seq(Event), jsonl \in Seq(Traces), UniqueInv, InOrder(events, jsonl)
    PROVE  ExportFollowsTable
  <1> SUFFICES ASSUME NEW k \in 1..Len(jsonl)
               PROVE  \E i \in 1..Len(events) :
                        /\ events[i].trace = jsonl[k]
                        /\ \A l \in 1..(k - 1) : \E j \in 1..(i - 1) : events[j].trace = jsonl[l]
    BY DEF ExportFollowsTable
  <1>1. PICK i \in 1..Len(events) : events[i].trace = jsonl[k]
    BY DEF InOrder, TracesOf
  <1>2. ASSUME NEW l \in 1..(k - 1)
        PROVE  \E j \in 1..(i - 1) : events[j].trace = jsonl[l]
    <2>1. l \in 1..Len(jsonl) /\ l < k
      BY <1>2, LenProperties
    <2>2. PICK a, b \in 1..Len(events) :
              a < b /\ events[a].trace = jsonl[l] /\ events[b].trace = jsonl[k]
      BY <2>1 DEF InOrder, Before
    <2>3. b = i
      BY <1>1, <2>2 DEF UniqueInv
    <2>4. a \in 1..(i - 1)
      BY <2>2, <2>3, LenProperties
    <2> QED
      BY <2>2, <2>4
  <1> QED
    BY <1>1, <1>2

\* Whatever gates open the file, crash and restart: a link of the chain is wrong only
\* behind an event that cannot be hashed, the JSONL file follows the table, answers
\* of success are durable and a grant is cleared for dispatch once.
THEOREM LedgerIsSafe == LedgerSpec => []LedgerSafe
  <1>1. LedgerInv => LedgerSafe
    <2> SUFFICES ASSUME LedgerInv PROVE LedgerSafe
      OBVIOUS
    <2>1. Cardinality(lock) <= 1
      BY AtMostOne DEF LedgerInv, LockInv
    <2>2. \A g \in Gates : Cardinality(gate[g].export) <= 1
      BY AtMostOne DEF LedgerInv, ExportInv
    <2>3. LedgerTypeOK
      BY <2>1, <2>2 DEF LedgerInv, Types, LedgerTypeOK
    <2>4. ExportFollowsTable
      BY OrderOfFile DEF LedgerInv, Types
    <2>5. GrantDispatchedOnce
      BY DEF LedgerInv, GrantInv, GrantDispatchedOnce, UnresolvedIntents
    <2> QED
      BY <2>3, <2>4, <2>5 DEF LedgerInv, LedgerSafe
  <1> QED
    BY <1>1, LedgerInvariant, PTL

--------------------------------------------------------------------------------
(***************************************************************************)
(* Why pollers that share an outbox do not spoil each other's rows, for    *)
(* every number of rows, pollers, deaths and lost writes.  A row somebody  *)
(* works on is claimed and open, unless its claim was taken for abandoned; *)
(* a poll takes only rows that are free or whose claim it has just         *)
(* released; and whoever closes a row is the only one who has it in hand.  *)
(***************************************************************************)

Limit == IF MaxRetries = 0 THEN 1 ELSE MaxRetries

OutboxTypes ==
    /\ timeOfDay \in 0..(DayLength - 1) /\ crashes \in Nat /\ lost \in Nat
    /\ row \in [Rows -> Row]
    /\ poller \in [Pollers -> Batch]
    /\ accepted \subseteq Rows /\ stolen \subseteq Rows

\* What a row has been through.
RowOK(r) ==
    /\ row[r].delivered => r \in accepted
    /\ r \notin stolen =>
          /\ row[r].attempts <= Limit
          /\ ~row[r].dead => row[r].attempts < Limit
          /\ ~(row[r].delivered /\ row[r].dead)

\* What a poller has in hand.
PollerOK(p) ==
    /\ poller[p].todo \cap poller[p].at = {}
    /\ poller[p].at = {} => poller[p].outcome = "none"
    /\ poller[p].outcome = "ok" => poller[p].at \subseteq accepted

\* A row in somebody's hands is claimed and open, and in nobody else's.
HeldOK(p, r) ==
    Holds(p, r) /\ r \notin stolen =>
        /\ row[r].claimed /\ IsOpen(r)
        /\ \A q \in Pollers : Holds(q, r) => q = p

OutboxInv ==
    /\ OutboxTypes
    /\ \A r \in Rows : RowOK(r)
    /\ \A p \in Pollers : PollerOK(p)
    /\ \A p \in Pollers, r \in Rows : HeldOK(p, r)

--------------------------------------------------------------------------------
(* What the SQL leaves of a row.                                               *)

LEMMA RowFields ==
    ASSUME NEW x \in Row
    PROVE  /\ x.queued \in BOOLEAN /\ x.attempts \in Nat /\ x.wait \in {-1} \cup Nat
           /\ x.delivered \in BOOLEAN /\ x.dead \in BOOLEAN /\ x.claimed \in BOOLEAN
           /\ x.age \in 0..OldAge
  BY DEF Row

LEMMA Ages == OldAge \in Nat /\ 0 \in 0..OldAge /\ Limit \in Nat /\ Limit > 0 /\ MaxRetries <= Limit
  BY OutboxAssumption DEF OldAge, Limit

LEMMA BackoffIsNat ==
    ASSUME NEW n \in Nat
    PROVE  BackoffFor(n) \in Nat
  <1>1. Backoff \in Seq(Nat)
    BY OutboxAssumption
  <1>2. CASE Backoff = <<>>
    BY <1>2 DEF BackoffFor
  <1>3. CASE Backoff # <<>>
    <2>1. Len(Backoff) \in Nat /\ Len(Backoff) > 0
      BY <1>1, <1>3
    <2>2. (IF n < Len(Backoff) THEN n ELSE Len(Backoff) - 1) + 1 \in 1..Len(Backoff)
      BY <2>1
    <2> DEFINE i == (IF n < Len(Backoff) THEN n ELSE Len(Backoff) - 1) + 1
    <2>3. Backoff[i] \in Nat
      <3> HIDE DEF i
      <3>1. i \in 1..Len(Backoff)
        BY <2>2 DEF i
      <3> QED
        BY <1>1, <3>1
    <2> QED
      BY <1>3, <2>3 DEF BackoffFor
  <1> QED
    BY <1>2, <1>3

\* record_failure counts the attempt and ends the claim; the last one is the end.
LEMMA FailedRow ==
    ASSUME row \in [Rows -> Row], NEW r \in Rows, NEW m \in Nat
    PROVE  /\ Failed(r, m) \in Row
           /\ Failed(r, m).queued = row[r].queued
           /\ Failed(r, m).delivered = row[r].delivered
           /\ Failed(r, m).attempts = row[r].attempts + 1
           /\ Failed(r, m).claimed = FALSE
           /\ row[r].attempts + 1 >= m => Failed(r, m).dead = TRUE
           /\ row[r].attempts + 1 < m => Failed(r, m).dead = row[r].dead
  <1> DEFINE n == row[r].attempts + 1
  <1>1. row[r] \in Row /\ row[r].attempts \in Nat
    BY RowFields
  <1>2. n \in Nat /\ BackoffFor(n) \in Nat
    BY <1>1, BackoffIsNat
  <1>3. Failed(r, m) =
           IF n >= m
           THEN [row[r] EXCEPT !.attempts = n, !.dead = TRUE, !.claimed = FALSE, !.age = 0]
           ELSE [row[r] EXCEPT !.attempts = n, !.wait = BackoffFor(n),
                               !.claimed = FALSE, !.age = 0]
    BY DEF Failed
  <1> HIDE DEF n
  <1>4. CASE n >= m
    <2>1. Failed(r, m) = [row[r] EXCEPT !.attempts = n, !.dead = TRUE, !.claimed = FALSE,
                                        !.age = 0]
      BY <1>3, <1>4
    <2>2. /\ Failed(r, m) \in Row
          /\ Failed(r, m).queued = row[r].queued
          /\ Failed(r, m).delivered = row[r].delivered
          /\ Failed(r, m).attempts = n
          /\ Failed(r, m).claimed = FALSE
          /\ Failed(r, m).dead = TRUE
      BY <1>1, <1>2, <2>1, Ages DEF Row
    <2> QED
      BY <1>2, <1>4, <2>2 DEF n
  <1>5. CASE ~(n >= m)
    <2> DEFINE w == BackoffFor(n)
    <2>1. Failed(r, m) = [row[r] EXCEPT !.attempts = n, !.wait = w, !.claimed = FALSE, !.age = 0]
      BY <1>3, <1>5
    <2>2. w \in Nat
      BY <1>2
    <2> HIDE DEF w
    <2>3. /\ Failed(r, m) \in Row
          /\ Failed(r, m).queued = row[r].queued
          /\ Failed(r, m).delivered = row[r].delivered
          /\ Failed(r, m).attempts = n
          /\ Failed(r, m).claimed = FALSE
          /\ Failed(r, m).dead = row[r].dead
      BY <1>1, <1>2, <2>1, <2>2, Ages DEF Row
    <2> QED
      BY <1>2, <1>5, <2>3 DEF n
  <1> QED
    BY <1>4, <1>5

LEMMA DeliveredRow ==
    ASSUME row \in [Rows -> Row], NEW r \in Rows
    PROVE  /\ MarkedDelivered(r) \in Row
           /\ MarkedDelivered(r).dead = row[r].dead
           /\ MarkedDelivered(r).attempts = row[r].attempts
  BY Ages DEF MarkedDelivered, Row

\* What a row is after its poller closed it, if it was open.
LEMMA SettledRow ==
    ASSUME OutboxInv, NEW r \in Rows, NEW outcome \in {"ok", "failed"},
           outcome = "ok" => r \in accepted
    PROVE  /\ Settled(r, outcome) \in Row
           /\ Settled(r, outcome).delivered => r \in accepted
           /\ r \notin stolen /\ IsOpen(r) =>
                 /\ Settled(r, outcome).attempts <= Limit
                 /\ ~Settled(r, outcome).dead => Settled(r, outcome).attempts < Limit
                 /\ ~(Settled(r, outcome).delivered /\ Settled(r, outcome).dead)
  <1>1. row \in [Rows -> Row] /\ RowOK(r) /\ row[r].attempts \in Nat /\ row[r].dead \in BOOLEAN
        /\ row[r].delivered \in BOOLEAN /\ MaxRetries \in Nat
    BY RowFields, OutboxAssumption DEF OutboxInv, OutboxTypes
  <1>2. CASE outcome = "ok"
    <2>1. Settled(r, outcome) = MarkedDelivered(r)
      BY <1>2 DEF Settled
    <2> QED
      BY <1>1, <1>2, <2>1, DeliveredRow DEF RowOK, IsOpen
  <1>3. CASE outcome = "failed"
    <2>1. Settled(r, outcome) = Failed(r, MaxRetries)
      BY <1>3 DEF Settled
    <2>2. /\ Failed(r, MaxRetries) \in Row
          /\ Failed(r, MaxRetries).delivered = row[r].delivered
          /\ Failed(r, MaxRetries).attempts = row[r].attempts + 1
          /\ row[r].attempts + 1 >= MaxRetries => Failed(r, MaxRetries).dead = TRUE
          /\ row[r].attempts + 1 < MaxRetries => Failed(r, MaxRetries).dead = row[r].dead
      BY <1>1, FailedRow
    <2>3. row[r].attempts + 1 < MaxRetries => row[r].attempts + 1 < Limit
      BY <1>1, Ages
    <2>4. r \notin stolen /\ IsOpen(r) =>
             row[r].attempts + 1 <= Limit /\ ~row[r].delivered
      BY <1>1, Ages DEF RowOK, IsOpen
    <2>5. row[r].delivered => r \in accepted
      BY <1>1 DEF RowOK
    <2> QED
      BY <1>1, <2>1, <2>2, <2>3, <2>4, <2>5
  <1> QED
    BY <1>2, <1>3

--------------------------------------------------------------------------------
(* One lemma per action.                                                       *)

\* A step that leaves pollers and claims alone, and of every row what RowOK and
\* IsOpen ask about.
LEMMA SameRows ==
    ASSUME OutboxInv, OutboxTypes', UNCHANGED <<poller, accepted, stolen>>,
           \A r \in Rows : /\ row'[r].queued = row[r].queued
                           /\ row'[r].attempts = row[r].attempts
                           /\ row'[r].delivered = row[r].delivered
                           /\ row'[r].dead = row[r].dead
                           /\ row'[r].claimed = row[r].claimed
    PROVE  OutboxInv'
  <1>1. \A r \in Rows : RowOK(r)'
    BY DEF OutboxInv, RowOK
  <1>2. \A p \in Pollers : PollerOK(p)'
    BY DEF OutboxInv, PollerOK
  <1>3. \A p \in Pollers, r \in Rows : HeldOK(p, r)'
    BY DEF OutboxInv, HeldOK, Holds, IsOpen
  <1> QED
    BY <1>1, <1>2, <1>3 DEF OutboxInv

LEMMA OutboxTickKeeps ==
    ASSUME OutboxInv, OutboxTick
    PROVE  OutboxInv'
  <1>1. OutboxTypes
    BY DEF OutboxInv
  <1>2. ASSUME NEW r \in Rows
        PROVE  /\ row'[r] \in Row
               /\ row'[r].queued = row[r].queued /\ row'[r].attempts = row[r].attempts
               /\ row'[r].delivered = row[r].delivered /\ row'[r].dead = row[r].dead
               /\ row'[r].claimed = row[r].claimed
    <2> DEFINE w == IF IsOpen(r) /\ row[r].wait >= 0 THEN row[r].wait - 1 ELSE row[r].wait
               a == IF row[r].claimed /\ row[r].age < OldAge THEN row[r].age + 1
                                                             ELSE row[r].age
    <2>1. row[r] \in Row /\ row[r].wait \in {-1} \cup Nat /\ row[r].age \in 0..OldAge
      BY <1>1, RowFields DEF OutboxTypes
    <2>2. row'[r] = [row[r] EXCEPT !.wait = w, !.age = a]
      BY DEF OutboxTick
    <2>3. w \in {-1} \cup Nat /\ a \in 0..OldAge
      BY <2>1, Ages
    <2> HIDE DEF w, a
    <2> QED
      BY <2>1, <2>2, <2>3 DEF Row
  <1>3. OutboxTypes'
    <2>1. row' \in [Rows -> Row]
      BY <1>2 DEF OutboxTick
    <2>2. timeOfDay' \in 0..(DayLength - 1)
      <3>1. DayLength \in Nat \ {0} /\ timeOfDay \in Nat
        BY <1>1, OutboxAssumption DEF OutboxTypes
      <3>2. timeOfDay' = (timeOfDay + 1) % DayLength
        BY DEF OutboxTick
      <3> QED
        BY <3>1, <3>2
    <2> QED
      BY <1>1, <2>1, <2>2 DEF OutboxTypes, OutboxTick
  <1> QED
    BY <1>2, <1>3, SameRows DEF OutboxTick

\* A step on a row that nobody works on.
LEMMA FreeRow ==
    ASSUME OutboxInv, OutboxTypes', NEW r \in Rows, UNCHANGED <<poller, accepted, stolen>>,
           r \in stolen \/ \A p \in Pollers : ~Holds(p, r),
           \A z \in Rows : z # r => row'[z] = row[z],
           RowOK(r)'
    PROVE  OutboxInv'
  <1>1. \A z \in Rows : RowOK(z)'
    BY DEF OutboxInv, RowOK
  <1>2. \A p \in Pollers : PollerOK(p)'
    BY DEF OutboxInv, PollerOK
  <1>3. ASSUME NEW p \in Pollers, NEW z \in Rows PROVE HeldOK(p, z)'
    <2>1. HeldOK(p, z)
      BY DEF OutboxInv
    <2>2. Holds(p, z)' <=> Holds(p, z)
      BY DEF Holds
    <2>3. CASE z = r
      BY <2>1, <2>2, <2>3 DEF HeldOK
    <2>4. CASE z # r
      <3>1. row'[z] = row[z]
        BY <2>4
      <3> QED
        BY <2>1, <3>1 DEF HeldOK, Holds, IsOpen
    <2> QED
      BY <2>3, <2>4
  <1> QED
    BY <1>1, <1>2, <1>3 DEF OutboxInv

LEMMA EnqueueKeeps ==
    ASSUME OutboxInv, NEW r \in Rows, Enqueue(r)
    PROVE  OutboxInv'
  <1>1. OutboxTypes /\ \A p \in Pollers : HeldOK(p, r)
    BY DEF OutboxInv
  <1>2. /\ row' = [row EXCEPT ![r] = [NoRow EXCEPT !.queued = TRUE]] /\ ~row[r].queued
        /\ UNCHANGED <<timeOfDay, poller, accepted, stolen, crashes, lost>>
    BY DEF Enqueue
  <1>3. r \in stolen \/ \A p \in Pollers : ~Holds(p, r)
    BY <1>1, <1>2 DEF HeldOK, IsOpen
  <1>4. [NoRow EXCEPT !.queued = TRUE] \in Row
    BY Ages DEF NoRow, Row
  <1>5. OutboxTypes'
    BY <1>1, <1>2, <1>4 DEF OutboxTypes
  <1>6. row'[r] = [NoRow EXCEPT !.queued = TRUE] /\ \A z \in Rows : z # r => row'[z] = row[z]
    BY <1>1, <1>2 DEF OutboxTypes
  <1>7. RowOK(r)'
    BY <1>6, Ages DEF RowOK, NoRow
  <1> QED
    BY <1>2, <1>3, <1>5, <1>6, <1>7, FreeRow

LEMMA RetryKeeps ==
    ASSUME OutboxInv, NEW r \in Rows, RetryDeadLetter(r)
    PROVE  OutboxInv'
  <1>1. OutboxTypes /\ RowOK(r) /\ \A p \in Pollers : HeldOK(p, r)
    BY DEF OutboxInv
  <1>2. /\ row' = [row EXCEPT ![r].dead = FALSE, ![r].attempts = 0, ![r].wait = 0,
                              ![r].claimed = FALSE, ![r].age = 0]
        /\ row[r].dead
        /\ UNCHANGED <<timeOfDay, poller, accepted, stolen, crashes, lost>>
    BY DEF RetryDeadLetter
  <1>3. r \in stolen \/ \A p \in Pollers : ~Holds(p, r)
    BY <1>1, <1>2 DEF HeldOK, IsOpen
  <1>4. row'[r] = [row[r] EXCEPT !.dead = FALSE, !.attempts = 0, !.wait = 0,
                                 !.claimed = FALSE, !.age = 0]
        /\ \A z \in Rows : z # r => row'[z] = row[z]
    BY <1>1, <1>2 DEF OutboxTypes
  <1>5. row[r] \in Row
    BY <1>1 DEF OutboxTypes
  <1>6. /\ row'[r] \in Row /\ row'[r].delivered = row[r].delivered
        /\ row'[r].dead = FALSE /\ row'[r].attempts = 0
    <2>1. row'[r] = [queued |-> row[r].queued, attempts |-> 0, wait |-> 0,
                     delivered |-> row[r].delivered, dead |-> FALSE, claimed |-> FALSE,
                     age |-> 0]
      BY <1>4, <1>5 DEF Row
    <2>2. row[r].queued \in BOOLEAN /\ row[r].delivered \in BOOLEAN
      BY <1>5, RowFields
    <2> QED
      BY <2>1, <2>2, Ages DEF Row
  <1>7. OutboxTypes'
    BY <1>1, <1>2, <1>6 DEF OutboxTypes
  <1>8. RowOK(r)'
    BY <1>1, <1>2, <1>6, Ages DEF RowOK
  <1> QED
    BY <1>2, <1>3, <1>4, <1>7, <1>8, FreeRow

\* Poller p closes the rows of C, which it has in hand, or drops them as they are.
LEMMA ClosedRows ==
    ASSUME OutboxInv, OutboxTypes', NEW p \in Pollers, NEW C \in SUBSET Rows,
           UNCHANGED <<accepted, stolen>>,
           \A q \in Pollers : q # p => poller'[q] = poller[q],
           \A r \in C : Holds(p, r) /\ ~Holds(p, r)' /\ RowOK(r)',
           \A r \in Rows \ C : row'[r] = row[r] /\ (Holds(p, r)' => Holds(p, r)),
           PollerOK(p)'
    PROVE  OutboxInv'
  <1>1. \A r \in Rows : RowOK(r)'
    BY DEF OutboxInv, RowOK
  <1>2. \A q \in Pollers : PollerOK(q)'
    BY DEF OutboxInv, PollerOK
  <1>3. ASSUME NEW q \in Pollers, NEW r \in Rows PROVE HeldOK(q, r)'
    <2>1. HeldOK(q, r) /\ HeldOK(p, r)
      BY DEF OutboxInv
    <2>2. \A z \in Pollers : Holds(z, r)' => Holds(z, r)
      BY DEF Holds
    <2>3. CASE r \in C
      BY <2>1, <2>2, <2>3 DEF HeldOK
    <2>4. CASE r \notin C
      <3>1. row'[r] = row[r]
        BY <2>4
      <3>2. IsOpen(r)' <=> IsOpen(r)
        BY <3>1 DEF IsOpen
      <3> QED
        BY <2>1, <2>2, <3>1, <3>2 DEF HeldOK
    <2> QED
      BY <2>3, <2>4
  <1> QED
    BY <1>1, <1>2, <1>3 DEF OutboxInv

LEMMA OrphanKeeps ==
    ASSUME OutboxInv, NEW p \in Pollers, NEW r \in Rows, DeadLetterOrphan(p, r)
    PROVE  OutboxInv'
  <1>1. OutboxTypes /\ RowOK(r) /\ PollerOK(p) /\ HeldOK(p, r)
    BY DEF OutboxInv
  <1>2. /\ poller[p].at = {} /\ r \in poller[p].todo
        /\ row' = [row EXCEPT ![r] = Failed(r, 0)]
        /\ poller' = [poller EXCEPT ![p].todo = poller[p].todo \ {r}]
        /\ UNCHANGED <<timeOfDay, accepted, stolen, crashes, lost>>
    BY DEF DeadLetterOrphan
  <1>3. row[r].attempts \in Nat /\ row \in [Rows -> Row] /\ row[r].delivered \in BOOLEAN
    BY <1>1, RowFields DEF OutboxTypes
  <1>4. /\ Failed(r, 0) \in Row /\ Failed(r, 0).delivered = row[r].delivered
        /\ Failed(r, 0).attempts = row[r].attempts + 1 /\ Failed(r, 0).dead = TRUE
    <2>1. row[r].attempts + 1 >= 0 /\ 0 \in Nat
      BY <1>3
    <2> QED
      BY <1>3, <2>1, FailedRow, Zenon
  <1>5. row'[r] = Failed(r, 0) /\ \A z \in Rows : z # r => row'[z] = row[z]
    BY <1>1, <1>2 DEF OutboxTypes
  <1> DEFINE rest == poller[p].todo \ {r}
  <1>6. /\ poller'[p] = [poller[p] EXCEPT !.todo = rest]
        /\ \A q \in Pollers : q # p => poller'[q] = poller[q]
    BY <1>1, <1>2 DEF OutboxTypes
  <1>7. poller[p] \in Batch /\ rest \in SUBSET Rows
    BY <1>1 DEF OutboxTypes, Batch
  <1> HIDE DEF rest
  <1>8. /\ poller'[p] \in Batch /\ poller'[p].todo = rest /\ poller'[p].at = poller[p].at
        /\ poller'[p].outcome = poller[p].outcome
    BY <1>6, <1>7 DEF Batch
  <1>9. OutboxTypes'
    BY <1>1, <1>2, <1>4, <1>8 DEF OutboxTypes
  <1>10. Holds(p, r) /\ ~Holds(p, r)'
    BY <1>2, <1>8 DEF Holds, rest
  <1>11. RowOK(r)'
    BY <1>1, <1>2, <1>3, <1>4, <1>5, <1>10, Ages DEF RowOK, HeldOK, IsOpen
  <1>12. PollerOK(p)'
    BY <1>1, <1>2, <1>8 DEF PollerOK, rest
  <1>13. \A z \in Rows \ {r} : row'[z] = row[z] /\ (Holds(p, z)' => Holds(p, z))
    BY <1>5, <1>8 DEF Holds, rest
  <1>14. \A z \in {r} : Holds(p, z) /\ ~Holds(p, z)' /\ RowOK(z)'
    BY <1>10, <1>11
  <1>15. {r} \in SUBSET Rows /\ UNCHANGED <<accepted, stolen>>
    BY <1>2
  <1> QED
    BY <1>6, <1>9, <1>12, <1>13, <1>14, <1>15, ClosedRows

LEMMA SettleKeeps ==
    ASSUME OutboxInv, NEW p \in Pollers, NEW written \in BOOLEAN, Settle(p, written)
    PROVE  OutboxInv'
  <1> DEFINE C == IF written THEN poller[p].at ELSE {}
  <1>1. OutboxTypes /\ PollerOK(p) /\ poller[p] \in Batch
    BY DEF OutboxInv, OutboxTypes
  <1>2. /\ poller[p].outcome # "none"
        /\ lost' = IF written THEN lost ELSE lost + 1
        /\ row' = IF written
                  THEN [r \in Rows |-> IF r \in poller[p].at
                                       THEN Settled(r, poller[p].outcome) ELSE row[r]]
                  ELSE row
        /\ poller' = [poller EXCEPT ![p].at = {}, ![p].outcome = "none"]
        /\ UNCHANGED <<timeOfDay, accepted, stolen, crashes>>
    BY DEF Settle
  <1>3. /\ poller[p].outcome \in {"ok", "failed"} /\ poller[p].at \in SUBSET Rows
        /\ poller[p].todo \in SUBSET Rows
    BY <1>1, <1>2 DEF Batch
  <1>4. /\ poller'[p] = [poller[p] EXCEPT !.at = {}, !.outcome = "none"]
        /\ \A q \in Pollers : q # p => poller'[q] = poller[q]
    BY <1>1, <1>2 DEF OutboxTypes
  <1>5. /\ poller'[p] \in Batch /\ poller'[p].todo = poller[p].todo /\ poller'[p].at = {}
        /\ poller'[p].outcome = "none"
    BY <1>1, <1>4 DEF Batch
  <1>6. ASSUME NEW r \in C
        PROVE  Holds(p, r) /\ ~Holds(p, r)' /\ RowOK(r)' /\ row'[r] \in Row
    <2>1. written /\ r \in poller[p].at /\ r \in Rows
      BY <1>3
    <2>2. Holds(p, r) /\ ~Holds(p, r)'
      BY <1>1, <1>5, <2>1 DEF Holds, PollerOK
    <2>3. row'[r] = Settled(r, poller[p].outcome)
      BY <1>2, <2>1
    <2>4. poller[p].outcome = "ok" => r \in accepted
      BY <1>1, <2>1 DEF PollerOK
    <2>5. r \notin stolen => IsOpen(r)
      BY <2>1, <2>2 DEF OutboxInv, HeldOK
    <2> DEFINE o == poller[p].outcome
    <2>6. o \in {"ok", "failed"} /\ (o = "ok" => r \in accepted) /\ row'[r] = Settled(r, o)
      BY <1>3, <2>3, <2>4
    <2> HIDE DEF o
    <2> QED
      BY <1>2, <2>1, <2>2, <2>5, <2>6, SettledRow DEF RowOK
  <1>7. \A r \in Rows \ C : row'[r] = row[r] /\ (Holds(p, r)' => Holds(p, r))
    BY <1>2, <1>5 DEF Holds
  <1>8. C \in SUBSET Rows
    BY <1>3
  <1>9. OutboxTypes'
    <2>1. \A r \in Rows : row'[r] \in Row
      BY <1>1, <1>6, <1>7 DEF OutboxTypes
    <2>2. row' \in [Rows -> Row]
      BY <1>1, <1>2, <2>1 DEF OutboxTypes
    <2>3. lost' \in Nat
      BY <1>1, <1>2 DEF OutboxTypes
    <2> QED
      BY <1>1, <1>2, <1>5, <2>2, <2>3 DEF OutboxTypes
  <1>10. PollerOK(p)'
    BY <1>5 DEF PollerOK
  <1> HIDE DEF C
  <1> QED
    BY <1>2, <1>4, <1>6, <1>7, <1>8, <1>9, <1>10, ClosedRows

LEMMA DiesKeeps ==
    ASSUME OutboxInv, NEW p \in Pollers, PollerDies(p)
    PROVE  OutboxInv'
  <1>1. OutboxTypes
    BY DEF OutboxInv
  <1>2. /\ crashes' = crashes + 1 /\ poller' = [poller EXCEPT ![p] = Idle]
        /\ UNCHANGED <<timeOfDay, row, accepted, stolen, lost>>
    BY DEF PollerDies
  <1>3. Idle \in Batch /\ poller'[p] = Idle /\ \A q \in Pollers : q # p => poller'[q] = poller[q]
    BY <1>1, <1>2 DEF OutboxTypes, Idle, Batch
  <1>4. OutboxTypes'
    BY <1>1, <1>2, <1>3 DEF OutboxTypes
  <1>5. PollerOK(p)' /\ \A r \in Rows : ~Holds(p, r)'
    BY <1>3 DEF PollerOK, Idle, Holds
  <1>6. {} \in SUBSET Rows /\ UNCHANGED <<accepted, stolen>>
        /\ \A r \in Rows \ {} : row'[r] = row[r] /\ (Holds(p, r)' => Holds(p, r))
    BY <1>2, <1>5
  <1>7. \A r \in {} : Holds(p, r) /\ ~Holds(p, r)' /\ RowOK(r)'
    OBVIOUS
  <1> QED
    BY <1>3, <1>4, <1>5, <1>6, <1>7, ClosedRows

LEMMA TakeKeeps ==
    ASSUME OutboxInv, NEW p \in Pollers, NEW r \in Rows, TakeEntry(p, r)
    PROVE  OutboxInv'
  <1>1. OutboxTypes /\ PollerOK(p) /\ poller[p] \in Batch
    BY DEF OutboxInv, OutboxTypes
  <1>2. /\ poller[p].at = {} /\ r \in poller[p].todo
        /\ poller' = [poller EXCEPT ![p].todo = poller[p].todo \ {r}, ![p].at = {r}]
        /\ UNCHANGED <<timeOfDay, row, accepted, stolen, crashes, lost>>
    BY DEF TakeEntry
  <1> DEFINE rest == poller[p].todo \ {r}
  <1>3. /\ poller'[p] = [poller[p] EXCEPT !.todo = rest, !.at = {r}]
        /\ \A q \in Pollers : q # p => poller'[q] = poller[q]
    BY <1>1, <1>2 DEF OutboxTypes
  <1>4. rest \in SUBSET Rows
    BY <1>1 DEF Batch
  <1> HIDE DEF rest
  <1>5. /\ poller'[p] \in Batch /\ poller'[p].todo = rest /\ poller'[p].at = {r}
        /\ poller'[p].outcome = poller[p].outcome
    <2>1. poller'[p] = [todo |-> rest, at |-> {r}, outcome |-> poller[p].outcome]
      BY <1>1, <1>3 DEF Batch
    <2>2. poller[p].outcome \in {"none", "ok", "failed"} /\ {r} \in SUBSET Rows
      BY <1>1 DEF Batch
    <2> QED
      BY <1>4, <2>1, <2>2 DEF Batch
  <1>6. OutboxTypes'
    BY <1>1, <1>2, <1>5 DEF OutboxTypes
  <1>7. \A z \in Rows : Holds(p, z)' <=> Holds(p, z)
    BY <1>2, <1>5 DEF Holds, rest
  <1>8. PollerOK(p)'
    BY <1>1, <1>2, <1>5 DEF PollerOK, rest
  <1>9. {} \in SUBSET Rows /\ UNCHANGED <<accepted, stolen>>
        /\ \A z \in Rows \ {} : row'[z] = row[z] /\ (Holds(p, z)' => Holds(p, z))
    BY <1>2, <1>7
  <1>10. \A z \in {} : Holds(p, z) /\ ~Holds(p, z)' /\ RowOK(z)'
    OBVIOUS
  <1> QED
    BY <1>3, <1>6, <1>8, <1>9, <1>10, ClosedRows

LEMMA DeliverKeeps ==
    ASSUME OutboxInv, NEW p \in Pollers, NEW outcome \in {"ok", "failed"}, NEW accepts \in BOOLEAN,
           Deliver(p, outcome, accepts)
    PROVE  OutboxInv'
  <1>1. OutboxTypes /\ PollerOK(p) /\ poller[p] \in Batch
    BY DEF OutboxInv, OutboxTypes
  <1>2. /\ poller[p].at # {} /\ (outcome = "ok" => accepts)
        /\ poller' = [poller EXCEPT ![p].outcome = outcome]
        /\ accepted' = IF accepts THEN accepted \cup poller[p].at ELSE accepted
        /\ UNCHANGED <<timeOfDay, row, stolen, crashes, lost>>
    BY DEF Deliver
  <1>3. /\ poller'[p] = [poller[p] EXCEPT !.outcome = outcome]
        /\ \A q \in Pollers : q # p => poller'[q] = poller[q]
    BY <1>1, <1>2 DEF OutboxTypes
  <1>4. /\ poller'[p] \in Batch /\ poller'[p].todo = poller[p].todo
        /\ poller'[p].at = poller[p].at /\ poller'[p].outcome = outcome
    BY <1>1, <1>3 DEF Batch
  <1>5. accepted' \subseteq Rows /\ accepted \subseteq accepted'
    BY <1>1, <1>2 DEF OutboxTypes, Batch
  <1>6. OutboxTypes'
    BY <1>1, <1>2, <1>4, <1>5 DEF OutboxTypes
  <1>7. \A r \in Rows : RowOK(r)'
    BY <1>2, <1>5 DEF OutboxInv, RowOK
  <1>8. PollerOK(p)'
    BY <1>1, <1>2, <1>4 DEF PollerOK
  <1>9. \A q \in Pollers : PollerOK(q)'
    BY <1>3, <1>5, <1>8 DEF OutboxInv, PollerOK
  <1>10. \A q \in Pollers, r \in Rows : Holds(q, r)' <=> Holds(q, r)
    BY <1>3, <1>4 DEF Holds
  <1>11. \A q \in Pollers, r \in Rows : HeldOK(q, r)'
    BY <1>2, <1>10 DEF OutboxInv, HeldOK, IsOpen
  <1> QED
    BY <1>6, <1>7, <1>9, <1>11 DEF OutboxInv

LEMMA PollKeeps ==
    ASSUME OutboxInv, NEW p \in Pollers, NEW S, PollPending(p, S)
    PROVE  OutboxInv'
  <1>1. OutboxTypes
    BY DEF OutboxInv
  <1>2. /\ poller[p] = Idle /\ S \in Candidates
        /\ row' = [r \in Rows |->
                     IF r \in S THEN [row[r] EXCEPT !.claimed = TRUE, !.age = 0]
                     ELSE IF IsStale(r) THEN [row[r] EXCEPT !.claimed = FALSE, !.age = 0]
                     ELSE row[r]]
        /\ poller' = [poller EXCEPT ![p] = [Idle EXCEPT !.todo = S]]
        /\ stolen' = stolen \cup {r \in Rows : IsStale(r) /\ \E q \in Pollers : Holds(q, r)}
        /\ UNCHANGED <<timeOfDay, accepted, crashes, lost>>
    BY DEF PollPending
  <1>3. S \in SUBSET Rows /\ \A r \in S : Dispatchable(r)
    BY <1>2 DEF Candidates
  <1>4. /\ poller'[p] \in Batch /\ poller'[p].todo = S /\ poller'[p].at = {}
        /\ poller'[p].outcome = "none"
        /\ \A q \in Pollers : q # p => poller'[q] = poller[q]
    BY <1>1, <1>2, <1>3 DEF OutboxTypes, Idle, Batch
  <1>5. ASSUME NEW r \in Rows
        PROVE  /\ row'[r] \in Row
               /\ row'[r].queued = row[r].queued /\ row'[r].attempts = row[r].attempts
               /\ row'[r].delivered = row[r].delivered /\ row'[r].dead = row[r].dead
               /\ r \in S => row'[r].claimed = TRUE
               /\ r \notin S /\ ~IsStale(r) => row'[r].claimed = row[r].claimed
    <2>1. row[r] \in Row
      BY <1>1 DEF OutboxTypes
    <2>2. CASE r \in S
      <3>1. row'[r] = [row[r] EXCEPT !.claimed = TRUE, !.age = 0]
        BY <1>2, <2>2
      <3> QED
        BY <2>1, <2>2, <3>1, Ages DEF Row
    <2>3. CASE r \notin S /\ IsStale(r)
      <3>1. row'[r] = [row[r] EXCEPT !.claimed = FALSE, !.age = 0]
        BY <1>2, <2>3
      <3> QED
        BY <2>1, <2>3, <3>1, Ages DEF Row
    <2>4. CASE r \notin S /\ ~IsStale(r)
      <3>1. row'[r] = row[r]
        BY <1>2, <2>4
      <3> QED
        BY <2>1, <2>4, <3>1
    <2> QED
      BY <2>2, <2>3, <2>4
  <1>6. stolen \subseteq stolen' /\ stolen' \subseteq Rows
    BY <1>1, <1>2 DEF OutboxTypes
  <1>7. OutboxTypes'
    <2>1. row' \in [Rows -> Row]
      BY <1>2, <1>5
    <2> QED
      BY <1>1, <1>2, <1>4, <1>6, <2>1 DEF OutboxTypes
  <1>8. ASSUME NEW r \in Rows PROVE RowOK(r)'
    BY <1>2, <1>5, <1>6 DEF OutboxInv, RowOK
  <1>9. ASSUME NEW q \in Pollers PROVE PollerOK(q)'
    BY <1>2, <1>4 DEF OutboxInv, PollerOK
  \* Nobody has a row of S in hand, unless its claim was just released.
  <1>10. ASSUME NEW r \in S, NEW q \in Pollers, Holds(q, r), r \notin stolen' PROVE FALSE
    <2>1. r \in Rows /\ Dispatchable(r) /\ r \notin stolen
      BY <1>3, <1>6, <1>10
    <2>2. row[r].claimed
      BY <1>10, <2>1 DEF OutboxInv, HeldOK
    <2>3. IsStale(r)
      BY <2>1, <2>2 DEF Dispatchable
    <2> QED
      BY <1>2, <1>10, <2>1, <2>3
  <1>11. ASSUME NEW q \in Pollers, NEW r \in Rows PROVE HeldOK(q, r)'
    <2> SUFFICES ASSUME Holds(q, r)', r \notin stolen'
                 PROVE  /\ row'[r].claimed /\ IsOpen(r)'
                        /\ \A z \in Pollers : Holds(z, r)' => z = q
      BY DEF HeldOK
    <2>1. \A z \in Pollers : z # p => (Holds(z, r)' <=> Holds(z, r))
      BY <1>4 DEF Holds
    <2>2. Holds(p, r)' <=> r \in S
      BY <1>4 DEF Holds
    <2>3. CASE r \in S
      <3>1. \A z \in Pollers : ~Holds(z, r)
        BY <1>10, <2>3
      <3>2. IsOpen(r)
        BY <1>3, <2>3 DEF Dispatchable
      <3> QED
        BY <1>5, <2>1, <2>3, <3>1, <3>2 DEF IsOpen
    <2>4. CASE r \notin S
      <3>1. q # p /\ Holds(q, r) /\ r \notin stolen
        BY <1>6, <2>1, <2>2, <2>4
      <3>2. HeldOK(q, r)
        BY DEF OutboxInv
      <3>3. ~IsStale(r)
        BY <1>2, <3>1
      <3>4. row'[r].claimed = row[r].claimed
        BY <1>5, <2>4, <3>3
      <3> QED
        BY <1>5, <2>1, <2>2, <2>4, <3>1, <3>2, <3>4 DEF HeldOK, IsOpen
    <2> QED
      BY <2>3, <2>4
  <1> QED
    BY <1>7, <1>8, <1>9, <1>11 DEF OutboxInv

--------------------------------------------------------------------------------
\* OutboxInv holds in every reachable state of the outbox, whatever pollers share it.
THEOREM OutboxInvariant == OutboxSpec => []OutboxInv
  <1>1. OutboxInit => OutboxInv
    <2> SUFFICES ASSUME OutboxInit PROVE OutboxInv
      OBVIOUS
    <2>1. NoRow \in Row /\ Idle \in Batch /\ 0 \in 0..(DayLength - 1)
      BY Ages, OutboxAssumption DEF NoRow, Row, Idle, Batch
    <2>2. OutboxTypes
      BY <2>1 DEF OutboxInit, OutboxTypes
    <2>3. \A r \in Rows : RowOK(r)
      BY Ages DEF OutboxInit, RowOK, NoRow
    <2>4. \A p \in Pollers : PollerOK(p) /\ \A r \in Rows : ~Holds(p, r)
      BY DEF OutboxInit, PollerOK, Idle, Holds
    <2> QED
      BY <2>2, <2>3, <2>4 DEF OutboxInv, HeldOK
  <1>2. OutboxInv /\ [OutboxNext]_outboxVars => OutboxInv'
    <2> SUFFICES ASSUME OutboxInv, [OutboxNext]_outboxVars PROVE OutboxInv'
      OBVIOUS
    <2>1. CASE UNCHANGED outboxVars
      <3>1. OutboxTypes' /\ UNCHANGED <<row, poller, accepted, stolen>>
        BY <2>1 DEF outboxVars, OutboxInv, OutboxTypes
      <3> QED
        BY <3>1, SameRows
    <2>2. CASE OutboxTick
      BY <2>2, OutboxTickKeeps
    <2>3. ASSUME NEW r \in Rows, Enqueue(r) \/ RetryDeadLetter(r) PROVE OutboxInv'
      BY <2>3, EnqueueKeeps, RetryKeeps
    <2>4. ASSUME NEW p \in Pollers,
                 \/ PollerStep(p) \/ PollPending(p, {}) \/ Settle(p, FALSE) \/ PollerDies(p)
          PROVE  OutboxInv'
      BY <2>4, PollKeeps, OrphanKeeps, TakeKeeps, DeliverKeeps, SettleKeeps, DiesKeeps
         DEF PollerStep
    <2> QED
      BY <2>1, <2>2, <2>3, <2>4 DEF OutboxNext
  <1> QED
    BY <1>1, <1>2, PTL DEF OutboxSpec

\* Pollers that share one outbox, die and lose their closing writes (poll_pending,
\* mark_delivered, record_failure): while no claim of a poller at work was taken for
\* abandoned, a row is in one poller's hands, is tried at most max_retries times and
\* ends one way; and what reads "delivered" was always accepted by its receiver.
THEOREM OutboxIsSafe == OutboxSpec => []OutboxSafe
  <1>1. OutboxInv => OutboxSafe
    <2> SUFFICES ASSUME OutboxInv PROVE OutboxSafe
      OBVIOUS
    <2>1. OutboxTypeOK
      BY DEF OutboxInv, OutboxTypes, OutboxTypeOK, RowOK, Limit
    <2>2. PollersDisjoint
      BY DEF OutboxInv, HeldOK, PollersDisjoint
    <2>3. WorkIsClaimed
      BY DEF OutboxInv, HeldOK, WorkIsClaimed
    <2>4. OneVerdict /\ DeliveredWasAccepted
      BY DEF OutboxInv, RowOK, OneVerdict, DeliveredWasAccepted
    <2> QED
      BY <2>1, <2>2, <2>3, <2>4 DEF OutboxSafe
  <1> QED
    BY <1>1, OutboxInvariant, PTL

--------------------------------------------------------------------------------
(***************************************************************************)
(* What executions of providers do to files and origins, and what the host *)
(* has seen of it, for every number of executions, paths, contents, calls  *)
(* and retries.  A call in hand is one that is counted and has recorded    *)
(* nothing yet; a request in hand has not reached the origin; and what a   *)
(* file operation has found out by its last step is what the verifier will *)
(* ask of the effect.                                                      *)
(***************************************************************************)

\* An effect on a file is one the verifier accepts, or the deletion of a file that
\* could not be hashed.
EffectOK(e) ==
    e.op # "http" => Sound(e) \/ (e.op = "delete" /\ e.before = Unsaid)

InHand(r) == IF run[r].at = "call" THEN 1 ELSE 0
NotSent(r) == IF run[r].at = "call" /\ run[r].op = "http" THEN 1 ELSE 0

\* Attempts already made of the request in hand, and the repetitions n calls may have.
Tries(r) == IF run[r].at = "call" /\ run[r].op = "http" THEN run[r].sends ELSE 0
Repeats(n) == EgressRetryMax * n

CallInv(r) ==
    /\ Len(observed[r]) + InHand(r) <= run[r].calls
    /\ origin[r].reached + NotSent(r) <= run[r].https + origin[r].feigned
    /\ origin[r].feigned <= Repeats(run[r].https - NotSent(r)) + Tries(r)
    /\ NotSent(r) <= run[r].https /\ run[r].https <= run[r].calls
    /\ run[r].op = "http" => run[r].thread = "none"
    /\ run[r].thread = "write" => run[r].op \in {"create", "overwrite"}
    /\ run[r].op = "create" => run[r].before = Unsaid
    /\ run[r].op = "overwrite" /\ run[r].thread \in {"change", "write"} =>
          run[r].before # Unsaid
    /\ \A i \in 1..Len(observed[r]) : EffectOK(observed[r][i])

RunTypes ==
    /\ disk \in [Paths -> Contents \cup {Torn, Missing}]
    /\ run \in [Runs -> Run]
    /\ observed \in [Runs -> Seq(Effect)]
    /\ origin \in [Runs -> Arrivals]
    /\ links \in [Paths -> [created : Nat, unlinked : Nat]]

RunInv ==
    /\ RunTypes
    /\ CreationIsExclusive
    /\ \A r \in Runs : CallInv(r)

--------------------------------------------------------------------------------
(* Executions and effects as records.                                          *)

LEMMA RunFields ==
    ASSUME NEW x \in Run
    PROVE  /\ x.at \in {"guest", "call", "ok", "timeout"} /\ x.op \in Op /\ x.path \in Paths
           /\ x.new \in Contents /\ x.expected \in Contents \cup {Torn, Unsaid}
           /\ x.before \in Hash /\ x.thread \in {"none", "open", "write", "change"}
           /\ x.inode \in Nat /\ x.calls \in 0..MaxIoCalls
           /\ x.sends \in 0..EgressRetryMax /\ x.https \in 0..MaxIoCalls
           /\ x.claims \in {"none", "accepted"}
  BY DEF Run

LEMMA ArrivalFields ==
    ASSUME NEW o \in Arrivals
    PROVE  o.reached \in Nat /\ o.feigned \in Nat
  BY DEF Arrivals

\* One more call may be repeated EgressRetryMax times more.
LEMMA RepeatsGrow ==
    /\ Repeats(0) = 0
    /\ \A n \in Nat : Repeats(n) \in Nat /\ Repeats(n + 1) = Repeats(n) + EgressRetryMax
  <1>1. EgressRetryMax \in Nat
    BY RunAssumption
  <1> QED
    BY <1>1 DEF Repeats

\* A call that has ended may have been repeated EgressRetryMax times.
LEMMA RepeatsOfEnded ==
    ASSUME NEW n \in Nat, n > 0, NEW k \in 0..EgressRetryMax
    PROVE  Repeats(n - 1) + k <= Repeats(n) /\ Repeats(n) \in Nat
  <1>1. n - 1 \in Nat /\ (n - 1) + 1 = n /\ EgressRetryMax \in Nat
    BY RunAssumption
  <1>2. Repeats(n - 1) \in Nat /\ Repeats(n) \in Nat
        /\ Repeats((n - 1) + 1) = Repeats(n - 1) + EgressRetryMax
    BY <1>1, RepeatsGrow
  <1>3. Repeats(n) = Repeats(n - 1) + EgressRetryMax
    BY <1>1, <1>2
  <1> QED
    BY <1>1, <1>2, <1>3

LEMMA FreshIsRun ==
    /\ Fresh \in Run /\ Fresh.op = "read" /\ Fresh.thread = "none" /\ Fresh.before = Unsaid
    /\ Fresh.at = "guest" /\ Fresh.calls = 0 /\ Fresh.https = 0
  <1> DEFINE f == CHOOSE f \in Paths : TRUE
             c == CHOOSE c \in Contents : TRUE
  <1>1. f \in Paths /\ c \in Contents
    BY RunAssumption
  <1>2. Fresh = [at |-> "guest", op |-> "read", path |-> f, new |-> c, expected |-> Unsaid,
                 before |-> Unsaid, thread |-> "none", inode |-> 0, calls |-> 0, sends |-> 0,
                 https |-> 0, claims |-> "none"]
    BY DEF Fresh
  <1> HIDE DEF f, c
  <1>3. 0 \in 0..MaxIoCalls /\ 0 \in 0..EgressRetryMax
    BY RunAssumption
  <1> QED
    BY <1>1, <1>2, <1>3 DEF Run, Op, Hash

\* What is left of an execution when its call ends.
LEMMA EndedCall ==
    ASSUME run \in [Runs -> Run], NEW r \in Runs, NEW at \in {"guest", "ok", "timeout"},
           CallEnds(r, at)
    PROVE  /\ run' \in [Runs -> Run] /\ run'[r].at = at
           /\ run'[r].calls = run[r].calls /\ run'[r].https = run[r].https
           /\ run'[r].op = "read" /\ run'[r].thread = "none" /\ run'[r].before = Unsaid
           /\ \A z \in Runs : z # r => run'[z] = run[z]
  <1> DEFINE n == run[r].calls
             h == run[r].https
             x == [Fresh EXCEPT !.at = at, !.calls = n, !.https = h]
  <1>1. n \in 0..MaxIoCalls /\ h \in 0..MaxIoCalls
    BY RunFields
  <1>2. run' = [run EXCEPT ![r] = x]
    BY DEF CallEnds
  <1> HIDE DEF n, h
  <1>3. /\ x \in Run /\ x.at = at /\ x.calls = n /\ x.https = h
        /\ x.op = "read" /\ x.thread = "none" /\ x.before = Unsaid
    BY <1>1, FreshIsRun DEF Run
  <1> HIDE DEF x
  <1> QED
    BY <1>2, <1>3 DEF n, h

\* A step of one execution: the others are as they were.
LEMMA OneRun ==
    ASSUME RunInv, RunTypes', CreationIsExclusive', NEW r \in Runs,
           \A z \in Runs : z # r =>
              run'[z] = run[z] /\ observed'[z] = observed[z] /\ origin'[z] = origin[z],
           CallInv(r)'
    PROVE  RunInv'
  <1>1. ASSUME NEW z \in Runs, z # r PROVE CallInv(z)'
    <2>1. run'[z] = run[z] /\ observed'[z] = observed[z] /\ origin'[z] = origin[z] /\ CallInv(z)
      BY <1>1 DEF RunInv
    <2>2. InHand(z)' = InHand(z) /\ NotSent(z)' = NotSent(z) /\ Tries(z)' = Tries(z)
      BY <2>1 DEF InHand, NotSent, Tries
    <2>3. Repeats(run[z].https - NotSent(z))' = Repeats(run[z].https - NotSent(z))
      BY <2>1, <2>2 DEF Repeats
    <2> QED
      BY <2>1, <2>2, <2>3 DEF CallInv
  <1> QED
    BY <1>1 DEF RunInv

\* What was sent again stays within what the calls so far allow.
LEMMA WithinRepeats ==
    ASSUME RunInv, NEW r \in Runs
    PROVE  /\ origin[r].feigned <= Repeats(run[r].https)
           /\ Repeats(run[r].https) \in Nat
  <1>1. /\ run[r].https \in Nat /\ run[r].sends \in 0..EgressRetryMax
        /\ origin[r].feigned \in Nat /\ EgressRetryMax \in Nat
    BY RunFields, ArrivalFields, RunAssumption DEF RunInv, RunTypes
  <1>2. /\ origin[r].feigned <= Repeats(run[r].https - NotSent(r)) + Tries(r)
        /\ NotSent(r) <= run[r].https
    BY DEF RunInv, CallInv
  <1>3. Repeats(run[r].https) \in Nat
    BY <1>1, RepeatsGrow
  <1>4. CASE NotSent(r) = 0
    <2>1. Tries(r) = 0 /\ run[r].https - NotSent(r) = run[r].https
      BY <1>1, <1>4 DEF NotSent, Tries
    <2>2. Repeats(run[r].https - NotSent(r)) = Repeats(run[r].https)
      BY <2>1
    <2> QED
      BY <1>1, <1>2, <1>3, <2>1, <2>2
  <1>5. CASE NotSent(r) # 0
    <2>1. NotSent(r) = 1 /\ Tries(r) = run[r].sends
      BY <1>5 DEF NotSent, Tries
    <2>2. run[r].https > 0 /\ run[r].https - 1 \in Nat
      BY <1>1, <1>2, <2>1
    <2>3. Repeats(run[r].https - 1) + run[r].sends <= Repeats(run[r].https)
      BY <1>1, <2>2, RepeatsOfEnded
    <2>4. Repeats(run[r].https - 1) \in Nat
      BY <2>2, RepeatsGrow
    <2>5. origin[r].feigned <= Repeats(run[r].https - 1) + run[r].sends
      BY <1>2, <2>1
    <2> QED
      BY <1>1, <1>3, <2>3, <2>4, <2>5
  <1> QED
    BY <1>3, <1>4, <1>5

\* A call ends: with nothing recorded, or with an effect if the execution waited.
LEMMA CallOver ==
    ASSUME RunInv, NEW r \in Runs, NEW at \in {"guest", "ok", "timeout"}, CallEnds(r, at),
           disk' \in [Paths -> Contents \cup {Torn, Missing}],
           links' \in [Paths -> [created : Nat, unlinked : Nat]],
           CreationIsExclusive',
           \/ observed' = observed
           \/ run[r].at = "call" /\ \E e \in Effect :
                 EffectOK(e) /\ observed' = [observed EXCEPT ![r] = Append(observed[r], e)],
           origin' \in [Runs -> Arrivals], \A z \in Runs : z # r => origin'[z] = origin[z],
           origin'[r].reached <= origin[r].reached + NotSent(r),
           origin'[r].feigned = origin[r].feigned
    PROVE  RunInv'
  <1>1. RunTypes /\ CallInv(r) /\ run \in [Runs -> Run] /\ observed[r] \in Seq(Effect)
        /\ run[r].calls \in Nat /\ run[r].https \in Nat /\ run[r].sends \in 0..EgressRetryMax
        /\ origin[r].reached \in Nat /\ origin'[r].reached \in Nat /\ origin[r].feigned \in Nat
    BY RunFields, ArrivalFields DEF RunInv, RunTypes
  <1>2. /\ run' \in [Runs -> Run] /\ run'[r].at = at
        /\ run'[r].calls = run[r].calls /\ run'[r].https = run[r].https
        /\ run'[r].op = "read" /\ run'[r].thread = "none" /\ run'[r].before = Unsaid
        /\ \A z \in Runs : z # r => run'[z] = run[z]
    BY <1>1, EndedCall
  <1>3. /\ observed' \in [Runs -> Seq(Effect)]
        /\ \A z \in Runs : z # r => observed'[z] = observed[z]
        /\ Len(observed'[r]) <= Len(observed[r]) + InHand(r)
        /\ Len(observed'[r]) \in Nat /\ Len(observed[r]) \in Nat
        /\ \A i \in 1..Len(observed'[r]) : EffectOK(observed'[r][i])
    <2>1. CASE observed' = observed
      <3>1. InHand(r) \in Nat /\ Len(observed[r]) \in Nat
        BY <1>1 DEF InHand
      <3>2. \A i \in 1..Len(observed[r]) : EffectOK(observed[r][i])
        BY <1>1 DEF CallInv
      <3> QED
        BY <1>1, <2>1, <3>1, <3>2 DEF RunTypes
    <2>2. CASE run[r].at = "call" /\ \E e \in Effect :
                 EffectOK(e) /\ observed' = [observed EXCEPT ![r] = Append(observed[r], e)]
      <3>1. PICK e \in Effect :
                 EffectOK(e) /\ observed' = [observed EXCEPT ![r] = Append(observed[r], e)]
        BY <2>2
      <3>2. observed'[r] = Append(observed[r], e) /\ \A z \in Runs : z # r => observed'[z] = observed[z]
        BY <1>1, <3>1 DEF RunTypes
      <3>3. Append(observed[r], e) \in Seq(Effect)
            /\ Len(Append(observed[r], e)) = Len(observed[r]) + 1 /\ Len(observed[r]) \in Nat
        BY <1>1
      <3>4. ASSUME NEW i \in 1..Len(observed'[r]) PROVE EffectOK(observed'[r][i])
        <4>1. CASE i = Len(observed[r]) + 1
          <5>1. observed'[r][i] = e
            BY <1>1, <3>2, <3>3, <4>1
          <5> QED
            BY <3>1, <5>1
        <4>2. CASE i # Len(observed[r]) + 1
          <5>1. i \in 1..Len(observed[r])
            BY <3>2, <3>3, <4>2
          <5>2. observed'[r][i] = observed[r][i]
            BY <1>1, <3>2, <5>1
          <5> QED
            BY <1>1, <5>1, <5>2 DEF CallInv
        <4> QED
          BY <4>1, <4>2
      <3>5. InHand(r) = 1
        BY <2>2 DEF InHand
      <3>6. observed' \in [Runs -> Seq(Effect)]
        BY <1>1, <3>1, <3>3 DEF RunTypes
      <3> QED
        BY <3>2, <3>3, <3>4, <3>5, <3>6
    <2> QED
      BY <2>1, <2>2
  <1>4. RunTypes'
    BY <1>2, <1>3 DEF RunTypes
  <1>5. InHand(r)' = 0 /\ NotSent(r)' = 0 /\ Tries(r)' = 0
        /\ InHand(r) \in Nat /\ NotSent(r) \in Nat
    BY <1>2 DEF InHand, NotSent, Tries
  <1>6. origin'[r].feigned <= Repeats(run[r].https)
    BY WithinRepeats
  <1>7. Repeats(run[r].https - NotSent(r))' = Repeats(run[r].https)
        /\ Repeats(run[r].https) \in Nat
    <2>1. run'[r].https - NotSent(r)' = run[r].https
      BY <1>1, <1>2, <1>5
    <2> QED
      BY <1>1, <2>1, RepeatsGrow DEF Repeats
  <1>8. CallInv(r)'
    <2>1. /\ origin'[r].reached + NotSent(r)' <= run'[r].https + origin'[r].feigned
          /\ NotSent(r)' <= run'[r].https /\ run'[r].https <= run'[r].calls
      BY <1>1, <1>2, <1>5 DEF CallInv
    <2>2. origin'[r].feigned <= Repeats(run[r].https - NotSent(r))' + Tries(r)'
      BY <1>5, <1>6, <1>7
    <2> QED
      BY <1>1, <1>2, <1>3, <1>5, <2>1, <2>2 DEF CallInv
  <1> QED
    BY <1>2, <1>3, <1>4, <1>8, OneRun

\* A file operation goes on: x is the execution with another step of its thread.
LEMMA ThreadGoesOn ==
    ASSUME RunInv, NEW r \in Runs, NEW x \in Run, run' = [run EXCEPT ![r] = x],
           x.at = run[r].at \/ (x.at # "call"), x.op = run[r].op, x.calls = run[r].calls,
           x.https = run[r].https, x.op # "http",
           x.thread = "write" => x.op \in {"create", "overwrite"},
           x.op = "create" => x.before = Unsaid,
           x.op = "overwrite" /\ x.thread \in {"change", "write"} => x.before # Unsaid,
           UNCHANGED <<observed, origin>>,
           disk' \in [Paths -> Contents \cup {Torn, Missing}],
           links' \in [Paths -> [created : Nat, unlinked : Nat]],
           CreationIsExclusive'
    PROVE  RunInv'
  <1>1. RunTypes /\ CallInv(r)
    BY DEF RunInv
  <1>2. run'[r] = x /\ run' \in [Runs -> Run] /\ \A z \in Runs : z # r => run'[z] = run[z]
    BY <1>1 DEF RunTypes
  <1>3. RunTypes'
    BY <1>1, <1>2 DEF RunTypes
  <1>4. NotSent(r)' = 0 /\ NotSent(r) = 0 /\ InHand(r)' <= InHand(r)
        /\ InHand(r) \in Nat /\ InHand(r)' \in Nat /\ Tries(r)' = 0 /\ Tries(r) = 0
    BY <1>2 DEF NotSent, InHand, Tries
  <1>5. Len(observed[r]) \in Nat /\ run[r].calls \in Nat
    BY <1>1, RunFields DEF RunTypes
  <1>6. Repeats(run[r].https - NotSent(r))' = Repeats(run[r].https - NotSent(r))
    BY <1>2, <1>4 DEF Repeats
  <1>7. CallInv(r)'
    BY <1>1, <1>2, <1>4, <1>5, <1>6 DEF CallInv
  <1> QED
    BY <1>2, <1>3, <1>7, OneRun

--------------------------------------------------------------------------------
(* Calls, requests and the end of an execution.                                *)

LEMMA HostCallKeeps ==
    ASSUME RunInv, NEW r \in Runs, NEW op \in Op, NEW f \in Paths, NEW c \in Contents,
           NEW e \in Contents \cup {Unsaid}, HostCall(r, op, f, c, e)
    PROVE  RunInv'
  <1> DEFINE n == run[r].calls + 1
             h == IF op = "http" THEN run[r].https + 1 ELSE run[r].https
             t == IF op = "http" THEN "none" ELSE "open"
  <1>1. RunTypes /\ CallInv(r) /\ run[r] \in Run /\ run[r].at = "guest"
        /\ run[r].calls < MaxIoCalls /\ CreationIsExclusive
    BY DEF RunInv, RunTypes, HostCall
  <1>2. run[r].calls \in Nat /\ run[r].https \in Nat /\ run[r].inode \in Nat
        /\ run[r].claims \in {"none", "accepted"} /\ MaxIoCalls \in Nat
        /\ origin[r].reached \in Nat /\ origin[r].feigned \in Nat /\ Len(observed[r]) \in Nat
    BY <1>1, RunFields, ArrivalFields, RunAssumption DEF RunTypes
  <1>3. UNCHANGED <<disk, observed, origin, links>>
    BY DEF HostCall
  <1>4. run' = [run EXCEPT ![r].calls = n,
                 ![r].at = "call", ![r].op = op, ![r].path = f, ![r].new = c,
                 ![r].expected = e, ![r].before = Unsaid, ![r].sends = 0,
                 ![r].https = h, ![r].thread = t]
    BY DEF HostCall
  <1>5. n \in 0..MaxIoCalls /\ h \in 0..MaxIoCalls /\ h <= n /\ t \in {"none", "open"}
        /\ (op = "http" => t = "none" /\ h = run[r].https + 1)
        /\ (op # "http" => h = run[r].https) /\ n = run[r].calls + 1
    BY <1>1, <1>2 DEF CallInv
  <1> HIDE DEF n, h, t
  <1>6. /\ run'[r] = [at |-> "call", op |-> op, path |-> f, new |-> c, expected |-> e,
                      before |-> Unsaid, thread |-> t, inode |-> run[r].inode, calls |-> n,
                      sends |-> 0, https |-> h, claims |-> run[r].claims]
        /\ \A z \in Runs : z # r => run'[z] = run[z]
    <2>1. run[r] = [at |-> run[r].at, op |-> run[r].op, path |-> run[r].path,
                    new |-> run[r].new, expected |-> run[r].expected,
                    before |-> run[r].before, thread |-> run[r].thread,
                    inode |-> run[r].inode, calls |-> run[r].calls,
                    sends |-> run[r].sends, https |-> run[r].https, claims |-> run[r].claims]
      BY <1>1 DEF Run
    <2>2. run'[r] = [run[r] EXCEPT !.calls = n, !.at = "call", !.op = op, !.path = f,
                        !.new = c, !.expected = e, !.before = Unsaid, !.sends = 0,
                        !.https = h, !.thread = t]
          /\ \A z \in Runs : z # r => run'[z] = run[z]
      BY <1>1, <1>4 DEF RunTypes
    <2> QED
      BY <2>1, <2>2
  <1>7. 0 \in 0..EgressRetryMax
    BY RunAssumption
  <1>8. run'[r] \in Run
    BY <1>2, <1>5, <1>6, <1>7 DEF Run, Hash
  <1>9. RunTypes'
    <2>1. run' \in [Runs -> Run]
      BY <1>1, <1>4, <1>8 DEF RunTypes
    <2> QED
      BY <1>1, <1>3, <2>1 DEF RunTypes
  <1>10. /\ InHand(r) = 0 /\ NotSent(r) = 0 /\ InHand(r)' = 1
         /\ NotSent(r)' = (IF op = "http" THEN 1 ELSE 0) /\ Tries(r) = 0 /\ Tries(r)' = 0
    BY <1>1, <1>6 DEF InHand, NotSent, Tries
  <1>11. CallInv(r)'
    <2>1. Len(observed'[r]) + InHand(r)' <= run'[r].calls
      BY <1>1, <1>2, <1>3, <1>5, <1>6, <1>10 DEF CallInv
    <2>2. /\ origin'[r].reached + NotSent(r)' <= run'[r].https + origin'[r].feigned
          /\ NotSent(r)' <= run'[r].https /\ run'[r].https <= run'[r].calls
      BY <1>1, <1>2, <1>3, <1>5, <1>6, <1>10 DEF CallInv
    <2>5. origin'[r].feigned <= Repeats(run[r].https - NotSent(r))' + Tries(r)'
      <3>1. run'[r].https - NotSent(r)' = run[r].https - NotSent(r)
        BY <1>2, <1>5, <1>6, <1>10
      <3>2. Repeats(run[r].https - NotSent(r))' = Repeats(run[r].https - NotSent(r))
        BY <3>1 DEF Repeats
      <3> QED
        BY <1>1, <1>3, <1>10, <3>2 DEF CallInv
    <2>3. /\ run'[r].op = "http" => run'[r].thread = "none"
          /\ run'[r].thread \notin {"write", "change"} /\ run'[r].before = Unsaid
      BY <1>5, <1>6
    <2>4. \A i \in 1..Len(observed'[r]) : EffectOK(observed'[r][i])
      BY <1>1, <1>3 DEF CallInv
    <2> QED
      BY <2>1, <2>2, <2>3, <2>4, <2>5 DEF CallInv
  <1>12. CreationIsExclusive'
    BY <1>1, <1>3 DEF CreationIsExclusive
  <1> QED
    BY <1>3, <1>6, <1>9, <1>11, <1>12, OneRun

\* A call that ends without a trace in the world.
LEMMA NothingDone ==
    ASSUME RunInv, NEW r \in Runs, NEW at \in {"guest", "ok", "timeout"}, CallEnds(r, at),
           UNCHANGED <<disk, observed, origin, links>>
    PROVE  RunInv'
  <1>1. RunTypes /\ CreationIsExclusive /\ origin[r].reached \in Nat
    BY ArrivalFields DEF RunInv, RunTypes
  <1>2. CreationIsExclusive' /\ NotSent(r) \in Nat
    BY <1>1 DEF CreationIsExclusive, NotSent
  <1>3. /\ disk' \in [Paths -> Contents \cup {Torn, Missing}]
        /\ links' \in [Paths -> [created : Nat, unlinked : Nat]]
        /\ origin' \in [Runs -> Arrivals] /\ \A z \in Runs : z # r => origin'[z] = origin[z]
        /\ observed' = observed
    BY <1>1 DEF RunTypes
  <1>4. origin'[r].reached <= origin[r].reached + NotSent(r)
        /\ origin'[r].feigned = origin[r].feigned
    BY <1>1, <1>2
  <1> QED
    BY <1>2, <1>3, <1>4, CallOver

LEMMA BackIsOver ==
    ASSUME RunTypes, NEW r \in Runs
    PROVE  Back(r) \in {"guest", "ok", "timeout"}
  BY RunFields DEF Back, RunTypes

LEMMA SendKeeps ==
    ASSUME RunInv, NEW r \in Runs,
           NEW reply \in {"answer", "error", "denied", "connect", "lost"},
           NEW marked \in BOOLEAN, Send(r, reply, marked)
    PROVE  RunInv'
  <1> DEFINE again == Retryable(reply, marked) /\ run[r].sends < EgressRetryMax
             o == origin[r].reached + 1
             g == IF marked /\ again THEN origin[r].feigned + 1 ELSE origin[r].feigned
  <1>1. RunTypes /\ CallInv(r) /\ run[r] \in Run /\ run[r].at = "call" /\ run[r].op = "http"
        /\ CreationIsExclusive
    BY DEF RunInv, RunTypes, Send
  <1>2. /\ origin' = IF Reached(reply)
                     THEN [origin EXCEPT ![r].reached = o, ![r].feigned = g] ELSE origin
        /\ UNCHANGED <<disk, links>>
    BY DEF Send
  <1>3. /\ origin[r] \in Arrivals /\ origin[r].reached \in Nat /\ origin[r].feigned \in Nat
        /\ o \in Nat /\ g \in Nat /\ o = origin[r].reached + 1
        /\ g = (IF marked /\ again THEN origin[r].feigned + 1 ELSE origin[r].feigned)
    BY <1>1, ArrivalFields DEF RunTypes
  <1> HIDE DEF o, g
  <1>4. /\ origin' \in [Runs -> Arrivals] /\ \A z \in Runs : z # r => origin'[z] = origin[z]
        /\ Reached(reply) => origin'[r].reached = o /\ origin'[r].feigned = g
        /\ ~Reached(reply) => origin'[r] = origin[r]
    <2>1. CASE Reached(reply)
      <3>1. origin'[r] = [origin[r] EXCEPT !.reached = o, !.feigned = g]
            /\ \A z \in Runs : z # r => origin'[z] = origin[z]
        BY <1>1, <1>2, <2>1 DEF RunTypes
      <3>2. origin'[r] = [reached |-> o, feigned |-> g]
        BY <1>3, <3>1 DEF Arrivals
      <3>3. origin'[r] \in Arrivals /\ origin'[r].reached = o /\ origin'[r].feigned = g
        BY <1>3, <3>2 DEF Arrivals
      <3> QED
        BY <1>1, <1>2, <2>1, <3>1, <3>3 DEF RunTypes
    <2>2. CASE ~Reached(reply)
      BY <1>1, <1>2, <2>2 DEF RunTypes
    <2> QED
      BY <2>1, <2>2
  <1>5. CreationIsExclusive'
    BY <1>1, <1>2 DEF CreationIsExclusive
  <1>6. NotSent(r) = 1 /\ Tries(r) = run[r].sends /\ run[r].sends \in 0..EgressRetryMax
        /\ run[r].https \in Nat /\ EgressRetryMax \in Nat
    BY <1>1, RunFields, RunAssumption DEF NotSent, Tries
  <1>7. CASE again
    <2> DEFINE n == run[r].sends + 1
    <2>1. run' = [run EXCEPT ![r].sends = n] /\ observed' = observed
      BY <1>7 DEF Send
    <2>2. n \in 0..EgressRetryMax /\ n = run[r].sends + 1
      BY <1>6, <1>7
    <2> HIDE DEF n
    <2>3. run'[r] = [run[r] EXCEPT !.sends = n] /\ \A z \in Runs : z # r => run'[z] = run[z]
      BY <1>1, <2>1 DEF RunTypes
    <2>4. /\ run'[r] \in Run /\ run'[r].at = run[r].at /\ run'[r].op = run[r].op
          /\ run'[r].calls = run[r].calls /\ run'[r].https = run[r].https
          /\ run'[r].thread = run[r].thread /\ run'[r].before = run[r].before
          /\ run'[r].sends = n
      BY <1>1, <2>2, <2>3 DEF Run
    <2>5. RunTypes'
      BY <1>1, <1>2, <1>4, <2>1, <2>4 DEF RunTypes
    <2>6. InHand(r)' = InHand(r) /\ NotSent(r)' = 1 /\ Tries(r)' = n
      BY <1>1, <2>4 DEF InHand, NotSent, Tries
    <2>7. Repeats(run[r].https - NotSent(r))' = Repeats(run[r].https - NotSent(r))
      BY <1>6, <2>4, <2>6 DEF Repeats
    <2>8. run[r].https - NotSent(r) \in Nat
      BY <1>1, <1>6 DEF CallInv
    <2>9. Repeats(run[r].https - NotSent(r)) \in Nat
      BY <2>8, RepeatsGrow
    <2>10. /\ origin'[r].reached + NotSent(r)' <= run'[r].https + origin'[r].feigned
           /\ origin'[r].feigned <= Repeats(run[r].https - NotSent(r))' + Tries(r)'
      <3> DEFINE R == Repeats(run[r].https - NotSent(r))
      <3>1. /\ origin[r].reached + NotSent(r) <= run[r].https + origin[r].feigned
            /\ origin[r].feigned <= R + Tries(r)
        BY <1>1 DEF CallInv
      <3>2. R \in Nat /\ Repeats(run[r].https - NotSent(r))' = R
        BY <2>7, <2>9
      <3> HIDE DEF R
      <3>3. CASE Reached(reply)
        <4>0. marked
          BY <1>7, <3>3 DEF Retryable, Reached
        <4>1. /\ origin'[r].reached = origin[r].reached + 1
              /\ origin'[r].feigned = origin[r].feigned + 1
          BY <1>3, <1>4, <1>7, <3>3, <4>0
        <4> QED
          BY <1>3, <1>6, <2>2, <2>4, <2>6, <3>1, <3>2, <4>1
      <3>4. CASE ~Reached(reply)
        <4>1. origin'[r] = origin[r]
          BY <1>4, <3>4
        <4> QED
          BY <1>3, <1>6, <2>2, <2>4, <2>6, <3>1, <3>2, <4>1
      <3> QED
        BY <3>3, <3>4
    <2>11. CallInv(r)'
      BY <1>1, <1>6, <2>1, <2>4, <2>6, <2>10 DEF CallInv
    <2> QED
      BY <1>4, <1>5, <2>1, <2>3, <2>5, <2>11, OneRun
  <1>8. CASE ~again
    <2>1. /\ CallEnds(r, "guest")
          /\ observed' = IF reply \in {"answer", "error", "denied"}
                         THEN Recorded(r, Unsaid, Unsaid,
                                       IF reply = "answer" THEN "accepted" ELSE "other")
                         ELSE observed
      BY <1>8 DEF Send
    <2> DEFINE s == IF reply = "answer" THEN "accepted" ELSE "other"
               e == [op |-> run[r].op, path |-> run[r].path, before |-> Unsaid,
                     after |-> Unsaid, status |-> s]
    <2>2. s \in {"none", "accepted", "other"}
      OBVIOUS
    <2>3. e \in Effect /\ EffectOK(e)
      BY <1>1, <2>2, RunFields DEF Effect, Hash, EffectOK
    <2>4. observed' = observed \/ observed' = [observed EXCEPT ![r] = Append(observed[r], e)]
      BY <1>1, <2>1 DEF Recorded
    <2> HIDE DEF e
    <2>5. origin'[r].reached <= origin[r].reached + NotSent(r)
          /\ origin'[r].feigned = origin[r].feigned
      <3>1. CASE Reached(reply)
        BY <1>3, <1>4, <1>6, <1>8, <3>1
      <3>2. CASE ~Reached(reply)
        BY <1>3, <1>4, <1>6, <3>2
      <3> QED
        BY <3>1, <3>2
    <2>6. disk' \in [Paths -> Contents \cup {Torn, Missing}]
          /\ links' \in [Paths -> [created : Nat, unlinked : Nat]]
      BY <1>1, <1>2 DEF RunTypes
    <2> QED
      BY <1>1, <1>4, <1>5, <2>1, <2>3, <2>4, <2>5, <2>6, CallOver
  <1> QED
    BY <1>7, <1>8

LEMMA ReturnKeeps ==
    ASSUME RunInv, NEW r \in Runs, NEW claims \in {"none", "accepted"}, Return(r, claims)
    PROVE  RunInv'
  <1>1. RunTypes /\ CallInv(r) /\ run[r] \in Run /\ run[r].at = "guest" /\ CreationIsExclusive
    BY DEF RunInv, RunTypes, Return
  <1>2. /\ run' = [run EXCEPT ![r].at = "ok", ![r].claims = claims]
        /\ UNCHANGED <<disk, observed, origin, links>>
    BY DEF Return
  <1>3. run'[r] = [run[r] EXCEPT !.at = "ok", !.claims = claims]
        /\ \A z \in Runs : z # r => run'[z] = run[z]
    BY <1>1, <1>2 DEF RunTypes
  <1>4. /\ run'[r] \in Run /\ run'[r].at = "ok" /\ run'[r].op = run[r].op
        /\ run'[r].calls = run[r].calls /\ run'[r].https = run[r].https
        /\ run'[r].thread = run[r].thread /\ run'[r].before = run[r].before
    BY <1>1, <1>3 DEF Run
  <1>5. RunTypes'
    BY <1>1, <1>2, <1>4 DEF RunTypes
  <1>6. InHand(r)' = 0 /\ NotSent(r)' = 0 /\ InHand(r) = 0 /\ NotSent(r) = 0
        /\ Tries(r) = 0 /\ Tries(r)' = 0
    BY <1>1, <1>4 DEF InHand, NotSent, Tries
  <1>9. Repeats(run[r].https - NotSent(r))' = Repeats(run[r].https - NotSent(r))
    BY <1>4, <1>6 DEF Repeats
  <1>7. CallInv(r)'
    BY <1>1, <1>2, <1>4, <1>6, <1>9 DEF CallInv
  <1>8. CreationIsExclusive'
    BY <1>1, <1>2 DEF CreationIsExclusive
  <1> QED
    BY <1>2, <1>3, <1>5, <1>7, <1>8, OneRun

LEMMA TimeoutKeeps ==
    ASSUME RunInv, NEW r \in Runs, Timeout(r)
    PROVE  RunInv'
  <1>1. RunTypes /\ CallInv(r) /\ run[r] \in Run /\ CreationIsExclusive
        /\ UNCHANGED <<disk, observed, origin, links>>
    BY DEF RunInv, RunTypes, Timeout
  <1>2. CASE run[r].thread = "none"
    <2>1. CallEnds(r, "timeout")
      BY <1>2 DEF Timeout
    <2> QED
      BY <1>1, <2>1, NothingDone
  <1>3. CASE run[r].thread # "none"
    <2> DEFINE x == [run[r] EXCEPT !.at = "timeout"]
    <2>1. run' = [run EXCEPT ![r] = x]
      BY <1>1, <1>3 DEF Timeout, RunTypes
    <2>2. /\ x \in Run /\ x.at = "timeout" /\ x.op = run[r].op /\ x.calls = run[r].calls
          /\ x.https = run[r].https /\ x.thread = run[r].thread /\ x.before = run[r].before
      BY <1>1 DEF Run
    <2> HIDE DEF x
    <2>3. CreationIsExclusive' /\ x.op # "http"
      BY <1>1, <1>3, <2>2 DEF CreationIsExclusive, CallInv
    <2> QED
      BY <1>1, <2>1, <2>2, <2>3, ThreadGoesOn DEF CallInv, RunTypes
  <1> QED
    BY <1>2, <1>3

LEMMA RefusedKeeps ==
    ASSUME RunInv, NEW r \in Runs, Refused(r)
    PROVE  RunInv'
  BY BackIsOver, NothingDone DEF RunInv, Refused, Fails

--------------------------------------------------------------------------------
(* File operations.                                                            *)

\* A file operation ends well: its effect is recorded if somebody waits for it.
LEMMA SucceededKeeps ==
    ASSUME RunInv, NEW r \in Runs, NEW before \in Hash, NEW after \in Hash,
           EffectOK([op |-> run[r].op, path |-> run[r].path, before |-> before,
                     after |-> after, status |-> "none"]),
           Succeeds(r, before, after), origin' = origin,
           disk' \in [Paths -> Contents \cup {Torn, Missing}],
           links' \in [Paths -> [created : Nat, unlinked : Nat]],
           CreationIsExclusive'
    PROVE  RunInv'
  <1> DEFINE e == [op |-> run[r].op, path |-> run[r].path, before |-> before,
                   after |-> after, status |-> "none"]
  <1>1. RunTypes /\ run[r] \in Run /\ origin[r].reached \in Nat /\ NotSent(r) \in Nat
    BY ArrivalFields DEF RunInv, RunTypes, NotSent
  <1>2. e \in Effect /\ EffectOK(e)
    BY <1>1, RunFields DEF Effect
  <1>3. \/ observed' = observed
        \/ run[r].at = "call" /\ observed' = [observed EXCEPT ![r] = Append(observed[r], e)]
    BY DEF Succeeds, Recorded
  <1> HIDE DEF e
  <1>4. CallEnds(r, Back(r)) /\ Back(r) \in {"guest", "ok", "timeout"}
    BY <1>1, BackIsOver DEF Succeeds, Fails
  <1>5. /\ origin' \in [Runs -> Arrivals] /\ \A z \in Runs : z # r => origin'[z] = origin[z]
        /\ origin'[r].reached <= origin[r].reached + NotSent(r)
        /\ origin'[r].feigned = origin[r].feigned
    BY <1>1 DEF RunTypes
  <1>6. \/ observed' = observed
        \/ run[r].at = "call" /\ \E d \in Effect :
              EffectOK(d) /\ observed' = [observed EXCEPT ![r] = Append(observed[r], d)]
    BY <1>2, <1>3
  <1> QED
    BY <1>4, <1>5, <1>6, CallOver

\* One that fails leaves nothing behind.
LEMMA FailedKeeps ==
    ASSUME RunInv, NEW r \in Runs, Fails(r), UNCHANGED <<disk, observed, origin, links>>
    PROVE  RunInv'
  BY BackIsOver, NothingDone DEF RunInv, Fails

LEMMA ReadFileKeeps ==
    ASSUME RunInv, NEW r \in Runs, ReadFile(r)
    PROVE  RunInv'
  <1> DEFINE c == disk[run[r].path]
  <1>1. RunTypes /\ run[r] \in Run /\ run[r].op = "read" /\ CreationIsExclusive
        /\ UNCHANGED <<disk, origin, links>>
    BY DEF RunInv, RunTypes, ReadFile
  <1>2. CASE c = Missing
    <2>1. Fails(r) /\ observed' = observed
      BY <1>2 DEF ReadFile
    <2> QED
      BY <1>1, <2>1, FailedKeeps
  <1>3. CASE c # Missing
    <2>1. Succeeds(r, Unsaid, c)
      BY <1>3 DEF ReadFile
    <2>2. c \in Hash /\ c # Unsaid /\ Unsaid \in Hash
      BY <1>1, <1>3, RunFields, RunAssumption DEF RunTypes, Hash
    <2> HIDE DEF c
    <2>3. EffectOK([op |-> run[r].op, path |-> run[r].path, before |-> Unsaid,
                    after |-> c, status |-> "none"])
      BY <1>1, <2>2 DEF EffectOK, Sound
    <2>4. /\ disk' \in [Paths -> Contents \cup {Torn, Missing}] /\ CreationIsExclusive'
          /\ links' \in [Paths -> [created : Nat, unlinked : Nat]] /\ origin' = origin
      BY <1>1 DEF RunTypes, CreationIsExclusive
    <2> QED
      BY <2>1, <2>2, <2>3, <2>4, SucceededKeeps
  <1> QED
    BY <1>2, <1>3

LEMMA CreateFileKeeps ==
    ASSUME RunInv, NEW r \in Runs, CreateFile(r)
    PROVE  RunInv'
  <1> DEFINE f == run[r].path
             n == links[f].created + 1
             x == [run[r] EXCEPT !.thread = "write", !.inode = n]
  <1>1. RunTypes /\ CallInv(r) /\ run[r] \in Run /\ run[r].op = "create"
        /\ CreationIsExclusive /\ UNCHANGED <<observed, origin>> /\ f \in Paths
    BY RunFields DEF RunInv, RunTypes, CreateFile
  <1>2. CASE MayCreate(f)
    <2>1. /\ disk' = [disk EXCEPT ![f] = Torn]
          /\ links' = [links EXCEPT ![f].created = n]
          /\ run' = [run EXCEPT ![r].thread = "write", ![r].inode = links'[f].created]
      BY <1>2 DEF CreateFile
    <2>2. /\ n \in Nat /\ links[f].created \in Nat /\ links[f].unlinked \in Nat
          /\ n = links[f].created + 1
      BY <1>1 DEF RunTypes
    <2>3. links[f].created - links[f].unlinked = 0
      BY <1>1, <1>2 DEF CreationIsExclusive, MayCreate
    <2> HIDE DEF f, n
    <2>4. /\ links'[f] = [links[f] EXCEPT !.created = n]
          /\ \A g \in Paths : g # f => links'[g] = links[g]
      BY <1>1, <2>1 DEF RunTypes
    <2>5. /\ links'[f] \in [created : Nat, unlinked : Nat] /\ links'[f].created = n
          /\ links'[f].unlinked = links[f].unlinked
      <3> DEFINE l == links[f]
                 o == l.unlinked
      <3>1. l \in [created : Nat, unlinked : Nat]
        BY <1>1 DEF RunTypes
      <3>2. o \in Nat /\ l = [created |-> l.created, unlinked |-> l.unlinked]
        BY <3>1
      <3>3. links'[f] = [l EXCEPT !.created = n]
        BY <2>4
      <3> HIDE DEF l
      <3>4. links'[f] = [created |-> n, unlinked |-> o]
        BY <3>2, <3>3
      <3> HIDE DEF o
      <3>5. /\ links'[f] \in [created : Nat, unlinked : Nat] /\ links'[f].created = n
            /\ links'[f].unlinked = o
        BY <2>2, <3>2, <3>4
      <3> QED
        BY <3>5 DEF l, o
    <2>6. /\ disk' \in [Paths -> Contents \cup {Torn, Missing}]
          /\ links' \in [Paths -> [created : Nat, unlinked : Nat]]
      BY <1>1, <2>1, <2>5 DEF RunTypes
    <2>7. CreationIsExclusive'
      <3> SUFFICES ASSUME NEW g \in Paths
                   PROVE  links'[g].created - links'[g].unlinked = IF disk'[g] = Missing THEN 0 ELSE 1
        BY DEF CreationIsExclusive
      <3>1. CASE g = f
        <4>1. disk'[g] # Missing
          BY <1>1, <2>1, <3>1, RunAssumption DEF RunTypes
        <4> QED
          BY <2>2, <2>3, <2>5, <3>1, <4>1
      <3>2. CASE g # f
        BY <1>1, <2>1, <2>4, <3>2 DEF RunTypes, CreationIsExclusive
      <3> QED
        BY <3>1, <3>2
    <2>8. run' = [run EXCEPT ![r] = x]
      BY <1>1, <2>1, <2>5 DEF RunTypes
    <2>9. /\ x \in Run /\ x.at = run[r].at /\ x.op = "create" /\ x.calls = run[r].calls
          /\ x.https = run[r].https /\ x.thread = "write" /\ x.before = run[r].before
      BY <1>1, <2>2 DEF Run
    <2> HIDE DEF x
    <2>10. x.before = Unsaid
      BY <1>1, <2>9 DEF CallInv
    <2> QED
      BY <1>1, <2>6, <2>7, <2>8, <2>9, <2>10, ThreadGoesOn
  <1>3. CASE ~MayCreate(f)
    <2>1. Fails(r) /\ UNCHANGED <<disk, links>>
      BY <1>3 DEF CreateFile
    <2> QED
      BY <1>1, <2>1, FailedKeeps
  <1> QED
    BY <1>2, <1>3

LEMMA HashFileKeeps ==
    ASSUME RunInv, NEW r \in Runs, HashFile(r)
    PROVE  RunInv'
  <1> DEFINE c == disk[run[r].path]
             n == links[run[r].path].created
             x == [run[r] EXCEPT !.thread = "change", !.before = c, !.inode = n]
  <1>1. RunTypes /\ CallInv(r) /\ run[r] \in Run /\ run[r].op = "overwrite"
        /\ CreationIsExclusive /\ UNCHANGED <<disk, observed, origin, links>>
        /\ run[r].path \in Paths
    BY RunFields DEF RunInv, RunTypes, HashFile
  <1>2. CASE c = Missing \/ (run[r].expected # Unsaid /\ run[r].expected # c)
    <2>1. Fails(r)
      BY <1>2 DEF HashFile
    <2> QED
      BY <1>1, <2>1, FailedKeeps
  <1>3. CASE ~(c = Missing \/ (run[r].expected # Unsaid /\ run[r].expected # c))
    <2>1. run' = [run EXCEPT ![r].thread = "change", ![r].before = c, ![r].inode = n]
      BY <1>3 DEF HashFile
    <2>2. c \in Hash /\ c # Unsaid /\ n \in Nat
      BY <1>1, <1>3, RunAssumption DEF RunTypes, Hash
    <2> HIDE DEF c, n
    <2>3. run' = [run EXCEPT ![r] = x]
      BY <1>1, <2>1 DEF RunTypes
    <2>4. /\ x \in Run /\ x.at = run[r].at /\ x.op = "overwrite" /\ x.calls = run[r].calls
          /\ x.https = run[r].https /\ x.thread = "change" /\ x.before = c
      BY <1>1, <2>2 DEF Run
    <2> HIDE DEF x
    <2>5. /\ disk' \in [Paths -> Contents \cup {Torn, Missing}] /\ CreationIsExclusive'
          /\ links' \in [Paths -> [created : Nat, unlinked : Nat]]
      BY <1>1 DEF RunTypes, CreationIsExclusive
    <2> QED
      BY <1>1, <2>2, <2>3, <2>4, <2>5, ThreadGoesOn
  <1> QED
    BY <1>2, <1>3

\* Writing does not create: the number of creations and unlinkings stays in step.
LEMMA WritingCreatesNothing ==
    ASSUME RunTypes, CreationIsExclusive, NEW r \in Runs, NEW d \in Contents \cup {Torn},
           disk' = IF Named(r) THEN [disk EXCEPT ![run[r].path] = d] ELSE disk, links' = links
    PROVE  /\ disk' \in [Paths -> Contents \cup {Torn, Missing}] /\ CreationIsExclusive'
           /\ links' \in [Paths -> [created : Nat, unlinked : Nat]]
  <1>1. d # Missing /\ run[r].path \in Paths
    BY RunFields, RunAssumption DEF RunTypes
  <1>2. /\ disk' \in [Paths -> Contents \cup {Torn, Missing}]
        /\ \A g \in Paths : disk'[g] = Missing <=> disk[g] = Missing
    <2>1. CASE Named(r)
      BY <1>1, <2>1 DEF RunTypes, Named
    <2>2. CASE ~Named(r)
      BY <2>2 DEF RunTypes
    <2> QED
      BY <2>1, <2>2
  <1> QED
    BY <1>2 DEF RunTypes, CreationIsExclusive

LEMMA TruncateKeeps ==
    ASSUME RunInv, NEW r \in Runs, Truncate(r)
    PROVE  RunInv'
  <1> DEFINE x == [run[r] EXCEPT !.thread = "write"]
  <1>1. RunTypes /\ CallInv(r) /\ run[r] \in Run /\ run[r].op = "overwrite"
        /\ run[r].thread = "change" /\ CreationIsExclusive /\ UNCHANGED <<observed, origin, links>>
    BY DEF RunInv, RunTypes, Truncate
  <1>2. /\ disk' = IF Named(r) THEN [disk EXCEPT ![run[r].path] = Torn] ELSE disk
        /\ run' = [run EXCEPT ![r].thread = "write"]
    BY DEF Truncate
  <1>3. /\ disk' \in [Paths -> Contents \cup {Torn, Missing}] /\ CreationIsExclusive'
        /\ links' \in [Paths -> [created : Nat, unlinked : Nat]]
    BY <1>1, <1>2, WritingCreatesNothing
  <1>4. run' = [run EXCEPT ![r] = x]
    BY <1>1, <1>2 DEF RunTypes
  <1>5. /\ x \in Run /\ x.at = run[r].at /\ x.op = "overwrite" /\ x.calls = run[r].calls
        /\ x.https = run[r].https /\ x.thread = "write" /\ x.before = run[r].before
    BY <1>1 DEF Run
  <1> HIDE DEF x
  <1>6. x.before # Unsaid
    BY <1>1, <1>5 DEF CallInv
  <1> QED
    BY <1>1, <1>3, <1>4, <1>5, <1>6, ThreadGoesOn

LEMMA WriteFileKeeps ==
    ASSUME RunInv, NEW r \in Runs, WriteFile(r)
    PROVE  RunInv'
  <1>1. RunTypes /\ CallInv(r) /\ run[r] \in Run /\ run[r].op \in {"create", "overwrite"}
        /\ run[r].thread = "write" /\ CreationIsExclusive /\ UNCHANGED <<origin, links>>
    BY DEF RunInv, RunTypes, WriteFile, CallInv
  <1>2. CASE Fails(r) /\ UNCHANGED <<disk, observed>>
    BY <1>1, <1>2, FailedKeeps
  <1>3. CASE /\ disk' = IF Named(r) THEN [disk EXCEPT ![run[r].path] = run[r].new] ELSE disk
             /\ Succeeds(r, run[r].before, run[r].new)
    <2> DEFINE b == run[r].before
               d == run[r].new
    <2>1. d \in Contents /\ d \in Hash /\ b \in Hash /\ d # Unsaid
      BY <1>1, RunFields, RunAssumption DEF Hash
    <2>2. (run[r].op = "create" => b = Unsaid) /\ (run[r].op = "overwrite" => b # Unsaid)
      BY <1>1 DEF CallInv
    <2>3. /\ disk' = IF Named(r) THEN [disk EXCEPT ![run[r].path] = d] ELSE disk
          /\ Succeeds(r, b, d)
      BY <1>3
    <2> HIDE DEF b, d
    <2>4. EffectOK([op |-> run[r].op, path |-> run[r].path, before |-> b, after |-> d,
                    status |-> "none"])
      BY <1>1, <2>1, <2>2 DEF EffectOK, Sound
    <2>5. /\ disk' \in [Paths -> Contents \cup {Torn, Missing}] /\ CreationIsExclusive'
          /\ links' \in [Paths -> [created : Nat, unlinked : Nat]]
      BY <1>1, <2>1, <2>3, WritingCreatesNothing
    <2> QED
      BY <1>1, <2>1, <2>3, <2>4, <2>5, SucceededKeeps
  <1> QED
    BY <1>2, <1>3 DEF WriteFile

LEMMA FindTargetKeeps ==
    ASSUME RunInv, NEW r \in Runs, FindTarget(r)
    PROVE  RunInv'
  <1> DEFINE c == disk[run[r].path]
  <1>1. RunTypes /\ CallInv(r) /\ run[r] \in Run /\ run[r].op = "delete"
        /\ CreationIsExclusive /\ UNCHANGED <<disk, observed, origin, links>>
        /\ run[r].path \in Paths
    BY RunFields DEF RunInv, RunTypes, FindTarget
  <1>2. CASE c = Missing
    <2>1. Fails(r)
      BY <1>2 DEF FindTarget
    <2> QED
      BY <1>1, <2>1, FailedKeeps
  <1>3. CASE c # Missing
    <2>1. PICK hash \in {c, Unsaid} :
             run' = [run EXCEPT ![r].thread = "change", ![r].before = hash]
      BY <1>3 DEF FindTarget
    <2> DEFINE x == [run[r] EXCEPT !.thread = "change", !.before = hash]
    <2>2. hash \in Hash
      BY <1>1, <1>3 DEF RunTypes, Hash
    <2>3. run' = [run EXCEPT ![r] = x]
      BY <1>1, <2>1 DEF RunTypes
    <2>4. /\ x \in Run /\ x.at = run[r].at /\ x.op = "delete" /\ x.calls = run[r].calls
          /\ x.https = run[r].https /\ x.thread = "change"
      BY <1>1, <2>2 DEF Run
    <2> HIDE DEF x
    <2>5. /\ disk' \in [Paths -> Contents \cup {Torn, Missing}] /\ CreationIsExclusive'
          /\ links' \in [Paths -> [created : Nat, unlinked : Nat]]
      BY <1>1 DEF RunTypes, CreationIsExclusive
    <2> QED
      BY <1>1, <2>3, <2>4, <2>5, ThreadGoesOn
  <1> QED
    BY <1>2, <1>3

LEMMA UnlinkKeeps ==
    ASSUME RunInv, NEW r \in Runs, Unlink(r)
    PROVE  RunInv'
  <1> DEFINE f == run[r].path
             n == links[f].unlinked + 1
             b == run[r].before
  <1>1. RunTypes /\ run[r] \in Run /\ run[r].op = "delete" /\ CreationIsExclusive
        /\ origin' = origin /\ f \in Paths /\ b \in Hash
    BY RunFields DEF RunInv, RunTypes, Unlink
  <1>2. CASE disk[f] = Missing
    <2>1. Fails(r) /\ UNCHANGED <<disk, observed, links>>
      BY <1>2 DEF Unlink
    <2> QED
      BY <1>1, <2>1, FailedKeeps
  <1>3. CASE disk[f] # Missing
    <2>1. /\ disk' = [disk EXCEPT ![f] = Missing]
          /\ links' = [links EXCEPT ![f].unlinked = n]
          /\ Succeeds(r, b, Unsaid)
      BY <1>3 DEF Unlink
    <2>2. /\ n \in Nat /\ links[f].created \in Nat /\ links[f].unlinked \in Nat
          /\ n = links[f].unlinked + 1
      BY <1>1 DEF RunTypes
    <2>3. links[f].created - links[f].unlinked = 1
      BY <1>1, <1>3 DEF CreationIsExclusive
    <2> HIDE DEF n, b
    <2>4. EffectOK([op |-> run[r].op, path |-> run[r].path, before |-> b, after |-> Unsaid,
                    status |-> "none"])
      BY <1>1 DEF EffectOK, Sound
    <2> HIDE DEF f
    <2>5. /\ links'[f] = [links[f] EXCEPT !.unlinked = n]
          /\ \A g \in Paths : g # f => links'[g] = links[g]
      BY <1>1, <2>1 DEF RunTypes
    <2>6. /\ links'[f] \in [created : Nat, unlinked : Nat] /\ links'[f].unlinked = n
          /\ links'[f].created = links[f].created
      <3> DEFINE l == links[f]
                 o == l.created
      <3>1. l \in [created : Nat, unlinked : Nat]
        BY <1>1 DEF RunTypes
      <3>2. o \in Nat /\ l = [created |-> l.created, unlinked |-> l.unlinked]
        BY <3>1
      <3>3. links'[f] = [l EXCEPT !.unlinked = n]
        BY <2>5
      <3> HIDE DEF l
      <3>4. links'[f] = [unlinked |-> n, created |-> o]
        BY <3>2, <3>3
      <3> HIDE DEF o
      <3>5. /\ links'[f] \in [created : Nat, unlinked : Nat] /\ links'[f].unlinked = n
            /\ links'[f].created = o
        BY <2>2, <3>2, <3>4
      <3> QED
        BY <3>5 DEF l, o
    <2>7. /\ disk' \in [Paths -> Contents \cup {Torn, Missing}]
          /\ links' \in [Paths -> [created : Nat, unlinked : Nat]]
      BY <1>1, <2>1, <2>6 DEF RunTypes
    <2>8. CreationIsExclusive'
      <3> SUFFICES ASSUME NEW g \in Paths
                   PROVE  links'[g].created - links'[g].unlinked = IF disk'[g] = Missing THEN 0 ELSE 1
        BY DEF CreationIsExclusive
      <3>1. CASE g = f
        <4>1. disk'[g] = Missing
          BY <1>1, <2>1, <3>1 DEF RunTypes
        <4> QED
          BY <2>2, <2>3, <2>6, <3>1, <4>1
      <3>2. CASE g # f
        BY <1>1, <2>1, <2>5, <3>2 DEF RunTypes, CreationIsExclusive
      <3> QED
        BY <3>1, <3>2
    <2>9. Unsaid \in Hash
      BY DEF Hash
    <2> QED
      BY <1>1, <2>1, <2>4, <2>7, <2>8, <2>9, SucceededKeeps
  <1> QED
    BY <1>2, <1>3

--------------------------------------------------------------------------------
(* The invariant, and what it means.                                           *)

\* Whatever executions do, and wherever their limits end them, the numbers of calls,
\* requests and recorded effects stay in step, and so do creations and unlinkings.
THEOREM RunInvariant == RunSpec => []RunInv
  <1>1. RunInit => RunInv
    <2> SUFFICES ASSUME RunInit PROVE RunInv
      OBVIOUS
    <2>1. /\ run = [r \in Runs |-> Fresh] /\ observed = [r \in Runs |-> <<>>]
          /\ origin = [r \in Runs |-> [reached |-> 0, feigned |-> 0]]
          /\ disk \in [Paths -> Contents \cup {Torn, Missing}]
          /\ links = [f \in Paths |-> [created |-> IF disk[f] = Missing THEN 0 ELSE 1,
                                      unlinked |-> 0]]
      BY DEF RunInit
    <2>2. RunTypes
      BY <2>1, FreshIsRun DEF RunTypes, Arrivals
    <2>3. CreationIsExclusive
      BY <2>1 DEF CreationIsExclusive
    <2>4. ASSUME NEW r \in Runs PROVE CallInv(r)
      <3>1. run[r] = Fresh /\ observed[r] = <<>> /\ Len(observed[r]) = 0
            /\ origin[r].reached = 0 /\ origin[r].feigned = 0
        BY <2>1
      <3>2. InHand(r) = 0 /\ NotSent(r) = 0 /\ Tries(r) = 0
        BY <3>1, FreshIsRun DEF InHand, NotSent, Tries
      <3>3. Repeats(run[r].https - NotSent(r)) = 0
        <4>1. run[r].https - NotSent(r) = 0
          BY <3>1, <3>2, FreshIsRun
        <4> QED
          BY <4>1, RepeatsGrow DEF Repeats
      <3> QED
        BY <3>1, <3>2, <3>3, FreshIsRun DEF CallInv
    <2> QED
      BY <2>2, <2>3, <2>4 DEF RunInv
  <1>2. RunInv /\ [RunNext]_runVars => RunInv'
    <2> SUFFICES ASSUME RunInv, [RunNext]_runVars PROVE RunInv'
      OBVIOUS
    <2>1. ASSUME NEW r \in Runs, NEW op \in Op, NEW f \in Paths, NEW c \in Contents,
                 HostCall(r, op, f, c, Unsaid)
          PROVE  RunInv'
      BY <2>1, HostCallKeeps
    <2>2. ASSUME NEW r \in Runs, NEW f \in Paths, NEW c \in Contents, NEW e \in Contents,
                 HostCall(r, "overwrite", f, c, e)
          PROVE  RunInv'
      <3>1. "overwrite" \in Op
        BY DEF Op
      <3> QED
        BY <2>2, <3>1, HostCallKeeps
    <2>3. ASSUME NEW r \in Runs, Refused(r) \/ FileStep(r) \/ Timeout(r) PROVE RunInv'
      BY <2>3, RefusedKeeps, TimeoutKeeps, ReadFileKeeps, CreateFileKeeps, HashFileKeeps,
         TruncateKeeps, WriteFileKeeps, FindTargetKeeps, UnlinkKeeps DEF FileStep
    <2>4. ASSUME NEW r \in Runs, NEW claims \in {"none", "accepted"}, Return(r, claims)
          PROVE  RunInv'
      BY <2>4, ReturnKeeps
    <2>5. ASSUME NEW r \in Runs,
                 NEW reply \in {"answer", "error", "denied", "connect", "lost"},
                 NEW marked \in BOOLEAN, Send(r, reply, marked)
          PROVE  RunInv'
      BY <2>5, SendKeeps
    <2>6. CASE UNCHANGED runVars
      <3>1. /\ disk' = disk /\ run' = run /\ observed' = observed /\ origin' = origin
            /\ links' = links
        BY <2>6 DEF runVars
      <3>2. RunTypes' /\ CreationIsExclusive'
        BY <3>1 DEF RunInv, RunTypes, CreationIsExclusive
      <3>3. ASSUME NEW r \in Runs PROVE CallInv(r)'
        <4>1. InHand(r)' = InHand(r) /\ NotSent(r)' = NotSent(r) /\ Tries(r)' = Tries(r)
          BY <3>1 DEF InHand, NotSent, Tries
        <4>2. Repeats(run[r].https - NotSent(r))' = Repeats(run[r].https - NotSent(r))
          BY <3>1, <4>1 DEF Repeats
        <4> QED
          BY <3>1, <4>1, <4>2 DEF RunInv, CallInv
      <3> QED
        BY <3>2, <3>3 DEF RunInv
    <2> QED
      BY <2>1, <2>2, <2>3, <2>4, <2>5, <2>6 DEF RunNext
  <1> QED
    BY <1>1, <1>2, PTL DEF RunSpec

\* A set of positions that is not empty has a first one.
LEMMA HasFirst ==
    ASSUME NEW I \in SUBSET Nat, I # {}
    PROVE  \E i \in I : \A j \in I : i <= j
  <1> DEFINE R == OpToRel(<, Nat)
  <1>1. IsWellFoundedOn(R, Nat)
    BY NatLessThanWellFounded, Zenon
  <1>2. R = {ss \in Nat \X Nat : ss[1] < ss[2]}
    BY Zenon DEF OpToRel
  <1> HIDE DEF R
  <1>3. PICK i \in I : \A j \in I : ~(<<j, i>> \in R)
    BY <1>1, WFMin
  <1>4. ASSUME NEW j \in I PROVE i <= j
    <2>1. i \in Nat /\ j \in Nat
      OBVIOUS
    <2>2. <<j, i>> \in Nat \X Nat /\ <<j, i>>[1] = j /\ <<j, i>>[2] = i
      BY <2>1
    <2>3. j < i => <<j, i>> \in R
      BY <1>2, <2>2, Zenon
    <2> QED
      BY <1>3, <2>1, <2>3
  <1> QED
    BY <1>4

--------------------------------------------------------------------------------
(* Files that are found empty.                                                 *)

\* An execution that computes has no file operation under way.
TornInv ==
    /\ TornHasAWriter
    /\ broken \subseteq Paths
    /\ \A r \in Runs : run[r].at = "guest" => run[r].thread = "none"

\* The thread that will write the file at f.
Writes(r, f) ==
    run[r].thread = "write" /\ run[r].path = f /\ run[r].inode = links[f].created

\* A step that empties no file and lets every writer of an empty file be.
LEMMA WritersStay ==
    ASSUME TornInv, UNCHANGED <<disk, links, broken>>,
           \A r \in Runs, f \in Paths : Writes(r, f) => Writes(r, f)'
    PROVE  TornHasAWriter'
  <1> SUFFICES ASSUME NEW f \in Paths, disk'[f] = Torn
               PROVE  f \in broken' \/ \E r \in Runs : Writes(r, f)'
    BY DEF TornHasAWriter, Writes
  <1>1. f \in broken \/ \E r \in Runs : Writes(r, f)
    BY DEF TornInv, TornHasAWriter, Writes
  <1> QED
    BY <1>1

\* A step of an execution whose thread has not emptied a file.
LEMMA NoWriterMoves ==
    ASSUME TornInv, NEW r \in Runs, run[r].thread # "write",
           \A z \in Runs : z # r => run'[z] = run[z],
           run'[r].at = "guest" => run'[r].thread = "none",
           UNCHANGED <<disk, links, broken>>
    PROVE  TornInv'
  <1>1. \A z \in Runs, f \in Paths : Writes(z, f) => Writes(z, f)'
    BY DEF Writes
  <1>2. TornHasAWriter'
    BY <1>1, WritersStay
  <1> QED
    BY <1>2 DEF TornInv

\* What CallEnds leaves, as far as files are concerned.
LEMMA EndedThread ==
    ASSUME RunTypes, NEW r \in Runs, NEW at \in {"guest", "ok", "timeout"}, CallEnds(r, at)
    PROVE  run'[r].thread = "none" /\ \A z \in Runs : z # r => run'[z] = run[z]
  BY EndedCall DEF RunTypes

LEMMA FailedThread ==
    ASSUME RunTypes, NEW r \in Runs, Fails(r)
    PROVE  run'[r].thread = "none" /\ \A z \in Runs : z # r => run'[z] = run[z]
  BY BackIsOver, EndedThread DEF Fails

\* Every step of an execution keeps a writer for each empty file.
LEMMA CallsKeepTorn ==
    ASSUME RunInv, TornInv, NEW r \in Runs,
           \/ \E op \in Op, f \in Paths, c \in Contents, e \in Contents \cup {Unsaid} :
                 HostCall(r, op, f, c, e)
           \/ \E claims \in {"none", "accepted"} : Return(r, claims)
           \/ \E reply \in {"answer", "error", "denied", "connect", "lost"},
                 marked \in BOOLEAN : Send(r, reply, marked)
           \/ Refused(r) \/ Timeout(r) \/ ReadFile(r) \/ HashFile(r) \/ FindTarget(r)
    PROVE  TornInv'
  <1>1. RunTypes /\ CallInv(r) /\ run[r] \in Run /\ run \in [Runs -> Run]
    BY DEF RunInv, RunTypes
  <1>2. CASE \E op \in Op, f \in Paths, c \in Contents, e \in Contents \cup {Unsaid} :
                HostCall(r, op, f, c, e)
    <2>1. PICK op \in Op, f \in Paths, c \in Contents, e \in Contents \cup {Unsaid} :
             HostCall(r, op, f, c, e)
      BY <1>2
    <2>2. /\ run[r].thread # "write" /\ \A z \in Runs : z # r => run'[z] = run[z]
          /\ run'[r].at = "call" /\ UNCHANGED <<disk, links, broken>>
      <3>1. run[r].thread = "none" /\ UNCHANGED <<disk, links, broken>>
        BY <2>1 DEF HostCall, TornInv
      <3> DEFINE n == run[r].calls + 1
                 h == IF op = "http" THEN run[r].https + 1 ELSE run[r].https
                 t == IF op = "http" THEN "none" ELSE "open"
      <3>2. run' = [run EXCEPT ![r].calls = n,
                      ![r].at = "call", ![r].op = op, ![r].path = f, ![r].new = c,
                      ![r].expected = e, ![r].before = Unsaid, ![r].sends = 0,
                      ![r].https = h, ![r].thread = t]
        BY <2>1 DEF HostCall
      <3> HIDE DEF n, h, t
      <3>3. run'[r] = [run[r] EXCEPT !.calls = n, !.at = "call", !.op = op, !.path = f,
                          !.new = c, !.expected = e, !.before = Unsaid, !.sends = 0,
                          !.https = h, !.thread = t]
            /\ \A z \in Runs : z # r => run'[z] = run[z]
        BY <1>1, <3>2
      <3>4. run'[r].at = "call"
        BY <1>1, <3>3 DEF Run
      <3> QED
        BY <3>1, <3>3, <3>4
    <2> QED
      BY <2>2, NoWriterMoves
  <1>3. CASE \E claims \in {"none", "accepted"} : Return(r, claims)
    <2>1. PICK claims \in {"none", "accepted"} : Return(r, claims)
      BY <1>3
    <2>2. /\ run[r].thread # "write" /\ \A z \in Runs : z # r => run'[z] = run[z]
          /\ run'[r].at = "ok" /\ UNCHANGED <<disk, links, broken>>
      BY <1>1, <2>1 DEF Return, TornInv, RunTypes, Run
    <2> QED
      BY <2>2, NoWriterMoves
  <1>4. CASE \E reply \in {"answer", "error", "denied", "connect", "lost"},
                marked \in BOOLEAN : Send(r, reply, marked)
    <2>1. PICK reply \in {"answer", "error", "denied", "connect", "lost"},
               marked \in BOOLEAN : Send(r, reply, marked)
      BY <1>4
    <2>2. run[r].thread = "none" /\ run[r].at = "call" /\ UNCHANGED <<disk, links, broken>>
      BY <1>1, <2>1 DEF Send, CallInv
    <2>3. \/ CallEnds(r, "guest")
          \/ run' = [run EXCEPT ![r].sends = @ + 1]
      BY <2>1 DEF Send
    <2>4. CASE CallEnds(r, "guest")
      BY <1>1, <2>2, <2>4, EndedThread, NoWriterMoves
    <2>5. CASE run' = [run EXCEPT ![r].sends = @ + 1]
      <3>1. run'[r].at = "call" /\ \A z \in Runs : z # r => run'[z] = run[z]
        BY <1>1, <2>2, <2>5 DEF Run
      <3> QED
        BY <2>2, <3>1, NoWriterMoves
    <2> QED
      BY <2>3, <2>4, <2>5
  <1>5. CASE Refused(r)
    <2>1. run[r].thread # "write" /\ Fails(r) /\ UNCHANGED <<disk, links, broken>>
      BY <1>5 DEF Refused
    <2> QED
      BY <1>1, <2>1, FailedThread, NoWriterMoves
  <1>6. CASE Timeout(r)
    <2>1. UNCHANGED <<disk, links, broken>>
      BY <1>6 DEF Timeout
    <2>2. CASE run[r].thread = "none"
      <3>1. CallEnds(r, "timeout")
        BY <1>6, <2>2 DEF Timeout
      <3> QED
        BY <1>1, <2>1, <2>2, <3>1, EndedThread, NoWriterMoves
    <2>3. CASE run[r].thread # "none"
      <3>1. run' = [run EXCEPT ![r].at = "timeout"]
        BY <1>6, <2>3 DEF Timeout
      <3>2. /\ run'[r].at = "timeout" /\ run'[r].thread = run[r].thread
            /\ run'[r].path = run[r].path /\ run'[r].inode = run[r].inode
            /\ \A z \in Runs : z # r => run'[z] = run[z]
        BY <1>1, <3>1 DEF Run
      <3>3. \A z \in Runs, f \in Paths : Writes(z, f) => Writes(z, f)'
        BY <2>1, <3>2 DEF Writes
      <3>4. TornHasAWriter'
        BY <2>1, <3>3, WritersStay
      <3> QED
        BY <2>1, <3>2, <3>4 DEF TornInv
    <2> QED
      BY <2>2, <2>3
  <1>7. CASE ReadFile(r)
    <2>1. run[r].thread # "write" /\ Fails(r) /\ UNCHANGED <<disk, links, broken>>
      BY <1>7 DEF ReadFile, Succeeds
    <2> QED
      BY <1>1, <2>1, FailedThread, NoWriterMoves
  <1>8. CASE HashFile(r) \/ FindTarget(r)
    <2>1. run[r].thread = "open" /\ UNCHANGED <<disk, links, broken>>
      BY <1>8 DEF HashFile, FindTarget
    <2>2. run[r].at # "guest"
      BY <2>1 DEF TornInv
    <2>4. CASE Fails(r)
      BY <1>1, <2>1, <2>4, FailedThread, NoWriterMoves
    <2>5. CASE ~Fails(r)
      <3>1. run'[r].at = run[r].at /\ \A z \in Runs : z # r => run'[z] = run[z]
        <4>1. CASE HashFile(r)
          <5> DEFINE c == disk[run[r].path]
                     n == links[run[r].path].created
          <5>1. run' = [run EXCEPT ![r].thread = "change", ![r].before = c, ![r].inode = n]
            BY <2>5, <4>1 DEF HashFile
          <5> HIDE DEF c, n
          <5> QED
            BY <1>1, <5>1 DEF Run
        <4>2. CASE FindTarget(r)
          <5>1. PICK hash \in {disk[run[r].path], Unsaid} :
                   run' = [run EXCEPT ![r].thread = "change", ![r].before = hash]
            BY <2>5, <4>2 DEF FindTarget
          <5> QED
            BY <1>1, <5>1 DEF Run
        <4> QED
          BY <1>8, <4>1, <4>2
      <3> QED
        BY <2>1, <2>2, <3>1, NoWriterMoves
    <2> QED
      BY <2>4, <2>5
  <1> QED
    BY <1>2, <1>3, <1>4, <1>5, <1>6, <1>7, <1>8


\* The steps that empty, write or unlink a file: a path other than theirs is as it was,
\* and on their own path the thread that emptied it last is there, or an error was.
LEMMA OwnPathOnly ==
    ASSUME RunInv, TornInv, NEW r \in Runs, NEW p \in Paths, run[r].path = p,
           \A z \in Runs : z # r => run'[z] = run[z],
           \A f \in Paths : f # p =>
              disk'[f] = disk[f] /\ links'[f] = links[f] /\ (f \in broken => f \in broken'),
           disk'[p] = Torn => p \in broken' \/ \E z \in Runs : Writes(z, p)'
    PROVE  TornHasAWriter'
  <1> SUFFICES ASSUME NEW f \in Paths, disk'[f] = Torn
               PROVE  f \in broken' \/ \E z \in Runs : Writes(z, f)'
    BY DEF TornHasAWriter, Writes
  <1>1. CASE f = p
    BY <1>1
  <1>2. CASE f # p
    <2>1. f \in broken \/ \E z \in Runs : Writes(z, f)
      BY <1>2 DEF TornInv, TornHasAWriter, Writes
    <2>2. ASSUME NEW z \in Runs, Writes(z, f) PROVE Writes(z, f)'
      <3>1. z # r
        BY <1>2, <2>2 DEF Writes
      <3> QED
        BY <1>2, <2>2, <3>1 DEF Writes
    <2> QED
      BY <1>2, <2>1, <2>2
  <1> QED
    BY <1>1, <1>2

LEMMA CreateKeepsTorn ==
    ASSUME RunInv, TornInv, NEW r \in Runs, CreateFile(r)
    PROVE  TornInv'
  <1> DEFINE p == run[r].path
  <1>1. RunTypes /\ run[r] \in Run /\ p \in Paths /\ run \in [Runs -> Run] /\ broken' = broken
        /\ run[r].thread = "open"
    BY RunFields DEF RunInv, RunTypes, CreateFile
  <1>2. CASE MayCreate(p)
    <2>1. /\ disk' = [disk EXCEPT ![p] = Torn]
          /\ links' = [links EXCEPT ![p].created = @ + 1]
          /\ run' = [run EXCEPT ![r].thread = "write", ![r].inode = links'[p].created]
      BY <1>2 DEF CreateFile
    <2> DEFINE n == links'[p].created
    <2>2. /\ run'[r].thread = "write" /\ run'[r].path = p /\ run'[r].inode = n
          /\ run'[r].at = run[r].at /\ \A z \in Runs : z # r => run'[z] = run[z]
      <3>1. run'[r] = [run[r] EXCEPT !.thread = "write", !.inode = n]
            /\ \A z \in Runs : z # r => run'[z] = run[z]
        BY <1>1, <2>1
      <3> HIDE DEF n
      <3> QED
        BY <1>1, <3>1 DEF Run
    <2>3. Writes(r, p)'
      BY <2>2 DEF Writes
    <2>4. \A f \in Paths : f # p => disk'[f] = disk[f] /\ links'[f] = links[f]
      BY <1>1, <2>1 DEF RunTypes
    <2>5. TornHasAWriter'
      BY <1>1, <2>2, <2>3, <2>4, OwnPathOnly
    <2>6. run[r].at # "guest"
      BY <1>1 DEF TornInv
    <2> QED
      BY <1>1, <2>2, <2>5, <2>6 DEF TornInv
  <1>3. CASE ~MayCreate(p)
    <2>1. Fails(r) /\ UNCHANGED <<disk, links, broken>>
      BY <1>1, <1>3 DEF CreateFile
    <2> QED
      BY <1>1, <2>1, FailedThread, NoWriterMoves
  <1> QED
    BY <1>2, <1>3

LEMMA TruncateKeepsTorn ==
    ASSUME RunInv, TornInv, NEW r \in Runs, Truncate(r)
    PROVE  TornInv'
  <1> DEFINE p == run[r].path
  <1>1. RunTypes /\ run[r] \in Run /\ p \in Paths /\ run \in [Runs -> Run]
        /\ UNCHANGED <<links, broken>> /\ run[r].thread = "change"
    BY RunFields DEF RunInv, RunTypes, Truncate
  <1>2. /\ run'[r].thread = "write" /\ run'[r].path = p /\ run'[r].inode = run[r].inode
        /\ run'[r].at = run[r].at /\ \A z \in Runs : z # r => run'[z] = run[z]
    BY <1>1 DEF Truncate, Run
  <1>3. run[r].at # "guest"
    BY <1>1 DEF TornInv
  <1>4. TornHasAWriter'
    <2>1. CASE Named(r)
      <3>1. disk' = [disk EXCEPT ![p] = Torn] /\ run[r].inode = links[p].created
        BY <2>1 DEF Truncate, Named
      <3>2. Writes(r, p)'
        BY <1>1, <1>2, <3>1 DEF Writes
      <3>3. \A f \in Paths : f # p => disk'[f] = disk[f] /\ links'[f] = links[f]
        BY <1>1, <3>1 DEF RunTypes
      <3> QED
        BY <1>1, <1>2, <3>2, <3>3, OwnPathOnly
    <2>2. CASE ~Named(r)
      <3>1. disk' = disk
        BY <2>2 DEF Truncate
      <3>2. \A z \in Runs, f \in Paths : Writes(z, f) => Writes(z, f)'
        BY <1>1, <1>2 DEF Writes
      <3> QED
        BY <1>1, <3>1, <3>2, WritersStay
    <2> QED
      BY <2>1, <2>2
  <1> QED
    BY <1>1, <1>2, <1>3, <1>4 DEF TornInv

LEMMA WriteKeepsTorn ==
    ASSUME RunInv, TornInv, NEW r \in Runs, WriteFile(r)
    PROVE  TornInv'
  <1> DEFINE p == run[r].path
  <1>1. RunTypes /\ run[r] \in Run /\ p \in Paths /\ run[r].new \in Contents
        /\ links' = links /\ run[r].thread = "write" /\ Fails(r)
    BY RunFields DEF RunInv, RunTypes, WriteFile, Succeeds
  <1>2. run'[r].thread = "none" /\ \A z \in Runs : z # r => run'[z] = run[z]
    BY <1>1, FailedThread
  <1>3. broken' \subseteq Paths
    BY <1>1 DEF WriteFile, TornInv
  <1>4. TornHasAWriter'
    <2>1. CASE Named(r)
      <3>1. /\ \A f \in Paths : f # p => disk'[f] = disk[f] /\ links'[f] = links[f]
                                         /\ (f \in broken => f \in broken')
            /\ disk'[p] = Torn => p \in broken'
        BY <1>1, <2>1, RunAssumption DEF WriteFile, RunTypes
      <3> QED
        BY <1>1, <1>2, <3>1, OwnPathOnly
    <2>2. CASE ~Named(r)
      <3>1. UNCHANGED <<disk, broken>>
        BY <2>2 DEF WriteFile
      <3>2. ASSUME NEW f \in Paths, disk'[f] = Torn
            PROVE  f \in broken' \/ \E z \in Runs : Writes(z, f)'
        <4>1. f \in broken \/ \E z \in Runs : Writes(z, f)
          BY <3>1, <3>2 DEF TornInv, TornHasAWriter, Writes
        <4>2. ASSUME NEW z \in Runs, Writes(z, f) PROVE Writes(z, f)'
          <5>1. z # r
            BY <2>2, <3>1, <3>2, <4>2, RunAssumption DEF Named, Writes
          <5> QED
            BY <1>1, <1>2, <4>2, <5>1 DEF Writes
        <4> QED
          BY <3>1, <4>1, <4>2
      <3> QED
        BY <3>2 DEF TornHasAWriter, Writes
    <2> QED
      BY <2>1, <2>2
  <1> QED
    BY <1>2, <1>3, <1>4 DEF TornInv

LEMMA UnlinkKeepsTorn ==
    ASSUME RunInv, TornInv, NEW r \in Runs, Unlink(r)
    PROVE  TornInv'
  <1> DEFINE p == run[r].path
  <1>1. RunTypes /\ run[r] \in Run /\ p \in Paths /\ run[r].thread = "change" /\ Fails(r)
    BY RunFields DEF RunInv, RunTypes, Unlink, Succeeds
  <1>2. run'[r].thread = "none" /\ \A z \in Runs : z # r => run'[z] = run[z]
    BY <1>1, FailedThread
  <1>3. CASE disk[p] = Missing
    <2>1. UNCHANGED <<disk, links, broken>>
      BY <1>3 DEF Unlink
    <2> QED
      BY <1>1, <1>2, <2>1, NoWriterMoves
  <1>4. CASE disk[p] # Missing
    <2>1. /\ disk' = [disk EXCEPT ![p] = Missing] /\ broken' = broken \ {p}
          /\ links' = [links EXCEPT ![p].unlinked = @ + 1]
      BY <1>4 DEF Unlink
    <2>2. /\ \A f \in Paths : f # p => disk'[f] = disk[f] /\ links'[f] = links[f]
                                       /\ (f \in broken => f \in broken')
          /\ disk'[p] # Torn
      BY <1>1, <2>1, RunAssumption DEF RunTypes
    <2>3. TornHasAWriter'
      BY <1>1, <1>2, <2>2, OwnPathOnly
    <2> QED
      BY <1>2, <2>1, <2>3 DEF TornInv
  <1> QED
    BY <1>3, <1>4

\* Whatever interleaves, and wherever limits end executions, an empty file has its
\* writer or had an I/O error.
THEOREM TornInvariant == RunSpec => []TornInv
  <1>1. RunInit => TornInv
    <2> SUFFICES ASSUME RunInit PROVE TornInv
      OBVIOUS
    <2>1. /\ \A f \in Paths : disk[f] # Torn
          /\ broken = {} /\ \A r \in Runs : run[r] = Fresh
      BY RunAssumption DEF RunInit
    <2> QED
      BY <2>1, FreshIsRun DEF TornInv, TornHasAWriter
  <1>2. RunInv /\ TornInv /\ [RunNext]_runVars => TornInv'
    <2> SUFFICES ASSUME RunInv, TornInv, [RunNext]_runVars PROVE TornInv'
      OBVIOUS
    <2>1. CASE UNCHANGED runVars
      BY <2>1 DEF runVars, TornInv, TornHasAWriter
    <2>2. CASE RunNext
      <3>1. PICK r \in Runs :
               \/ \E op \in Op, f \in Paths, c \in Contents : HostCall(r, op, f, c, Unsaid)
               \/ \E f \in Paths, c \in Contents, e \in Contents :
                     HostCall(r, "overwrite", f, c, e)
               \/ Refused(r) \/ FileStep(r) \/ Timeout(r)
               \/ \E claims \in {"none", "accepted"} : Return(r, claims)
               \/ \E reply \in {"answer", "error", "denied", "connect", "lost"},
                     marked \in BOOLEAN : Send(r, reply, marked)
        BY <2>2 DEF RunNext
      <3>2. "overwrite" \in Op /\ Unsaid \in Contents \cup {Unsaid}
        BY DEF Op
      <3>3. CASE CreateFile(r) \/ Truncate(r) \/ WriteFile(r) \/ Unlink(r)
        BY <3>3, CreateKeepsTorn, TruncateKeepsTorn, WriteKeepsTorn, UnlinkKeepsTorn
      <3>4. CASE ~(CreateFile(r) \/ Truncate(r) \/ WriteFile(r) \/ Unlink(r))
        <4>1. CASE FileStep(r)
          BY <3>4, <4>1, CallsKeepTorn DEF FileStep
        <4>2. CASE ~FileStep(r)
          BY <3>1, <3>2, <4>2, CallsKeepTorn
        <4> QED
          BY <4>1, <4>2
      <3> QED
        BY <3>3, <3>4
    <2> QED
      BY <2>1, <2>2
  <1> QED
    BY <1>1, <1>2, RunInvariant, PTL DEF RunSpec

\* What a provider's run does to files and origins, and what its evidence says: a path
\* is created only where none is, a request that arrived is sent again only if the
\* origin's answer bore the proxy's header, an empty file has its writer or had an
\* I/O error, and an execution that returned with an effect on a file has the evidence
\* its verifier asks for (RunSafe of run components, for every number of executions, paths and calls).
THEOREM RunIsSafe == RunSpec => []RunSafe
  <1>1. RunInv /\ TornInv => RunSafe
    <2> SUFFICES ASSUME RunInv, TornInv PROVE RunSafe
      OBVIOUS
    <2>1. RunTypes /\ CreationIsExclusive /\ \A r \in Runs : CallInv(r)
      BY DEF RunInv
    <2>2. ASSUME NEW r \in Runs
          PROVE  /\ Len(observed[r]) <= MaxIoCalls
                 /\ origin[r].reached <= run[r].https + origin[r].feigned
                 /\ origin[r].feigned <= EgressRetryMax * run[r].https
                 /\ \A i \in 1..Len(observed[r]) : observed[r][i] \in Effect
      <3>1. run[r] \in Run /\ observed[r] \in Seq(Effect) /\ CallInv(r)
            /\ origin[r].reached \in Nat /\ origin[r].feigned \in Nat
        BY <2>1, ArrivalFields DEF RunTypes
      <3>2. run[r].calls \in 0..MaxIoCalls /\ run[r].https \in 0..MaxIoCalls
            /\ run[r].sends \in 0..EgressRetryMax
            /\ InHand(r) \in Nat /\ NotSent(r) \in Nat /\ Len(observed[r]) \in Nat
        BY <3>1, RunFields DEF InHand, NotSent
      <3>3. Len(observed[r]) <= MaxIoCalls
        <4>1. Len(observed[r]) + InHand(r) <= run[r].calls
          BY <3>1 DEF CallInv
        <4> QED
          BY <3>2, <4>1, RunAssumption
      <3>4. origin[r].reached <= run[r].https + origin[r].feigned
        <4>1. origin[r].reached + NotSent(r) <= run[r].https + origin[r].feigned
          BY <3>1 DEF CallInv
        <4> QED
          BY <3>1, <3>2, <4>1
      <3>5. origin[r].feigned <= Repeats(run[r].https)
        BY WithinRepeats
      <3> QED
        BY <3>1, <3>3, <3>4, <3>5 DEF Repeats
    <2>3. RunTypeOK
      BY <2>1, <2>2 DEF RunTypeOK, RunTypes, TornInv
    <2>5. TornHasAWriter
      BY DEF TornInv
    <2>4. EvidenceIsSound
      <3> SUFFICES ASSUME NEW r \in Runs, run[r].at = "ok", FsEffects(r) # {}
                   PROVE  LET e == FirstOf(r, FsEffects(r)) IN
                          Verified(r) \/ (e.op = "delete" /\ e.before = Unsaid)
        BY DEF EvidenceIsSound
      <3> DEFINE I == FsEffects(r)
                 k == CHOOSE i \in I : \A j \in I : i <= j
      <3>1. Len(observed[r]) \in Nat
        BY <2>1 DEF RunTypes
      <3>2. I \in SUBSET Nat /\ I # {}
        BY <3>1 DEF FsEffects
      <3>3. k \in I
        <4> HIDE DEF I
        <4> QED
          BY <3>2, HasFirst
      <3>4. FirstOf(r, FsEffects(r)) = observed[r][k]
        BY DEF FirstOf
      <3> HIDE DEF k
      <3>5. k \in 1..Len(observed[r]) /\ observed[r][k].op # "http"
        BY <3>3 DEF FsEffects
      <3>6. EffectOK(observed[r][k])
        BY <2>1, <3>5 DEF CallInv
      <3> QED
        BY <3>4, <3>5, <3>6 DEF EffectOK, Verified
    <2> QED
      BY <2>1, <2>2, <2>3, <2>4, <2>5 DEF RunSafe, RepeatsAreMarked
  <1> QED
    BY <1>1, RunInvariant, TornInvariant, PTL

--------------------------------------------------------------------------------
(***************************************************************************)
(* Why a scanner announces an expiry once and only when it happened, for   *)
(* any number of approvals, every backend, every limit of a list and any   *)
(* number of restarts.  A record that a scan announced is in `emitted`     *)
(* until a list does not show it; a complete list leaves out only what is  *)
(* no longer pending or no longer kept, and neither comes back.  A pending *)
(* record's own life ends with its plan, so the backends that drop records *)
(* by age never list one whose plan has run out.                           *)
(***************************************************************************)

ScannerTypes ==
    /\ emitted \subseteq Approvals /\ notices \in [Approvals -> Nat]
    /\ crowded \in BOOLEAN

\* An announced approval exists, its plan has run out and, unless a list was cut
\* off, it was announced once and is remembered for as long as it is listed.
AnnouncedInv ==
    \A a \in Approvals : notices[a] > 0 =>
        /\ rec[a].state # "absent" /\ now >= rec[a].plan
        /\ ~crowded => notices[a] = 1 /\ (a \in emitted \/ ~Listed(a))

\* A pending record expires when its plan does.
PendingInv == \A a \in Approvals : rec[a].state = "pending" => rec[a].plan = rec[a].expiresAt

ScannerInv == StoreInv /\ ScannerTypes /\ AnnouncedInv /\ PendingInv /\ SilentExpiry

\* What a step of the store leaves of a record: its plan, and that it is not
\* listed if it was not.
LEMMA RecordAges ==
    ASSUME StoreInv, Next, NEW a \in Approvals, rec[a].state # "absent"
    PROVE  /\ now' \in Nat /\ now <= now'
           /\ rec'[a].state # "absent" /\ rec'[a].plan = rec[a].plan
           /\ rec'[a].state = "pending" =>
                 rec[a].state = "pending" /\ rec'[a].expiresAt = rec[a].expiresAt
<1> USE StoreAssumption
<1>0. /\ now \in Nat /\ rec \in [Approvals -> Record] /\ rec[a] \in Record
      /\ issued \in [Tokens -> Claim]
  BY DEF StoreInv, StoreTypeOK
<1>1. CASE \E b \in Approvals : CreatePending(b)
  BY <1>0, <1>1 DEF CreatePending
<1>2. CASE \E b \in Approvals, tok \in Tokens, t \in CallerClock : ClaimPending(b, tok, t)
  BY <1>0, <1>2 DEF ClaimPending, Record
<1>3. CASE \E tok \in Tokens, kind \in TerminalStates : Decide(tok, kind)
  BY <1>0, <1>3 DEF Decide
<1>4. CASE \E tok \in Tokens : WriteOutcomeMarker(tok)
  BY <1>0, <1>4 DEF WriteOutcomeMarker, Record
<1>5. CASE \E tok \in Tokens : Complete(tok)
  <2>1. PICK tok \in Tokens : Complete(tok)
    BY <1>5
  <2>2. issued[tok].outcome \in TerminalStates
    BY <2>1, <1>0 DEF Complete, Claim
  <2>3. issued[tok].outcome \notin {"absent", "pending"}
    BY <2>2 DEF TerminalStates
  <2>4. /\ rec' = Completed(issued[tok].approval, issued[tok].outcome)
        /\ now' = now
    BY <2>1 DEF Complete
  <2> QED
    BY <2>3, <2>4, <1>0 DEF Completed, Record
<1>6. CASE Tick
  BY <1>0, <1>6 DEF Tick
<1> QED
  BY <1>1, <1>2, <1>3, <1>4, <1>5, <1>6 DEF Next

LEMMA ScannerStarts == ScannerInit => ScannerInv
<1> SUFFICES ASSUME ScannerInit PROVE ScannerInv
  OBVIOUS
<1>1. StoreInv
  BY InitEstablishes DEF ScannerInit
<1>2. emitted = {} /\ notices = [a \in Approvals |-> 0] /\ crowded \in BOOLEAN
  BY DEF ScannerInit
<1>3. PendingInv
  BY DEF ScannerInit, Init, AbsentRecord, PendingInv
<1> QED
  BY <1>1, <1>2, <1>3 DEF ScannerInv, ScannerTypes, AnnouncedInv, SilentExpiry

\* A record that was not there before is one that was just created.
LEMMA NewIsPending ==
    ASSUME StoreInv, Next, NEW a \in Approvals, rec[a].state = "absent"
    PROVE  rec'[a].state = "pending" => rec'[a].plan = rec'[a].expiresAt
<1> USE StoreAssumption
<1>0. /\ now \in Nat /\ rec \in [Approvals -> Record] /\ rec[a] \in Record
      /\ issued \in [Tokens -> Claim]
  BY DEF StoreInv, StoreTypeOK
<1>1. CASE \E b \in Approvals : CreatePending(b)
  BY <1>0, <1>1 DEF CreatePending, PendingRecord
<1>2. CASE \E b \in Approvals, tok \in Tokens, t \in CallerClock : ClaimPending(b, tok, t)
  BY <1>0, <1>2 DEF ClaimPending, Record
<1>3. CASE \E tok \in Tokens, kind \in TerminalStates : Decide(tok, kind)
  BY <1>0, <1>3 DEF Decide
<1>4. CASE \E tok \in Tokens : WriteOutcomeMarker(tok)
  BY <1>0, <1>4 DEF WriteOutcomeMarker, Record
<1>5. CASE \E tok \in Tokens : Complete(tok)
  <2>1. PICK tok \in Tokens : Complete(tok)
    BY <1>5
  <2>2. issued[tok].outcome \in TerminalStates
    BY <2>1, <1>0 DEF Complete, Claim
  <2>3. issued[tok].outcome # "pending"
    BY <2>2 DEF TerminalStates
  <2>4. rec' = Completed(issued[tok].approval, issued[tok].outcome)
    BY <2>1 DEF Complete
  <2> QED
    BY <2>3, <2>4, <1>0 DEF Completed, Record
<1>6. CASE Tick
  BY <1>0, <1>6 DEF Tick
<1> QED
  BY <1>1, <1>2, <1>3, <1>4, <1>5, <1>6 DEF Next

LEMMA StoreStepKeeps == ASSUME ScannerInv, StoreStep PROVE ScannerInv'
<1>1. StoreInv /\ StoreInv'
  BY NextKeeps DEF ScannerInv, StoreStep
<1>2. ScannerTypes'
  BY DEF ScannerInv, ScannerTypes, StoreStep
<1>3. ASSUME NEW a \in Approvals, notices'[a] > 0
      PROVE  /\ rec'[a].state # "absent" /\ now' >= rec'[a].plan
             /\ ~crowded' => notices'[a] = 1 /\ (a \in emitted' \/ ~(Listed(a)'))
  <2>1. notices' = notices /\ emitted' = emitted /\ crowded' = crowded /\ Next
    BY DEF StoreStep
  <2>2. /\ rec[a].state # "absent" /\ now >= rec[a].plan
        /\ ~crowded => notices[a] = 1 /\ (a \in emitted \/ ~Listed(a))
    BY <1>3, <2>1 DEF ScannerInv, AnnouncedInv
  <2>3. /\ now' \in Nat /\ now <= now'
        /\ rec'[a].state # "absent" /\ rec'[a].plan = rec[a].plan
        /\ rec'[a].state = "pending" =>
              rec[a].state = "pending" /\ rec'[a].expiresAt = rec[a].expiresAt
    BY <1>1, <2>1, <2>2, RecordAges
  <2>4. /\ now \in Nat /\ rec[a].plan \in Nat /\ rec[a].expiresAt \in Nat
    BY <1>1 DEF StoreInv, StoreTypeOK, Record
  <2>5. ~Listed(a) => ~(Listed(a)')
    BY <2>2, <2>3, <2>4 DEF Listed, Exists
  <2> QED
    BY <2>1, <2>2, <2>3, <2>4, <2>5
<1>4. ASSUME NEW a \in Approvals, rec'[a].state = "pending"
      PROVE  rec'[a].plan = rec'[a].expiresAt
  <2>1. Next
    BY DEF StoreStep
  <2>2. rec[a].state = "pending" => rec[a].plan = rec[a].expiresAt
    BY DEF ScannerInv, PendingInv
  <2> QED
    BY <1>1, <1>4, <2>1, <2>2, NewIsPending, RecordAges
<1>5. SilentExpiry'
  BY DEF ScannerInv, SilentExpiry, StoreStep
<1> QED
  BY <1>1, <1>2, <1>3, <1>4, <1>5 DEF ScannerInv, AnnouncedInv, PendingInv

LEMMA ScanKeeps == ASSUME ScannerInv, ScanOnce PROVE ScannerInv'
<1>1. StoreInv'
  BY StutterKeeps DEF ScannerInv, ScanOnce, storeVars
<1>2. /\ NewlyExpired \subseteq ListApprovals \ emitted
      /\ ListApprovals \subseteq Approvals
      /\ \A a \in ListApprovals : Listed(a)
      /\ \A a \in NewlyExpired : now >= rec[a].plan
  BY DEF NewlyExpired, ListApprovals
<1>3. ScannerTypes'
  <2>1. emitted' \subseteq Approvals
    BY <1>2 DEF ScanOnce
  <2>2. notices' \in [Approvals -> Nat]
    BY DEF ScanOnce, ScannerInv, ScannerTypes
  <2>3. crowded' \in BOOLEAN
    BY DEF ScanOnce, ScannerInv, ScannerTypes
  <2> QED
    BY <2>1, <2>2, <2>3 DEF ScannerTypes
<1>4. ASSUME NEW a \in Approvals, notices'[a] > 0
      PROVE  /\ rec'[a].state # "absent" /\ now' >= rec'[a].plan
             /\ ~crowded' => notices'[a] = 1 /\ (a \in emitted' \/ ~(Listed(a)'))
  <2>0. /\ rec' = rec /\ now' = now /\ (Listed(a)' <=> Listed(a))
        /\ notices[a] \in Nat
    BY DEF ScanOnce, Listed, Exists, ScannerInv, ScannerTypes
  <2>1. notices[a] > 0 =>
          /\ rec[a].state # "absent" /\ now >= rec[a].plan
          /\ ~crowded => notices[a] = 1 /\ (a \in emitted \/ ~Listed(a))
    BY DEF ScannerInv, AnnouncedInv
  <2>2. CASE a \in NewlyExpired
    <3>1. notices'[a] = notices[a] + 1 /\ a \in emitted'
      BY <2>2, <1>2 DEF ScanOnce
    <3>2. rec[a].state # "absent" /\ Listed(a) /\ a \notin emitted /\ now >= rec[a].plan
      BY <2>2, <1>2 DEF Listed, Exists
    <3>3. crowded => crowded'
      BY DEF ScanOnce
    <3> QED
      BY <3>1, <3>2, <3>3, <2>0, <2>1
  <2>3. CASE a \notin NewlyExpired
    <3>1. notices'[a] = notices[a]
      BY <2>3 DEF ScanOnce
    <3>2. ~crowded' => ~crowded /\ (Listed(a) => a \in ListApprovals)
      BY DEF ScanOnce
    <3>3. a \in emitted /\ a \in ListApprovals => a \in emitted'
      BY DEF ScanOnce
    <3> QED
      BY <3>1, <3>2, <3>3, <2>0, <2>1, <1>4
  <2> QED
    BY <2>2, <2>3
<1>5. PendingInv'
  BY DEF ScanOnce, ScannerInv, PendingInv
<1>6. SilentExpiry'
  <2> SUFFICES ASSUME Backend # "sqlite", NEW a \in Approvals PROVE notices'[a] = 0
    BY DEF SilentExpiry
  <2>1. Backend \in {"redis", "memory"}
    BY StoreAssumption DEF Backends
  <2>2. a \in NewlyExpired => Listed(a) /\ now >= rec[a].plan
    BY <1>2
  <2>3. Listed(a) => rec[a].state = "pending" /\ now < rec[a].expiresAt
    BY <2>1 DEF Listed, Exists
  <2>4. now \in Nat /\ rec[a].plan \in Nat
    BY DEF ScannerInv, StoreInv, StoreTypeOK, Record
  <2>5. rec[a].state = "pending" => rec[a].plan = rec[a].expiresAt
    BY DEF ScannerInv, PendingInv
  <2>6. a \notin NewlyExpired
    BY <2>2, <2>3, <2>4, <2>5
  <2> QED
    BY <2>6 DEF ScanOnce, ScannerInv, SilentExpiry
<1> QED
  BY <1>1, <1>3, <1>4, <1>5, <1>6 DEF ScannerInv, AnnouncedInv

LEMMA RestartScannerKeeps == ASSUME ScannerInv, RestartScanner PROVE ScannerInv'
<1>1. StoreInv'
  BY StutterKeeps DEF ScannerInv, RestartScanner, storeVars
<1>2. emitted' = {} /\ notices' = [a \in Approvals |-> 0] /\ crowded' = crowded /\ rec' = rec
  BY DEF RestartScanner
<1> QED
  BY <1>1, <1>2 DEF ScannerInv, ScannerTypes, AnnouncedInv, PendingInv, SilentExpiry

\* The inductive invariant of the expiry scanner (expiry.rs, scan_once) over the
\* approval store.
THEOREM ScannerInvariant == ScannerSpec => []ScannerInv
<1>1. ASSUME ScannerInv, [ScannerNext]_scannerVars PROVE ScannerInv'
  <2>1. CASE StoreStep
    BY <1>1, <2>1, StoreStepKeeps
  <2>2. CASE ScanOnce
    BY <1>1, <2>2, ScanKeeps
  <2>3. CASE RestartScanner
    BY <1>1, <2>3, RestartScannerKeeps
  <2>4. CASE UNCHANGED scannerVars
    <3>1. StoreInv'
      BY <1>1, <2>4, StutterKeeps DEF ScannerInv, scannerVars, storeVars
    <3> QED
      BY <1>1, <2>4, <3>1
      DEF ScannerInv, ScannerTypes, AnnouncedInv, scannerVars, Listed, Exists, PendingInv,
          SilentExpiry
  <2> QED
    BY <1>1, <2>1, <2>2, <2>3, <2>4 DEF ScannerNext
<1> QED
  BY <1>1, ScannerStarts, PTL DEF ScannerSpec

\* On Redis and in memory no expiry is ever announced (approval_redis.rs and
\* approval_inmemory.rs list no approval that has expired), whatever expiry.rs says.
THEOREM OnlySqliteAnnounces == ScannerSpec => []SilentExpiry
<1>1. ScannerInv => SilentExpiry
  BY DEF ScannerInv
<1> QED
  BY <1>1, ScannerInvariant, PTL

LEMMA ScannerGives == ScannerInv => ScannerSafe
BY DEF ScannerInv, ScannerTypes, AnnouncedInv, ScannerSafe, AnnouncedOnce, AnnouncedIsExpired

--------------------------------------------------------------------------------
(***************************************************************************)
(* Why the dispatcher keeps what it accepted, for any number of events,    *)
(* endpoints and retries and every capacity of the channel.  An event is   *)
(* emitted once, so it is in the channel at most once and has no task      *)
(* until it leaves it; what was queued when the shutdown was signalled has *)
(* its tasks when the drain ends, whatever is sent while they are joined.  *)
(***************************************************************************)

\* An event in the channel was accepted and is there once.
ChannelInv ==
    /\ \A e \in Queued : fate[e] = "queued"
    /\ \A i, j \in DOMAIN channel : channel[i] = channel[j] => i = j

\* The loop leaves its running phase after the signal, and what was queued then
\* has its tasks when the drain is over.
ShutdownInv ==
    /\ loop \in {"draining", "waiting", "returned"} => signal
    /\ ~signal => early = {}
    /\ \A e \in early : fate[e] = "queued"
    /\ loop \in {"waiting", "returned"} => \A e \in early : \A d \in Spawned(e) : task[d] # "none"

\* How many attempts a task has made.
AttemptInv ==
    \A d \in Pairs : /\ task[d] = "none" => attempt[d] = 0
                     /\ task[d] = "running" => attempt[d] <= TaskRetries

DispatcherInv ==
    /\ DispatcherTypeOK /\ DispatchedToSubscribers /\ AcceptedIsKept /\ GaveUpAfterRetries
    /\ ChannelInv /\ ShutdownInv /\ AttemptInv

LEMMA DispatcherStarts == DispatcherInit => DispatcherInv
<1> SUFFICES ASSUME DispatcherInit PROVE DispatcherInv
  OBVIOUS
<1> USE DispatcherAssumption
<1>1. DispatcherTypeOK
  <2>1. channel \in Seq(Events) /\ Len(channel) = 0
    BY DEF DispatcherInit
  <2>2. /\ fate \in [Events -> Fates] /\ loop = "running"
        /\ task \in [Pairs -> Tasks] /\ attempt \in [Pairs -> Nat]
        /\ received \subseteq Pairs /\ early \subseteq Events
    BY DEF DispatcherInit, Fates, Tasks
  <2>3. signal \in BOOLEAN
    BY DEF DispatcherInit
  <2> QED
    BY <2>1, <2>2, <2>3 DEF DispatcherTypeOK
<1>2. Queued = {}
  BY DEF DispatcherInit, Queued
<1> QED
  BY <1>1, <1>2 DEF DispatcherInit, DispatcherInv, DispatchedToSubscribers, AcceptedIsKept,
     GaveUpAfterRetries, ChannelInv, ShutdownInv, AttemptInv

LEMMA EmitKeeps == ASSUME DispatcherInv, NEW e \in Events, Emit(e) PROVE DispatcherInv'
<1> USE DispatcherAssumption
<1>0. DispatcherTypeOK /\ ChannelInv
  BY DEF DispatcherInv
<1>1. /\ fate' = [fate EXCEPT ![e] = SendResult] /\ fate[e] = "unsent" /\ loop # "dead"
      /\ SendResult \in {"closed", "full", "queued"}
      /\ SendResult = "queued" => Len(channel) < ChannelCapacity
      /\ UNCHANGED <<loop, signal, task, attempt, received, early>>
  BY <1>0 DEF Emit, SendResult, DispatcherTypeOK
<1>2. e \notin Queued
  BY <1>0, <1>1 DEF ChannelInv
<1>3. CASE SendResult = "queued"
  <2>1. channel' = Append(channel, e)
    BY <1>3 DEF Emit
  <2>2. /\ channel' \in Seq(Events) /\ Len(channel') = Len(channel) + 1
        /\ DOMAIN channel' = 1 .. Len(channel) + 1 /\ DOMAIN channel = 1 .. Len(channel)
        /\ \A i \in DOMAIN channel : channel'[i] = channel[i]
        /\ channel'[Len(channel) + 1] = e
        /\ Len(channel) \in Nat
    BY <2>1, <1>0 DEF DispatcherTypeOK
  <2>3. Queued' = Queued \cup {e}
    <3>1. \A x \in Queued : x \in Queued'
      BY <2>2 DEF Queued
    <3>2. e \in Queued'
      BY <2>2 DEF Queued
    <3>3. \A i \in DOMAIN channel' : i \in DOMAIN channel \/ i = Len(channel) + 1
      BY <2>2
    <3>4. \A x \in Queued' : x \in Queued \/ x = e
      BY <2>2, <3>3 DEF Queued
    <3> QED
      BY <3>1, <3>2, <3>4
  <2>4. DispatcherTypeOK'
    <3>1. Len(channel') <= ChannelCapacity
      BY <1>1, <1>3, <2>2
    <3>2. fate' \in [Events -> Fates]
      BY <1>0, <1>1 DEF DispatcherTypeOK, Fates
    <3> QED
      BY <1>0, <1>1, <2>2, <3>1, <3>2 DEF DispatcherTypeOK
  <2>5. ChannelInv'
    <3>1. \A x \in Queued' : fate'[x] = "queued"
      BY <1>0, <1>1, <1>3, <2>3 DEF ChannelInv, DispatcherTypeOK
    <3>2. \A i \in DOMAIN channel : channel[i] # e
      BY <1>2 DEF Queued
    <3>3. \A i, j \in DOMAIN channel' : channel'[i] = channel'[j] => i = j
      BY <1>0, <2>2, <3>2 DEF ChannelInv
    <3> QED
      BY <3>1, <3>3 DEF ChannelInv
  <2>6. DispatchedToSubscribers'
    BY <1>0, <1>1, <1>3, <2>3 DEF DispatcherInv, DispatchedToSubscribers, Pairs, DispatcherTypeOK
  <2>7. AcceptedIsKept'
    BY <1>0, <1>1, <1>3, <2>3 DEF DispatcherInv, AcceptedIsKept, DispatcherTypeOK, Spawned
  <2>8. ShutdownInv'
    BY <1>0, <1>1, <1>3 DEF DispatcherInv, ShutdownInv, DispatcherTypeOK, Spawned
  <2> QED
    BY <1>1, <2>4, <2>5, <2>6, <2>7, <2>8 DEF DispatcherInv, GaveUpAfterRetries, AttemptInv
<1>4. CASE SendResult # "queued"
  <2>1. channel' = channel /\ Queued' = Queued
    BY <1>4 DEF Emit, Queued
  <2>2. \A x \in Events : fate'[x] = "queued" <=> fate[x] = "queued"
    BY <1>0, <1>1, <1>4 DEF DispatcherTypeOK
  <2>3. Queued \subseteq Events /\ early \subseteq Events
    BY <1>0 DEF DispatcherTypeOK, Queued
  <2>4. DispatcherTypeOK'
    BY <1>0, <1>1, <2>1 DEF DispatcherTypeOK, Fates
  <2>5. ChannelInv'
    BY <1>0, <2>1, <2>2, <2>3 DEF ChannelInv
  <2>6. DispatchedToSubscribers'
    BY <1>1, <2>1, <2>2 DEF DispatcherInv, DispatchedToSubscribers, Pairs
  <2>7. AcceptedIsKept'
    BY <1>1, <2>1, <2>2 DEF DispatcherInv, AcceptedIsKept, Spawned
  <2>8. ShutdownInv'
    BY <1>1, <2>2, <2>3 DEF DispatcherInv, ShutdownInv, Spawned
  <2> QED
    BY <1>1, <2>4, <2>5, <2>6, <2>7, <2>8 DEF DispatcherInv, GaveUpAfterRetries, AttemptInv
<1> QED
  BY <1>3, <1>4

\* The event at the head leaves the channel and gets its tasks (ReceiveEvent and
\* DrainEvent alike).
LEMMA DispatchKeeps ==
    ASSUME DispatcherInv, channel # <<>>, DispatchEvent(Head(channel)), channel' = Tail(channel),
           UNCHANGED <<fate, loop, signal, attempt, received, early>>
    PROVE  DispatcherInv'
<1> USE DispatcherAssumption
<1>0. DispatcherTypeOK /\ ChannelInv
  BY DEF DispatcherInv
<1> DEFINE e == Head(channel)
<1>1. /\ e = channel[1] /\ e \in Events /\ Len(channel) \in Nat /\ Len(channel) >= 1
      /\ channel' \in Seq(Events) /\ Len(channel') = Len(channel) - 1
      /\ DOMAIN channel' = 1 .. Len(channel) - 1 /\ DOMAIN channel = 1 .. Len(channel)
      /\ \A i \in 1 .. Len(channel) - 1 : channel'[i] = channel[i + 1]
  <2>1. channel \in Seq(Events)
    BY <1>0 DEF DispatcherTypeOK
  <2> QED
    BY <2>1
<1> HIDE DEF e
<1>2. e \in Queued /\ fate[e] = "queued"
  BY <1>0, <1>1 DEF Queued, ChannelInv
<1>3. Queued' = Queued \ {e}
  <2>1. \A i \in DOMAIN channel : i # 1 => channel[i] # e
    BY <1>0, <1>1 DEF ChannelInv
  <2>2. \A x \in Queued \ {e} : x \in Queued'
    <3> SUFFICES ASSUME NEW x \in Queued, x # e PROVE x \in Queued'
      OBVIOUS
    <3>1. PICK i \in DOMAIN channel : x = channel[i]
      BY DEF Queued
    <3>2. i - 1 \in 1 .. Len(channel) - 1 /\ (i - 1) + 1 = i
      BY <3>1, <1>1
    <3>3. channel'[i - 1] = x
      BY <3>1, <3>2, <1>1
    <3> QED
      BY <3>2, <3>3, <1>1 DEF Queued
  <2>3. \A x \in Queued' : x \in Queued /\ x # e
    BY <2>1, <1>1 DEF Queued
  <2> QED
    BY <2>2, <2>3
<1>4. /\ task' = [d \in Pairs |-> IF d \in Spawned(e) THEN "running" ELSE task[d]]
      /\ fate' = fate /\ loop' = loop /\ signal' = signal /\ attempt' = attempt
      /\ received' = received /\ early' = early
  BY DEF DispatchEvent, e
<1>5. /\ Spawned(e) \subseteq Pairs
      /\ \A d \in Spawned(e) : d[1] = e /\ d[2] \in Subscribed[e] /\ task[d] = "none"
  <2>1. Spawned(e) \subseteq Pairs /\ \A d \in Spawned(e) : d[1] = e /\ d[2] \in Subscribed[e]
    BY <1>1 DEF Spawned, Pairs
  <2> QED
    BY <2>1, <1>2 DEF DispatcherInv, DispatchedToSubscribers
<1>6. DispatcherTypeOK'
  <2>1. task' \in [Pairs -> Tasks]
    BY <1>0, <1>4 DEF DispatcherTypeOK, Tasks, Running
  <2> QED
    BY <1>0, <1>1, <1>4, <2>1 DEF DispatcherTypeOK
<1>7. ChannelInv'
  <2>1. \A i, j \in DOMAIN channel' : channel'[i] = channel'[j] => i = j
    BY <1>0, <1>1 DEF ChannelInv
  <2> QED
    BY <1>0, <1>3, <1>4, <2>1 DEF ChannelInv
<1>8. DispatchedToSubscribers'
  BY <1>2, <1>3, <1>4, <1>5 DEF DispatcherInv, DispatchedToSubscribers
<1>9. \A x \in Events : \A d \in Spawned(x) : task[d] # "none" => task'[d] # "none"
  BY <1>4 DEF Spawned, Pairs
<1>10. AcceptedIsKept'
  <2> SUFFICES ASSUME NEW x \in Events, fate[x] = "queued", loop \in {"running", "draining"}
               PROVE  x \in Queued' \/ \A d \in Spawned(x) : task'[d] # "none"
    BY <1>4 DEF AcceptedIsKept, Spawned
  <2>1. x \in Queued \/ \A d \in Spawned(x) : task[d] # "none"
    BY DEF DispatcherInv, AcceptedIsKept
  <2>2. CASE x = e
    BY <2>2, <1>4, <1>5
  <2> QED
    BY <2>1, <2>2, <1>3, <1>9
<1>11. ShutdownInv'
  <2>1. early \subseteq Events
    BY <1>0 DEF DispatcherTypeOK
  <2> QED
    BY <2>1, <1>4, <1>9 DEF DispatcherInv, ShutdownInv, Spawned
<1>12. GaveUpAfterRetries' /\ AttemptInv'
  BY <1>4, <1>5 DEF DispatcherInv, GaveUpAfterRetries, AttemptInv
<1> QED
  BY <1>6, <1>7, <1>8, <1>10, <1>11, <1>12 DEF DispatcherInv

LEMMA SignalKeeps == ASSUME DispatcherInv, Shutdown PROVE DispatcherInv'
<1>1. Queued' = Queued /\ Queued \subseteq Events
  BY DEF Shutdown, Queued, DispatcherInv, DispatcherTypeOK
<1>2. DispatcherTypeOK'
  BY <1>1 DEF Shutdown, DispatcherInv, DispatcherTypeOK
<1>3. ShutdownInv'
  BY <1>1 DEF Shutdown, DispatcherInv, ShutdownInv, ChannelInv, DispatcherTypeOK
<1> QED
  BY <1>1, <1>2, <1>3 DEF Shutdown, DispatcherInv, DispatchedToSubscribers, AcceptedIsKept,
     GaveUpAfterRetries, ChannelInv, AttemptInv, Spawned

\* The loop goes on to its next phase with the channel as it was.
LEMMA PhaseKeeps ==
    ASSUME DispatcherInv, NoticeShutdown \/ DrainEnds PROVE DispatcherInv'
<1>1. /\ Queued' = Queued
      /\ UNCHANGED <<channel, fate, signal, task, attempt, received, early>>
  BY DEF NoticeShutdown, DrainEnds, Queued
<1>2. \/ loop = "running" /\ loop' = "draining" /\ signal
      \/ loop = "draining" /\ loop' = "waiting" /\ Queued = {}
  BY DEF NoticeShutdown, DrainEnds, Queued
<1>3. DispatcherTypeOK'
  BY <1>1, <1>2 DEF DispatcherInv, DispatcherTypeOK
<1>4. ShutdownInv'
  <2>1. ASSUME loop = "draining", Queued = {}
        PROVE  \A e \in early : \A d \in Spawned(e) : task[d] # "none"
    BY <2>1 DEF DispatcherInv, ShutdownInv, AcceptedIsKept, DispatcherTypeOK
  <2> QED
    BY <1>1, <1>2, <2>1 DEF DispatcherInv, ShutdownInv, Spawned
<1>5. AcceptedIsKept'
  BY <1>1, <1>2 DEF DispatcherInv, AcceptedIsKept, Spawned
<1> QED
  BY <1>1, <1>3, <1>4, <1>5 DEF DispatcherInv, DispatchedToSubscribers,
     GaveUpAfterRetries, ChannelInv, AttemptInv

\* The loop returns or the process dies: the channel goes, and tasks that still
\* run may be aborted.
LEMMA EndKeeps ==
    ASSUME DispatcherInv, AllJoined \/ DrainDeadline \/ GateDies PROVE DispatcherInv'
<1>1. /\ channel' = <<>> /\ UNCHANGED <<fate, signal, attempt, received, early>>
      /\ \/ loop = "waiting" /\ loop' = "returned"
         \/ loop' = "dead"
  BY DEF AllJoined, DrainDeadline, GateDies
<1>2. /\ task' \in [Pairs -> Tasks]
      /\ \A d \in Pairs : task'[d] = task[d] \/ (task[d] = "running" /\ task'[d] = "aborted")
  <2>1. \/ task' = task
        \/ task' = [d \in Pairs |-> IF d \in InFlight THEN "aborted" ELSE task[d]]
    BY DEF AllJoined, DrainDeadline, GateDies
  <2>2. task \in [Pairs -> Tasks] /\ "aborted" \in Tasks
    BY DEF DispatcherInv, DispatcherTypeOK, Tasks, Ended
  <2> QED
    BY <2>1, <2>2 DEF InFlight, Running
<1>3. Queued' = {}
  BY <1>1 DEF Queued
<1>4. DispatcherTypeOK'
  BY <1>1, <1>2, DispatcherAssumption DEF DispatcherInv, DispatcherTypeOK
<1>5. ShutdownInv'
  <2>1. \A e \in early : Spawned(e) \subseteq Pairs
    BY DispatcherAssumption DEF DispatcherInv, DispatcherTypeOK, Spawned, Pairs
  <2> QED
    BY <1>1, <1>2, <2>1 DEF DispatcherInv, ShutdownInv, Spawned
<1>6. DispatchedToSubscribers' /\ GaveUpAfterRetries' /\ AttemptInv'
  BY <1>1, <1>2, <1>3 DEF DispatcherInv, DispatchedToSubscribers, GaveUpAfterRetries, AttemptInv
<1>7. AcceptedIsKept' /\ ChannelInv'
  BY <1>1, <1>3 DEF AcceptedIsKept, ChannelInv
<1> QED
  BY <1>4, <1>5, <1>6, <1>7 DEF DispatcherInv

LEMMA AttemptKeeps ==
    ASSUME DispatcherInv, NEW d \in Pairs, NEW answer \in {"2xx", "permanent", "retryable"},
           NEW taken \in BOOLEAN, AttemptDelivery(d, answer, taken)
    PROVE  DispatcherInv'
<1> USE DispatcherAssumption
<1>0. DispatcherTypeOK
  BY DEF DispatcherInv
<1>1. /\ task[d] = "running" /\ task' = [task EXCEPT ![d] = NextTask(d, answer)]
      /\ attempt' = [attempt EXCEPT ![d] = attempt[d] + 1]
      /\ received' \subseteq received \cup {d}
      /\ UNCHANGED <<channel, fate, loop, signal, early>> /\ Queued' = Queued
  BY DEF AttemptDelivery, Queued
<1>2. /\ attempt[d] \in Nat /\ attempt[d] <= TaskRetries
      /\ NextTask(d, answer) \in Tasks \ {"none"}
      /\ NextTask(d, answer) = "running" => attempt[d] < TaskRetries
      /\ NextTask(d, answer) = "gave_up" => attempt[d] = TaskRetries
  BY <1>0, <1>1 DEF DispatcherInv, DispatcherTypeOK, AttemptInv, NextTask, Tasks, Running, Ended
<1>3. /\ task'[d] = NextTask(d, answer) /\ attempt'[d] = attempt[d] + 1
      /\ \A x \in Pairs : x # d => task'[x] = task[x] /\ attempt'[x] = attempt[x]
      /\ task' \in [Pairs -> Tasks] /\ attempt' \in [Pairs -> Nat]
  BY <1>0, <1>1, <1>2 DEF DispatcherTypeOK
<1>4. DispatcherTypeOK'
  BY <1>0, <1>1, <1>3 DEF DispatcherTypeOK
<1>5. \A x \in Pairs : task'[x] # "none" <=> task[x] # "none"
  BY <1>1, <1>2, <1>3
<1>6. DispatchedToSubscribers'
  BY <1>1, <1>5 DEF DispatcherInv, DispatchedToSubscribers
<1>7. \A e \in Events : Spawned(e) \subseteq Pairs
  BY DEF Spawned, Pairs
<1>8. AcceptedIsKept'
  BY <1>1, <1>5, <1>7 DEF DispatcherInv, AcceptedIsKept, Spawned
<1>9. ShutdownInv'
  BY <1>0, <1>1, <1>5, <1>7 DEF DispatcherInv, ShutdownInv, Spawned, DispatcherTypeOK
<1>10. GaveUpAfterRetries' /\ AttemptInv'
  BY <1>2, <1>3 DEF DispatcherInv, GaveUpAfterRetries, AttemptInv
<1> QED
  BY <1>1, <1>4, <1>6, <1>8, <1>9, <1>10 DEF DispatcherInv, ChannelInv

\* The inductive invariant of the webhook dispatcher (dispatcher.rs,
\* dispatch_loop and deliver_inner).
THEOREM DispatcherInvariant == DispatcherSpec => []DispatcherInv
<1>1. ASSUME DispatcherInv, [DispatcherNext]_dispatcherVars PROVE DispatcherInv'
  <2>1. CASE ReceiveEvent \/ DrainEvent
    BY <1>1, <2>1, DispatchKeeps DEF ReceiveEvent, DrainEvent
  <2>2. CASE NoticeShutdown \/ DrainEnds
    BY <1>1, <2>2, PhaseKeeps
  <2>3. CASE AllJoined \/ DrainDeadline \/ GateDies
    BY <1>1, <2>3, EndKeeps
  <2>4. CASE Shutdown
    BY <1>1, <2>4, SignalKeeps
  <2>5. CASE \E e \in Events : Emit(e)
    BY <1>1, <2>5, EmitKeeps
  <2>6. CASE \E d \in Pairs, answer \in {"2xx", "permanent", "retryable"}, taken \in BOOLEAN :
               AttemptDelivery(d, answer, taken)
    BY <1>1, <2>6, AttemptKeeps
  <2>7. CASE UNCHANGED dispatcherVars
    BY <1>1, <2>7 DEF dispatcherVars, DispatcherInv, DispatcherTypeOK, DispatchedToSubscribers,
       AcceptedIsKept, GaveUpAfterRetries, ChannelInv, ShutdownInv, AttemptInv, Queued, Spawned
  <2> QED
    BY <1>1, <2>1, <2>2, <2>3, <2>4, <2>5, <2>6, <2>7 DEF DispatcherNext, LoopStep
<1> QED
  BY <1>1, DispatcherStarts, PTL DEF DispatcherSpec

LEMMA DispatcherGives == DispatcherInv => DispatcherSafe
BY DEF DispatcherInv, DispatcherSafe, ShutdownInv, QueuedBeforeShutdownDispatched

\* Operators are told of an expiry once in a life of the gate and only when it happened,
\* and the dispatcher delivers what it accepted, also through a shutdown (expiry.rs,
\* dispatcher.rs): NoticesSafe for every value of the constants.
THEOREM NoticesAreSafe == ScannerSpec /\ DispatcherSpec => []NoticesSafe
<1>1. ScannerInv /\ DispatcherInv => NoticesSafe
  BY ScannerGives, DispatcherGives DEF NoticesSafe
<1> QED
  BY <1>1, ScannerInvariant, DispatcherInvariant, PTL
================================================================================
