----------------------------- MODULE CapsuleProofs -----------------------------
(***************************************************************************)
(* The safety properties of Capsule for any number of sessions, streams,   *)
(* saves, Stop writes and crashes.                                         *)
(*                                                                         *)
(* The revision counter is nowhere stored: it is the maximum over the      *)
(* session rows.  The invariant therefore says that the rows dominate the  *)
(* log they were loaded from (RowsCover), which holds because a session    *)
(* never leaves its key (SessionKeys), and that every key's rows have a    *)
(* maximum (HasLatest).  Identities link a written capsule to what its     *)
(* writer had read.                                                        *)
(***************************************************************************)
EXTENDS Capsule, SequenceTheorems, TLAPS

V2(i) == wal[i].cap.version = 2

\* A session that has written a version 2 capsule only writes such capsules, of
\* the same key, ever after.
SessionKeys ==
    \A i, j \in 1 .. Len(wal) :
        i < j /\ V2(i) /\ wal[i].session = wal[j].session =>
            V2(j) /\ wal[j].cap.key = wal[i].cap.key

\* The rows are at least as new as every batch they were loaded from ...
RowsCover ==
    \A i \in 1 .. loaded : V2(i) =>
        /\ rows[wal[i].session].version = 2
        /\ rows[wal[i].session].key = wal[i].cap.key
        /\ wal[i].cap.revision <= rows[wal[i].session].revision

\* ... and come from one of them.
RowsFromWal ==
    \A s \in Sessions : rows[s].version = 2 =>
        \E i \in 1 .. loaded : wal[i].session = s /\ wal[i].cap = rows[s]

HasLatest ==
    \A k \in Keys : KeyRows(k) # {} => \E s \in KeyRows(k) : IsLatest(s, k)

\* Handlers run when everything is loaded; answers are only under way then.
Served ==
    /\ phase = "serving" => loaded = Len(wal)
    /\ \A s \in Sessions : pending[s] # NoCapsule =>
         phase = "serving" /\ \E i \in 1 .. Len(wal) : wal[i].cap = pending[s]

\* Where the capsules with a given identity come from.
FromSave(c) == \E n \in Nat : n < saves /\ c.id = 2 * n + 1
FromQueue(c) == \E q \in 1 .. Len(queue) : c = queue[q].cap
Known(c) == FromSave(c) \/ FromQueue(c)

Identities ==
    /\ \A i \in 1 .. Len(wal) : V2(i) => Known(wal[i].cap)
    /\ \A q \in 1 .. Len(queue) : queue[q].cap.id = 2 * q
    /\ \A s \in Sessions : view[s] # NoCapsule => Known(view[s])
    /\ \A s \in Sessions, i \in 1 .. Len(wal) :
         V2(i) /\ wal[i].cap.id = view[s].id => wal[i].cap = view[s]

\* What a client has seen, and what a Stop write was prepared from, is in the log
\* or was taken back.
ViewOrigin ==
    \A s \in Sessions : view[s] # NoCapsule =>
        view[s].id \in retracted \/ \E i \in 1 .. Len(wal) : wal[i].cap = view[s]

Origin(w, i) ==
    /\ V2(i) /\ wal[i].cap.id = w.base
    /\ wal[i].cap.key = w.cap.key /\ wal[i].cap.revision = w.expected
    /\ wal[i].cap.state = "complete" /\ wal[i].cap.code = w.cap.code
         => w.cap.state # "invalidated"

QueueOrigin ==
    \A q \in 1 .. Len(queue) :
        \/ queue[q].expected = 0
        \/ queue[q].base \in retracted
        \/ \E i \in 1 .. Len(wal) : Origin(queue[q], i)

AckedSynced == \A a \in acked : \E i \in 1 .. synced : V2(i) /\ wal[i].cap.id = a

LogInv == RevisionsIncrease /\ SessionKeys /\ AppliedOnce
RowInv == RowsCover /\ RowsFromWal /\ HasLatest /\ Served
LinkInv == Identities /\ ViewOrigin /\ QueueOrigin /\ AckedSynced
BaseInv == ReplacesWhatWasRead /\ StopKeepsMilestone

\* The inductive invariant.
IInv == TypeOK /\ LogInv /\ RowInv /\ LinkInv /\ BaseInv

-------------------------------------------------------------------------------
(* Facts about capsules and the latest one of a key.                       *)

\* What tells written capsules from the two defaults.
LEMMA CapFacts ==
    /\ NoCapsule.version = 0 /\ NoCapsule.id = 0 /\ NoCapsule.revision = 0
    /\ NoCapsule.key = NoKey /\ NoCapsule.state = "missing"
    /\ Legacy.version = 1 /\ Legacy.id = 0
    /\ \A c \in Capsules : /\ c.version = 2 /\ c.key \in Keys /\ c.revision \in Nat \ {0}
                           /\ c.id \in Nat \ {0} /\ c.state \in States /\ c # NoCapsule
                           /\ c # Legacy
    /\ NoCapsule # Legacy
  BY DEF NoCapsule, Legacy, Capsules

\* The parts of a batch, and of a prepared write.
LEMMA BatchFacts ==
    ASSUME TypeOK
    PROVE  /\ \A i \in 1 .. Len(wal) :
                /\ wal[i] \in Batches /\ wal[i].session \in Sessions
                /\ wal[i].cap \in Capsules \cup {Legacy} /\ wal[i].base \in Nat
                /\ V2(i) => wal[i].cap \in Capsules
           /\ \A q \in 1 .. Len(queue) :
                /\ queue[q].session \in Sessions /\ queue[q].cap \in Capsules
                /\ queue[q].base \in Nat /\ queue[q].expected \in Nat
           /\ Len(wal) \in Nat /\ Len(queue) \in Nat
           /\ DOMAIN wal = 1 .. Len(wal)
  <1>1. wal \in Seq(Batches) /\ queue \in Seq(Prepared)
    BY DEF TypeOK
  <1>2. Len(wal) \in Nat /\ Len(queue) \in Nat /\ DOMAIN wal = 1 .. Len(wal)
    BY <1>1
  <1>3. ASSUME NEW i \in 1 .. Len(wal)
        PROVE  /\ wal[i] \in Batches /\ wal[i].session \in Sessions
               /\ wal[i].cap \in Capsules \cup {Legacy} /\ wal[i].base \in Nat
               /\ V2(i) => wal[i].cap \in Capsules
    <2>1. wal[i] \in Batches
      BY <1>1
    <2>2. wal[i].session \in Sessions /\ wal[i].cap \in Capsules \cup {Legacy} /\ wal[i].base \in Nat
      BY <2>1 DEF Batches
    <2> QED BY <2>1, <2>2, CapFacts DEF V2
  <1>4. ASSUME NEW q \in 1 .. Len(queue)
        PROVE  /\ queue[q].session \in Sessions /\ queue[q].cap \in Capsules
               /\ queue[q].base \in Nat /\ queue[q].expected \in Nat
    <2>1. queue[q] \in Prepared
      BY <1>1
    <2> QED BY <2>1 DEF Prepared
  <1> QED BY <1>2, <1>3, <1>4

\* The parts of the tables.
LEMMA RowFacts ==
    ASSUME TypeOK, NEW s \in Sessions
    PROVE  /\ rows[s] \in Capsules \cup {NoCapsule, Legacy}
           /\ rows[s].version = 2 => rows[s] \in Capsules
           /\ view[s] \in Capsules \cup {NoCapsule}
           /\ pending[s] \in Capsules \cup {NoCapsule}
  <1>1. /\ rows[s] \in Capsules \cup {NoCapsule, Legacy}
        /\ view[s] \in Capsules \cup {NoCapsule}
        /\ pending[s] \in Capsules \cup {NoCapsule}
    BY DEF TypeOK
  <1> QED BY <1>1, CapFacts

\* latest_by_key returns a row of the key, and no row of the key is newer.
LEMMA LatestFacts ==
    ASSUME TypeOK, HasLatest, NEW k \in Keys
    PROVE  /\ Latest(k) \in Capsules \cup {NoCapsule}
           /\ Latest(k).revision \in Nat
           /\ \A s \in KeyRows(k) : rows[s].revision <= Latest(k).revision
           /\ Latest(k) # NoCapsule => \E s \in KeyRows(k) : Latest(k) = rows[s]
  <1>1. CASE KeyRows(k) = {}
    BY <1>1, CapFacts DEF Latest
  <1>2. CASE KeyRows(k) # {}
    <2> DEFINE l == CHOOSE s \in KeyRows(k) : IsLatest(s, k)
    <2>1. l \in KeyRows(k) /\ IsLatest(l, k)
      BY <1>2 DEF HasLatest
    <2>2. Latest(k) = rows[l]
      BY <1>2 DEF Latest
    <2>3. rows[l] \in Capsules
      BY <2>1, RowFacts DEF KeyRows
    <2> QED BY <2>1, <2>2, <2>3, CapFacts DEF IsLatest
  <1> QED BY <1>1, <1>2

\* While handlers run, no batch of a key is newer than its latest capsule.
LEMMA LatestCoversLog ==
    ASSUME TypeOK, RowInv, phase = "serving", NEW k \in Keys,
           NEW i \in 1 .. Len(wal), V2(i), wal[i].cap.key = k
    PROVE  wal[i].cap.revision <= Latest(k).revision
  <1>1. wal[i].session \in Sessions
    BY BatchFacts
  <1>2. wal[i].cap \in Capsules
    BY BatchFacts
  <1>3. /\ rows[wal[i].session].version = 2
        /\ rows[wal[i].session].key = k
        /\ wal[i].cap.revision <= rows[wal[i].session].revision
    BY DEF RowInv, Served, RowsCover
  <1>4. wal[i].session \in KeyRows(k)
    BY <1>1, <1>3 DEF KeyRows
  <1>5. rows[wal[i].session] \in Capsules
    BY <1>1, <1>3, RowFacts
  <1>6. rows[wal[i].session].revision <= Latest(k).revision /\ Latest(k).revision \in Nat
    BY <1>4, LatestFacts DEF RowInv
  <1> QED BY <1>2, <1>3, <1>5, <1>6, CapFacts

-------------------------------------------------------------------------------
(* Type correctness.                                                       *)

\* What an accepted write does to the log.
LEMMA WriteFacts ==
    ASSUME TypeOK, NEW s \in Sessions, NEW cap \in Capsules \cup {Legacy}, NEW base \in Nat,
           Write(s, cap, base), phase = "serving", Served
    PROVE  /\ wal' \in Seq(Batches)
           /\ Len(wal') = Len(wal) + 1
           /\ \A i \in 1 .. Len(wal) : wal'[i] = wal[i]
           /\ wal'[Len(wal) + 1] = [session |-> s, cap |-> cap, base |-> base]
           /\ rows' \in [Sessions -> Capsules \cup {NoCapsule, Legacy}]
           /\ rows'[s] = cap
           /\ \A t \in Sessions \ {s} : rows'[t] = rows[t]
           /\ loaded = Len(wal) /\ loaded' = Len(wal')
           /\ synced \in 0 .. Len(wal')
  <1>1. [session |-> s, cap |-> cap, base |-> base] \in Batches
    BY DEF Batches
  <1>2. wal \in Seq(Batches)
    BY DEF TypeOK
  <1>3. /\ wal' \in Seq(Batches)
        /\ Len(wal') = Len(wal) + 1
        /\ \A i \in 1 .. Len(wal) : wal'[i] = wal[i]
        /\ wal'[Len(wal) + 1] = [session |-> s, cap |-> cap, base |-> base]
    BY <1>1, <1>2, AppendProperties DEF Write
  <1>4. loaded = Len(wal) /\ loaded' = Len(wal')
    BY <1>3 DEF Served, Write
  <1>5. synced \in 0 .. Len(wal')
    BY <1>3, BatchFacts DEF TypeOK
  <1> QED BY <1>3, <1>4, <1>5 DEF Write, TypeOK

LEMMA TypeStep == TypeOK /\ HasLatest /\ Served /\ [Next]_vars => TypeOK'
  <1> SUFFICES ASSUME TypeOK, HasLatest, Served, [Next]_vars PROVE TypeOK'
    OBVIOUS
  <1>1. ASSUME NEW s \in Sessions, NEW k \in Keys, Look(s, k)
        PROVE  /\ view' \in [Sessions -> Capsules \cup {NoCapsule}]
               /\ Latest(k).id \in Nat
    BY <1>1, LatestFacts, CapFacts DEF TypeOK, Look
  <1>2. ASSUME NEW s \in Sessions, NEW k \in Keys, Get(s, k) PROVE TypeOK'
    <2>1. acked' \subseteq Nat
      BY <1>1, <1>2 DEF TypeOK, Get
    <2>2. synced' \in 0 .. Len(wal) /\ wal' = wal
      BY <1>2, BatchFacts DEF Get, Look
    <2>3. view' \in [Sessions -> Capsules \cup {NoCapsule}]
      BY <1>1, <1>2 DEF Get
    <2> QED BY <1>2, <2>1, <2>2, <2>3 DEF TypeOK, Get, Look
  <1>3. ASSUME NEW s \in Sessions, NEW k \in Keys, Context(s, k) PROVE TypeOK'
    BY <1>1, <1>3 DEF TypeOK, Context, Look
  <1>4. ASSUME NEW s \in Sessions, NEW k \in Keys, NEW st \in SaveStates, NEW c \in CodeStates,
               Save(s, k, st, c)
        PROVE  TypeOK'
    <2> DEFINE cap == [version |-> 2, key |-> k, revision |-> NextRevision(s, k),
                       state |-> st, code |-> c, id |-> SaveId]
    <2>1. NextRevision(s, k) \in Nat \ {0} /\ SaveId \in Nat \ {0}
      BY LatestFacts DEF NextRevision, SaveId, TypeOK
    <2>2. cap \in Capsules
      BY <2>1, CapsuleAssumption DEF Capsules, States
    <2>3. Seen(s, k).id \in Nat
      BY RowFacts, CapFacts DEF Seen
    <2>4. Write(s, cap, Seen(s, k).id) /\ phase = "serving"
      BY <1>4 DEF Save, Idle
    <2> HIDE DEF cap
    <2>5. /\ wal' \in Seq(Batches) /\ loaded' = Len(wal') /\ synced \in 0 .. Len(wal')
          /\ rows' \in [Sessions -> Capsules \cup {NoCapsule, Legacy}]
          /\ Len(wal') = Len(wal) + 1
      BY <2>2, <2>3, <2>4, WriteFacts
    <2>6. pending' \in [Sessions -> Capsules \cup {NoCapsule}]
      BY <1>4, <2>2 DEF TypeOK, Save, cap
    <2> QED BY <1>4, <2>5, <2>6, BatchFacts DEF TypeOK, Save
  <1>5. ASSUME NEW s \in Sessions, NEW k \in Keys, NEW c \in CodeStates, NEW next \in BOOLEAN,
               Stop(s, k, c, next)
        PROVE  TypeOK'
    <2> DEFINE cap == [version |-> 2, key |-> k, revision |-> Latest(k).revision + 1,
                       state |-> PreparedState(Latest(k), c, next), code |-> c, id |-> StopId]
               w == [session |-> s, cap |-> cap, base |-> Latest(k).id,
                     expected |-> Latest(k).revision]
    <2>1. Latest(k).revision \in Nat /\ Latest(k).id \in Nat /\ StopId \in Nat \ {0}
      BY LatestFacts, CapFacts, BatchFacts DEF StopId
    <2>2. PreparedState(Latest(k), c, next) \in States
      BY DEF PreparedState, States
    <2>3. cap \in Capsules
      BY <2>1, <2>2 DEF Capsules
    <2> HIDE DEF cap
    <2>4. w \in Prepared
      BY <2>1, <2>3 DEF Prepared
    <2>5. queue' = Append(queue, w)
      BY <1>5 DEF Stop, cap
    <2> HIDE DEF w
    <2>6. queue \in Seq(Prepared)
      BY DEF TypeOK
    <2>7. queue' \in Seq(Prepared) /\ Len(queue') = Len(queue) + 1
      BY <2>4, <2>5, <2>6, AppendProperties
    <2>8. taken \in 0 .. Len(queue')
      BY <2>7, BatchFacts DEF TypeOK
    <2> QED BY <1>5, <2>7, <2>8 DEF TypeOK, Stop
  <1>6. ASSUME NEW s \in Sessions, BindLegacy(s) PROVE TypeOK'
    <2>1. Write(s, Legacy, 0) /\ phase = "serving"
      BY <1>6 DEF BindLegacy, Idle
    <2>2. /\ wal' \in Seq(Batches) /\ loaded' = Len(wal') /\ synced \in 0 .. Len(wal')
          /\ rows' \in [Sessions -> Capsules \cup {NoCapsule, Legacy}]
          /\ Len(wal') = Len(wal) + 1
      BY <2>1, WriteFacts
    <2> QED BY <1>6, <2>2, BatchFacts DEF TypeOK, BindLegacy
  <1>7. ASSUME NEW s \in Sessions, Answer(s) PROVE TypeOK'
    <2>1. pending[s].id \in Nat
      BY RowFacts, CapFacts
    <2>2. acked' \subseteq Nat
      BY <1>7, <2>1 DEF TypeOK, Answer
    <2>3. synced' \in 0 .. Len(wal) /\ wal' = wal
      BY <1>7, BatchFacts DEF Answer, SyncForAnswer
    <2> QED BY <1>7, <2>2, <2>3 DEF TypeOK, Answer, Deliver
  <1>8. ASSUME NEW s \in Sessions, AnswerUnsynced(s) PROVE TypeOK'
    BY <1>8 DEF TypeOK, AnswerUnsynced, Deliver
  <1>9. CASE Apply
    <2> DEFINE w == queue[taken + 1]
    <2>1. taken + 1 \in 1 .. Len(queue)
      BY <1>9, BatchFacts DEF Apply, TypeOK
    <2>2. w.session \in Sessions /\ w.cap \in Capsules /\ w.base \in Nat
      BY <2>1, BatchFacts
    <2>3. Write(w.session, w.cap, w.base) /\ phase = "serving"
      BY <1>9 DEF Apply
    <2>4. /\ wal' \in Seq(Batches) /\ loaded' = Len(wal') /\ synced \in 0 .. Len(wal')
          /\ rows' \in [Sessions -> Capsules \cup {NoCapsule, Legacy}]
          /\ Len(wal') = Len(wal) + 1
      BY <2>2, <2>3, WriteFacts
    <2> QED BY <1>9, <2>1, <2>4, BatchFacts DEF TypeOK, Apply
  <1>10. CASE Refuse
    BY <1>10, BatchFacts DEF TypeOK, Refuse
  <1>11. CASE Checkpoint
    BY <1>11, BatchFacts DEF TypeOK, Checkpoint
  <1>12. CASE Crash
    <2>1. PICK n \in synced .. Len(wal) :
            /\ wal' = SubSeq(wal, 1, n)
            /\ retracted' = retracted \cup {wal[i].cap.id : i \in Versioned \ (1 .. n)}
      BY <1>12 DEF Crash
    <2>2. n \in Nat /\ n <= Len(wal) /\ synced \in 0 .. n
      BY BatchFacts DEF TypeOK
    <2>3. wal' \in Seq(Batches) /\ Len(wal') = n
      BY <2>1, <2>2, BatchFacts, SubSeqProperties
    <2>4. \A i \in Versioned : wal[i].cap.id \in Nat
      BY BatchFacts, CapFacts DEF Versioned
    <2>5. retracted' \subseteq Nat
      BY <2>1, <2>4 DEF TypeOK
    <2>6. /\ pending' \in [Sessions -> Capsules \cup {NoCapsule}]
          /\ rows' \in [Sessions -> Capsules \cup {NoCapsule, Legacy}]
          /\ loaded' \in 0 .. Len(wal') /\ synced' \in 0 .. Len(wal')
      BY <1>12, <2>2, <2>3 DEF Crash
    <2>7. taken' \in 0 .. Len(queue') /\ offset' \in 0 .. taken'
      BY <1>12, BatchFacts DEF Crash, TypeOK
    <2> QED BY SMTT(30), <1>12, <2>3, <2>5, <2>6, <2>7 DEF TypeOK, Crash
  <1>13. CASE Replay
    <2>1. loaded + 1 \in 1 .. Len(wal)
      BY <1>13, BatchFacts DEF Replay, TypeOK
    <2>2. wal[loaded + 1].cap \in Capsules \cup {Legacy}
      BY <2>1, BatchFacts
    <2> QED BY <1>13, <2>1, <2>2, BatchFacts DEF TypeOK, Replay
  <1>14. CASE Publish
    BY <1>14 DEF TypeOK, Publish
  <1>15. CASE UNCHANGED vars
    BY <1>15 DEF TypeOK, vars
  <1> QED
    BY <1>2, <1>3, <1>4, <1>5, <1>6, <1>7, <1>8, <1>9, <1>10, <1>11, <1>12, <1>13, <1>14, <1>15
       DEF Next

-------------------------------------------------------------------------------
(* The log and the rows.                                                   *)

TableInv == TypeOK /\ LogInv /\ RowInv

\* An accepted version 2 write with a fresh identity.
LEMMA LogWrite ==
    ASSUME TableInv, NEW s \in Sessions, NEW cap \in Capsules, NEW base \in Nat,
           Write(s, cap, base), phase = "serving", KeyKept(s, cap.key),
           cap.revision = Latest(cap.key).revision + 1,
           \A i \in 1 .. Len(wal) : V2(i) => wal[i].cap.id # cap.id
    PROVE  LogInv' /\ RowsCover' /\ RowsFromWal' /\ HasLatest'
  <1> DEFINE L == Len(wal)
             k == cap.key
  <1>a. TypeOK /\ LogInv /\ RowInv /\ Served /\ HasLatest
    BY DEF TableInv, RowInv
  <1>b. k \in Keys /\ cap.version = 2 /\ cap.revision \in Nat /\ cap.id \in Nat \ {0}
    BY CapFacts
  <1>c. /\ Len(wal') = L + 1 /\ L \in Nat
        /\ \A i \in 1 .. L : wal'[i] = wal[i]
        /\ wal'[L + 1] = [session |-> s, cap |-> cap, base |-> base]
        /\ rows'[s] = cap
        /\ \A t \in Sessions \ {s} : rows'[t] = rows[t]
        /\ loaded = L /\ loaded' = L + 1
        /\ wal' \in Seq(Batches)
    BY <1>a, WriteFacts, BatchFacts
  <1>d. DOMAIN wal' = 1 .. L + 1 /\ DOMAIN wal = 1 .. L
    BY <1>a, <1>c, BatchFacts
  <1>e. /\ \A i \in 1 .. L : i # L + 1 /\ i \in 1 .. L + 1
        /\ \A i \in 1 .. L + 1 : i \in 1 .. L \/ i = L + 1
        /\ L + 1 \in 1 .. L + 1
    BY <1>c
  <1>f. wal'[L + 1].session = s /\ wal'[L + 1].cap = cap
    BY <1>c
  <1>g. \A i \in 1 .. L : V2(i) /\ wal[i].cap.key = k => wal[i].cap.revision < cap.revision
    <2> TAKE i \in 1 .. L
    <2> HAVE V2(i) /\ wal[i].cap.key = k
    <2>1. wal[i].cap.revision <= Latest(k).revision
      BY <1>a, <1>b, LatestCoversLog
    <2>2. Latest(k).revision \in Nat
      BY <1>a, <1>b, LatestFacts
    <2>3. wal[i].cap.revision \in Nat
      BY <1>a, BatchFacts, CapFacts
    <2> QED BY <2>1, <2>2, <2>3
  <1> HIDE DEF L, k
  <1>1. RevisionsIncrease'
    BY SMTT(30), <1>a, <1>b, <1>c, <1>d, <1>e, <1>f, <1>g DEF RevisionsIncrease, SameKey, LogInv, V2, k
  <1>2. SessionKeys'
    <2> SUFFICES ASSUME NEW i \in 1 .. L + 1, NEW j \in 1 .. L + 1,
                        i < j, V2(i)', wal'[i].session = wal'[j].session
                 PROVE  V2(j)' /\ wal'[j].cap.key = wal'[i].cap.key
      BY <1>c DEF SessionKeys
    <2>1. i \in 1 .. L
      BY <1>c, <1>e
    <2>2. V2(i) /\ wal'[i] = wal[i]
      BY <1>c, <2>1 DEF V2
    <2>3. CASE j \in 1 .. L
      BY <1>a, <1>c, <2>1, <2>2, <2>3 DEF LogInv, SessionKeys, V2, L
    <2>4. CASE j = L + 1
      <3>1. wal[i].session = s
        BY <1>f, <2>2, <2>4
      <3>2. rows[s].version = 2 /\ rows[s].key = wal[i].cap.key
        BY <1>a, <1>c, <2>1, <2>2, <3>1 DEF RowInv, RowsCover
      <3> QED BY <1>b, <1>f, <2>2, <2>4, <3>2 DEF KeyKept, V2, k
    <2> QED BY <1>e, <2>3, <2>4
  <1>3. AppliedOnce'
    <2> SUFFICES ASSUME NEW i \in 1 .. L + 1, NEW j \in 1 .. L + 1,
                        i # j, V2(i)'
                 PROVE  wal'[i].cap.id # wal'[j].cap.id
      BY <1>d DEF AppliedOnce, V2
    <2>1. CASE i \in 1 .. L /\ j \in 1 .. L
      BY <1>a, <1>c, <1>d, <2>1 DEF LogInv, AppliedOnce, V2
    <2>2. CASE i \in 1 .. L /\ j = L + 1
      BY <1>c, <1>f, <2>2 DEF V2, L
    <2>3. CASE i = L + 1 /\ j \in 1 .. L
      <3>1. CASE V2(j)
        BY <1>c, <1>f, <2>3, <3>1 DEF L
      <3>2. CASE ~V2(j)
        <4>1. wal[j].cap = Legacy
          BY <1>a, <2>3, <3>2, BatchFacts, CapFacts DEF V2, L
        <4> QED BY <1>b, <1>c, <1>f, <2>3, <4>1, CapFacts
      <3> QED BY <3>1, <3>2
    <2> QED BY <1>e, <2>1, <2>2, <2>3
  <1>4. RowsCover'
    <2> SUFFICES ASSUME NEW i \in 1 .. L + 1, V2(i)'
                 PROVE  /\ rows'[wal'[i].session].version = 2
                        /\ rows'[wal'[i].session].key = wal'[i].cap.key
                        /\ wal'[i].cap.revision <= rows'[wal'[i].session].revision
      BY <1>c DEF RowsCover
    <2>1. CASE i = L + 1
      BY <1>b, <1>c, <1>f, <2>1
    <2>2. CASE i \in 1 .. L
      <3>1. V2(i) /\ wal'[i] = wal[i] /\ wal[i].session \in Sessions
        BY <1>a, <1>c, <2>2, BatchFacts DEF V2, L
      <3>2. /\ rows[wal[i].session].version = 2
            /\ rows[wal[i].session].key = wal[i].cap.key
            /\ wal[i].cap.revision <= rows[wal[i].session].revision
        BY <1>a, <1>c, <2>2, <3>1 DEF RowInv, RowsCover
      <3>3. CASE wal[i].session # s
        BY <1>c, <3>1, <3>2, <3>3
      <3>4. CASE wal[i].session = s
        <4>1. wal[i].cap.key = k
          BY <3>2, <3>4 DEF KeyKept, k
        <4>2. wal[i].cap.revision < cap.revision /\ wal[i].cap.revision \in Nat
          BY <1>a, <1>g, <2>2, <3>1, <4>1, BatchFacts, CapFacts DEF L
        <4> QED BY <1>b, <1>c, <3>1, <3>4, <4>1, <4>2 DEF k
      <3> QED BY <3>3, <3>4
    <2> QED BY <1>e, <2>1, <2>2
  <1>5. RowsFromWal'
    <2> SUFFICES ASSUME NEW t \in Sessions, rows'[t].version = 2
                 PROVE  \E i \in 1 .. L + 1 : wal'[i].session = t /\ wal'[i].cap = rows'[t]
      BY <1>c DEF RowsFromWal
    <2>1. CASE t = s
      BY <1>c, <1>e, <1>f, <2>1
    <2>2. CASE t # s
      <3>1. rows[t] = rows'[t]
        BY <1>c, <2>2
      <3>2. PICK i \in 1 .. L : wal[i].session = t /\ wal[i].cap = rows[t]
        BY <1>a, <1>c, <3>1 DEF RowInv, RowsFromWal
      <3> QED BY <1>c, <1>e, <3>1, <3>2
    <2> QED BY <2>1, <2>2
  <1>6. HasLatest'
    <2> SUFFICES ASSUME NEW x \in Keys, KeyRows(x)' # {}
                 PROVE  \E t \in KeyRows(x)' : IsLatest(t, x)'
      BY DEF HasLatest
    <2>1. CASE x = k
      <3>1. s \in KeyRows(k)'
        BY <1>b, <1>c DEF KeyRows, k
      <3>2. ASSUME NEW t \in KeyRows(k)' PROVE rows'[t].revision <= rows'[s].revision
        <4>1. CASE t = s
          BY <1>b, <1>c, <4>1
        <4>2. CASE t # s
          <5>1. t \in Sessions /\ rows'[t] = rows[t]
            BY <1>c, <3>2, <4>2 DEF KeyRows
          <5>2. t \in KeyRows(k)
            BY <3>2, <5>1 DEF KeyRows
          <5>3. rows[t].revision <= Latest(k).revision /\ Latest(k).revision \in Nat
            BY <1>a, <1>b, <5>2, LatestFacts
          <5>4. rows[t].revision \in Nat
            BY <1>a, <5>2, RowFacts, CapFacts DEF KeyRows
          <5> QED BY <1>c, <5>1, <5>3, <5>4 DEF k
        <4> QED BY <4>1, <4>2
      <3> QED BY <2>1, <3>1, <3>2 DEF IsLatest
    <2>2. CASE x # k
      <3>1. s \notin KeyRows(x) /\ s \notin KeyRows(x)'
        BY <1>c, <2>2 DEF KeyRows, KeyKept, k
      <3>2. KeyRows(x)' = KeyRows(x)
        BY <1>c, <3>1 DEF KeyRows
      <3>3. PICK t \in KeyRows(x) : IsLatest(t, x)
        BY <1>a, <3>2 DEF HasLatest
      <3>4. \A u \in KeyRows(x) : rows'[u] = rows[u]
        BY <1>c, <3>1 DEF KeyRows
      <3> QED BY <3>2, <3>3, <3>4 DEF IsLatest
    <2> QED BY <2>1, <2>2
  <1> QED BY <1>1, <1>2, <1>3, <1>4, <1>5, <1>6 DEF LogInv

\* An unversioned write: it adds no version 2 batch and replaces no such row.
LEMMA LogLegacy ==
    ASSUME TableInv, NEW s \in Sessions, BindLegacy(s)
    PROVE  LogInv' /\ RowsCover' /\ RowsFromWal' /\ HasLatest'
  <1> DEFINE L == Len(wal)
  <1>a. TypeOK /\ LogInv /\ RowInv /\ Served /\ HasLatest
    BY DEF TableInv, RowInv
  <1>b. /\ Write(s, Legacy, 0) /\ phase = "serving" /\ rows[s].version # 2
    BY DEF BindLegacy, Idle
  <1>c. /\ Len(wal') = L + 1 /\ L \in Nat
        /\ \A i \in 1 .. L : wal'[i] = wal[i]
        /\ wal'[L + 1] = [session |-> s, cap |-> Legacy, base |-> 0]
        /\ rows'[s] = Legacy
        /\ \A t \in Sessions \ {s} : rows'[t] = rows[t]
        /\ loaded = L /\ loaded' = L + 1
        /\ wal' \in Seq(Batches)
    BY <1>a, <1>b, WriteFacts, BatchFacts
  <1>d. DOMAIN wal' = 1 .. L + 1 /\ DOMAIN wal = 1 .. L
    BY <1>a, <1>c, BatchFacts
  <1>e. /\ \A i \in 1 .. L : i \in 1 .. L + 1
        /\ \A i \in 1 .. L + 1 : i \in 1 .. L \/ i = L + 1
    BY <1>c
  <1>f. /\ wal'[L + 1].cap.version # 2 /\ wal'[L + 1].cap.id = 0 /\ rows'[s].version # 2
        /\ wal'[L + 1].session = s
    BY <1>c, CapFacts DEF V2
  <1>g. \A i \in 1 .. L + 1 : V2(i)' => i \in 1 .. L /\ V2(i) /\ wal'[i] = wal[i]
    BY <1>c, <1>e, <1>f DEF V2
  <1>h. \A i \in 1 .. L : V2(i) => wal[i].session \in Sessions \ {s}
    BY <1>a, <1>b, <1>c, BatchFacts DEF RowInv, RowsCover
  <1> HIDE DEF L
  <1>1. RevisionsIncrease'
    BY <1>a, <1>d, <1>g DEF RevisionsIncrease, SameKey, LogInv, V2
  <1>2. SessionKeys'
    <2> SUFFICES ASSUME NEW i \in 1 .. L + 1, NEW j \in 1 .. L + 1,
                        i < j, V2(i)', wal'[i].session = wal'[j].session
                 PROVE  V2(j)' /\ wal'[j].cap.key = wal'[i].cap.key
      BY <1>c DEF SessionKeys
    <2>1. i \in 1 .. L /\ V2(i) /\ wal'[i] = wal[i]
      BY <1>g
    <2>2. j # L + 1
      BY <1>f, <1>h, <2>1
    <2> QED BY <1>a, <1>c, <1>e, <2>1, <2>2 DEF LogInv, SessionKeys, V2, L
  <1>3. AppliedOnce'
    <2> SUFFICES ASSUME NEW i \in 1 .. L + 1, NEW j \in 1 .. L + 1,
                        i # j, V2(i)'
                 PROVE  wal'[i].cap.id # wal'[j].cap.id
      BY <1>d DEF AppliedOnce, V2
    <2>1. i \in 1 .. L /\ V2(i) /\ wal'[i] = wal[i]
      BY <1>g
    <2>2. CASE j \in 1 .. L
      BY <1>a, <1>c, <1>d, <2>1, <2>2 DEF LogInv, AppliedOnce, V2
    <2>3. CASE j = L + 1
      <3>1. wal[i].cap.id # 0
        BY <1>a, <2>1, BatchFacts, CapFacts DEF L
      <3> QED BY <1>f, <2>1, <2>3, <3>1
    <2> QED BY <1>e, <2>2, <2>3
  <1>4. RowsCover'
    <2> SUFFICES ASSUME NEW i \in 1 .. L + 1, V2(i)'
                 PROVE  /\ rows'[wal'[i].session].version = 2
                        /\ rows'[wal'[i].session].key = wal'[i].cap.key
                        /\ wal'[i].cap.revision <= rows'[wal'[i].session].revision
      BY <1>c DEF RowsCover
    <2>1. i \in 1 .. L /\ V2(i) /\ wal'[i] = wal[i] /\ wal[i].session \in Sessions \ {s}
      BY <1>g, <1>h
    <2> QED BY <1>a, <1>c, <2>1 DEF RowInv, RowsCover
  <1>5. RowsFromWal'
    <2> SUFFICES ASSUME NEW t \in Sessions, rows'[t].version = 2
                 PROVE  \E i \in 1 .. L + 1 : wal'[i].session = t /\ wal'[i].cap = rows'[t]
      BY <1>c DEF RowsFromWal
    <2>1. rows[t] = rows'[t]
      BY <1>c, <1>f
    <2>2. PICK i \in 1 .. L : wal[i].session = t /\ wal[i].cap = rows[t]
      BY <1>a, <1>c, <2>1 DEF RowInv, RowsFromWal
    <2> QED BY <1>c, <1>e, <2>1, <2>2
  <1>6. HasLatest'
    <2> SUFFICES ASSUME NEW x \in Keys, KeyRows(x)' # {}
                 PROVE  \E t \in KeyRows(x)' : IsLatest(t, x)'
      BY DEF HasLatest
    <2>1. KeyRows(x)' = KeyRows(x) /\ \A u \in KeyRows(x) : rows'[u] = rows[u]
      BY <1>b, <1>c, <1>f DEF KeyRows
    <2>2. PICK t \in KeyRows(x) : IsLatest(t, x)
      BY <1>a, <2>1 DEF HasLatest
    <2> QED BY <2>1, <2>2 DEF IsLatest
  <1> QED BY <1>1, <1>2, <1>3, <1>4, <1>5, <1>6 DEF LogInv

\* What a crash leaves of the log.
LEMMA CrashFacts ==
    ASSUME TypeOK, Crash
    PROVE  \E n \in synced .. Len(wal) :
             /\ n \in Nat /\ Len(wal') = n /\ DOMAIN wal' = 1 .. n
             /\ \A i \in 1 .. n : i \in 1 .. Len(wal) /\ wal'[i] = wal[i]
             /\ retracted' = retracted \cup {wal[i].cap.id : i \in Versioned \ (1 .. n)}
  <1>1. PICK n \in synced .. Len(wal) :
          /\ wal' = SubSeq(wal, 1, n)
          /\ retracted' = retracted \cup {wal[i].cap.id : i \in Versioned \ (1 .. n)}
    BY DEF Crash
  <1>2. n \in Nat /\ n <= Len(wal) /\ \A i \in 1 .. n : i \in 1 .. Len(wal)
    BY BatchFacts DEF TypeOK
  <1>3. /\ wal' \in Seq(Batches) /\ Len(wal') = n
        /\ \A i \in 1 .. n : wal'[i] = wal[i]
    BY <1>1, <1>2, BatchFacts, SubSeqProperties
  <1> QED BY <1>1, <1>2, <1>3

LEMMA LogCrash ==
    ASSUME TableInv, Crash
    PROVE  LogInv' /\ RowsCover' /\ RowsFromWal' /\ HasLatest'
  <1>a. TypeOK /\ LogInv
    BY DEF TableInv
  <1>1. PICK n \in synced .. Len(wal) :
             /\ n \in Nat /\ Len(wal') = n /\ DOMAIN wal' = 1 .. n
             /\ \A i \in 1 .. n : i \in 1 .. Len(wal) /\ wal'[i] = wal[i]
    BY <1>a, CrashFacts
  <1>2. DOMAIN wal = 1 .. Len(wal)
    BY <1>a, BatchFacts
  <1>3. RevisionsIncrease' /\ SessionKeys' /\ AppliedOnce'
    BY <1>a, <1>1, <1>2 DEF RevisionsIncrease, SameKey, SessionKeys, AppliedOnce, LogInv, V2
  <1>4. \A s \in Sessions : rows'[s].version # 2
    BY CapFacts DEF Crash
  <1>5. loaded' = 0
    BY DEF Crash
  <1>6. RowsCover' /\ RowsFromWal'
    BY <1>4, <1>5 DEF RowsCover, RowsFromWal
  <1>7. HasLatest'
    BY <1>4 DEF HasLatest, KeyRows
  <1> QED BY <1>3, <1>6, <1>7 DEF LogInv

\* One batch replayed: it is newer than every row of its key so far.
LEMMA LogReplay ==
    ASSUME TableInv, Replay
    PROVE  LogInv' /\ RowsCover' /\ RowsFromWal' /\ HasLatest'
  <1> DEFINE n == loaded + 1
             s == wal[n].session
             cap == wal[n].cap
  <1>a. TypeOK /\ LogInv /\ RowInv /\ HasLatest
    BY DEF TableInv, RowInv
  <1>b. /\ n \in 1 .. Len(wal) /\ loaded \in Nat /\ loaded' = n /\ wal' = wal
        /\ \A i \in 1 .. loaded : i \in 1 .. n /\ i < n /\ i \in 1 .. Len(wal)
        /\ \A i \in 1 .. n : i \in 1 .. loaded \/ i = n
        /\ n \in 1 .. n
    BY <1>a, BatchFacts DEF Replay, TypeOK
  <1>c. s \in Sessions /\ cap \in Capsules \cup {Legacy} /\ (V2(n) => cap \in Capsules)
    BY <1>a, <1>b, BatchFacts
  <1>d. /\ rows'[s] = cap
        /\ \A t \in Sessions \ {s} : rows'[t] = rows[t]
    BY <1>a, <1>b, <1>c DEF Replay, TypeOK
  <1>e. DOMAIN wal = 1 .. Len(wal)
    BY <1>a, BatchFacts
  <1> HIDE DEF n, s, cap
  <1>1. LogInv'
    BY <1>a, <1>b DEF LogInv, RevisionsIncrease, SameKey, SessionKeys, AppliedOnce, V2
  <1>2. ASSUME NEW i \in 1 .. loaded, V2(i), wal[i].session = s
        PROVE  V2(n) /\ cap.key = wal[i].cap.key /\ wal[i].cap.revision < cap.revision
    <2>1. V2(n) /\ cap.key = wal[i].cap.key
      BY <1>a, <1>b, <1>2 DEF LogInv, SessionKeys, s, cap
    <2>2. SameKey(i, n)
      BY <1>2, <2>1 DEF SameKey, V2, cap
    <2> QED BY <1>a, <1>b, <1>e, <2>1, <2>2 DEF LogInv, RevisionsIncrease, cap
  <1>3. RowsCover'
    <2> SUFFICES ASSUME NEW i \in 1 .. n, V2(i)
                 PROVE  /\ rows'[wal[i].session].version = 2
                        /\ rows'[wal[i].session].key = wal[i].cap.key
                        /\ wal[i].cap.revision <= rows'[wal[i].session].revision
      BY <1>b DEF RowsCover, V2
    <2>1. CASE i = n
      BY <1>c, <1>d, <2>1, CapFacts DEF V2, s, cap
    <2>2. CASE i \in 1 .. loaded
      <3>1. wal[i].session \in Sessions /\ wal[i].cap.revision \in Nat
        BY <1>a, <1>b, <2>2, BatchFacts, CapFacts
      <3>2. CASE wal[i].session # s
        BY <1>a, <1>d, <2>2, <3>1, <3>2 DEF RowInv, RowsCover
      <3>3. CASE wal[i].session = s
        <4>1. V2(n) /\ cap.key = wal[i].cap.key /\ wal[i].cap.revision < cap.revision
          BY <1>2, <2>2, <3>3
        <4>2. cap \in Capsules
          BY <1>c, <4>1
        <4> QED BY <1>d, <3>1, <3>3, <4>1, <4>2, CapFacts
      <3> QED BY <3>2, <3>3
    <2> QED BY <1>b, <2>1, <2>2
  <1>4. RowsFromWal'
    <2> SUFFICES ASSUME NEW t \in Sessions, rows'[t].version = 2
                 PROVE  \E i \in 1 .. n : wal[i].session = t /\ wal[i].cap = rows'[t]
      BY <1>b DEF RowsFromWal
    <2>1. CASE t = s
      BY <1>b, <1>d, <2>1 DEF s, cap
    <2>2. CASE t # s
      <3>1. rows[t] = rows'[t]
        BY <1>d, <2>2
      <3>2. PICK i \in 1 .. loaded : wal[i].session = t /\ wal[i].cap = rows[t]
        BY <1>a, <3>1 DEF RowInv, RowsFromWal
      <3> QED BY <1>b, <3>1, <3>2
    <2> QED BY <2>1, <2>2
  <1>5. \A t \in Sessions : V2(n) /\ rows[t].version = 2 /\ rows[t].key = cap.key =>
           rows[t].revision < cap.revision
    <2> TAKE t \in Sessions
    <2> HAVE V2(n) /\ rows[t].version = 2 /\ rows[t].key = cap.key
    <2>1. PICK i \in 1 .. loaded : wal[i].session = t /\ wal[i].cap = rows[t]
      BY <1>a DEF RowInv, RowsFromWal
    <2>2. SameKey(i, n)
      BY <2>1 DEF SameKey, V2, cap
    <2> QED BY <1>a, <1>b, <1>e, <2>1, <2>2 DEF LogInv, RevisionsIncrease, cap
  <1>7. rows[s].version = 2 => V2(n) /\ rows[s].key = cap.key
    <2> SUFFICES ASSUME rows[s].version = 2 PROVE V2(n) /\ rows[s].key = cap.key
      OBVIOUS
    <2>1. PICK i \in 1 .. loaded : wal[i].session = s /\ wal[i].cap = rows[s]
      BY <1>a, <1>c DEF RowInv, RowsFromWal
    <2> QED BY <1>2, <2>1 DEF V2
  <1>8. HasLatest'
    <2> SUFFICES ASSUME NEW x \in Keys, KeyRows(x)' # {}
                 PROVE  \E t \in KeyRows(x)' : IsLatest(t, x)'
      BY DEF HasLatest
    <2>1. CASE V2(n) /\ x = cap.key
      <3>1. s \in KeyRows(x)'
        BY <1>c, <1>d, <2>1 DEF KeyRows, V2, cap
      <3>2. ASSUME NEW t \in KeyRows(x)' PROVE rows'[t].revision <= rows'[s].revision
        <4>1. cap.revision \in Nat
          BY <1>c, <2>1, CapFacts
        <4>2. CASE t = s
          BY <1>d, <4>1, <4>2
        <4>3. CASE t # s
          <5>1. t \in Sessions /\ rows'[t] = rows[t] /\ rows[t].version = 2 /\ rows[t].key = x
            BY <1>d, <3>2, <4>3 DEF KeyRows
          <5>2. rows[t].revision \in Nat
            BY <1>a, <5>1, RowFacts, CapFacts
          <5> QED BY <1>5, <1>d, <2>1, <4>1, <5>1, <5>2
        <4> QED BY <4>2, <4>3
      <3> QED BY <3>1, <3>2 DEF IsLatest
    <2>2. CASE ~(V2(n) /\ x = cap.key)
      <3>1. s \notin KeyRows(x) /\ s \notin KeyRows(x)'
        BY <1>7, <1>d, <2>2 DEF KeyRows, V2, cap
      <3>2. KeyRows(x)' = KeyRows(x)
        BY <1>d, <3>1 DEF KeyRows
      <3>3. PICK t \in KeyRows(x) : IsLatest(t, x)
        BY <1>a, <3>2 DEF HasLatest
      <3>4. \A u \in KeyRows(x) : rows'[u] = rows[u]
        BY <1>d, <3>1 DEF KeyRows
      <3> QED BY <3>2, <3>3, <3>4 DEF IsLatest
    <2> QED BY <2>1, <2>2
  <1> QED BY <1>1, <1>3, <1>4, <1>8

\* Steps that touch neither the log nor the rows.
LEMMA LogQuiet ==
    ASSUME TableInv, UNCHANGED <<wal, rows, loaded>>
    PROVE  LogInv' /\ RowsCover' /\ RowsFromWal' /\ HasLatest'
  <1>1. LogInv'
    BY DEF TableInv, LogInv, RevisionsIncrease, SameKey, SessionKeys, AppliedOnce, V2
  <1>2. RowsCover' /\ RowsFromWal' /\ HasLatest'
    BY DEF TableInv, RowInv, RowsCover, RowsFromWal, HasLatest, KeyRows, IsLatest, V2
  <1> QED BY <1>1, <1>2

-------------------------------------------------------------------------------
(* Identities, and what writers had read.                                  *)

\* No known capsule has the identity the next save will get.
LEMMA SaveIdFresh ==
    ASSUME TypeOK, Identities, NEW c, Known(c)
    PROVE  c.id # SaveId
  <1>1. saves \in Nat
    BY DEF TypeOK
  <1>2. CASE FromSave(c)
    BY <1>1, <1>2 DEF FromSave, SaveId
  <1>3. CASE FromQueue(c)
    <2>1. PICK q \in 1 .. Len(queue) : c = queue[q].cap
      BY <1>3 DEF FromQueue
    <2>2. c.id = 2 * q /\ q \in Nat
      BY <2>1, BatchFacts DEF Identities
    <2> QED BY <1>1, <2>2 DEF SaveId
  <1> QED BY <1>2, <1>3 DEF Known

\* A known capsule with the identity of a queued write is that write's capsule.
LEMMA QueueIdOwned ==
    ASSUME TypeOK, Identities, NEW c, Known(c), NEW q \in 1 .. Len(queue),
           c.id = queue[q].cap.id
    PROVE  c = queue[q].cap
  <1>1. c.id = 2 * q /\ q \in Nat
    BY BatchFacts DEF Identities
  <1>2. ~FromSave(c)
    BY <1>1 DEF FromSave
  <1>3. PICK r \in 1 .. Len(queue) : c = queue[r].cap
    BY <1>2 DEF Known, FromQueue
  <1>4. c.id = 2 * r /\ r \in Nat
    BY <1>3, BatchFacts DEF Identities
  <1> QED BY <1>1, <1>3, <1>4

\* Nothing that was known is forgotten.
LEMMA KnownStays ==
    ASSUME TypeOK, NEW c, Known(c), saves' \in Nat, saves <= saves',
           Len(queue) <= Len(queue'), Len(queue') \in Nat,
           \A q \in 1 .. Len(queue) : queue'[q] = queue[q]
    PROVE  Known(c)'
  <1>1. CASE FromSave(c)
    <2>1. PICK n \in Nat : n < saves /\ c.id = 2 * n + 1
      BY <1>1 DEF FromSave
    <2>2. n < saves'
      BY <2>1 DEF TypeOK
    <2> QED BY <2>1, <2>2 DEF FromSave, Known
  <1>2. CASE FromQueue(c)
    <2>1. PICK q \in 1 .. Len(queue) : c = queue[q].cap
      BY <1>2 DEF FromQueue
    <2>2. q \in 1 .. Len(queue')
      BY BatchFacts
    <2>3. c = queue'[q].cap
      BY <2>1
    <2> QED BY <2>2, <2>3 DEF FromQueue, Known
  <1> QED BY <1>1, <1>2 DEF Known

\* The links of what was there survive a write; the new batch brings its own.
LEMMA LinkWrite ==
    ASSUME TypeOK, Served, LinkInv,
           NEW s \in Sessions, NEW cap \in Capsules \cup {Legacy}, NEW base \in Nat,
           Write(s, cap, base), phase = "serving",
           UNCHANGED <<view, acked, synced, retracted, queue>>,
           saves' \in Nat, saves <= saves',
           cap \in Capsules => Known(cap)',
           \A t \in Sessions : cap \in Capsules /\ view[t].id = cap.id => view[t] = cap
    PROVE  LinkInv'
  <1> DEFINE L == Len(wal)
  <1>a. /\ Len(wal') = L + 1 /\ L \in Nat
        /\ \A i \in 1 .. L : wal'[i] = wal[i]
        /\ wal'[L + 1].cap = cap
        /\ synced \in 0 .. L
    <2>1. /\ Len(wal') = L + 1
          /\ \A i \in 1 .. L : wal'[i] = wal[i]
          /\ wal'[L + 1] = [session |-> s, cap |-> cap, base |-> base]
      BY WriteFacts
    <2>2. synced \in 0 .. L /\ L \in Nat
      BY BatchFacts DEF TypeOK
    <2> QED BY <2>1, <2>2
  <1>b. /\ \A i \in 1 .. L : i \in 1 .. L + 1
        /\ \A i \in 1 .. L + 1 : i \in 1 .. L \/ i = L + 1
        /\ \A i \in 1 .. synced : i \in 1 .. L
    BY <1>a
  <1>c. cap.version = 2 => cap \in Capsules
    BY CapFacts
  <1>d. ASSUME NEW c, Known(c) PROVE Known(c)'
    BY <1>d, KnownStays, BatchFacts
  <1>e. /\ \A i \in 1 .. L : V2(i) => Known(wal[i].cap)
        /\ \A q \in 1 .. Len(queue) : queue[q].cap.id = 2 * q
        /\ \A t \in Sessions : view[t] # NoCapsule => Known(view[t])
        /\ \A t \in Sessions, i \in 1 .. L :
             V2(i) /\ wal[i].cap.id = view[t].id => wal[i].cap = view[t]
    BY DEF LinkInv, Identities
  <1> HIDE DEF L
  <1>1. ASSUME NEW i \in 1 .. L + 1, V2(i)' PROVE Known(wal[i].cap)'
    <2>1. PICK c : c = wal'[i].cap
      OBVIOUS
    <2>2. Known(c)'
      <3>1. CASE i = L + 1
        <4>1. c = cap /\ cap \in Capsules
          BY <1>1, <1>a, <1>c, <2>1, <3>1 DEF V2
        <4> QED BY <4>1
      <3>2. CASE i \in 1 .. L
        <4>1. wal'[i] = wal[i] /\ V2(i)
          BY <1>1, <1>a, <3>2 DEF V2
        <4>2. Known(c)
          BY <1>e, <2>1, <3>2, <4>1
        <4> QED BY <1>d, <4>2
      <3> QED BY <1>b, <3>1, <3>2
    <2> QED BY <2>1, <2>2 DEF Known, FromSave, FromQueue
  <1>2. ASSUME NEW t \in Sessions, view'[t] # NoCapsule PROVE Known(view[t])'
    <2>1. PICK c : c = view[t]
      OBVIOUS
    <2>2. Known(c)
      BY <1>2, <1>e, <2>1
    <2>3. Known(c)'
      BY <1>d, <2>2
    <2> QED BY <2>1, <2>3 DEF Known, FromSave, FromQueue
  <1>3. \A t \in Sessions, i \in 1 .. L + 1 :
          V2(i)' /\ wal'[i].cap.id = view'[t].id => wal'[i].cap = view'[t]
    BY <1>a, <1>b, <1>c, <1>e DEF V2
  <1>4. Identities'
    <2>1. \A i \in 1 .. Len(wal') : V2(i)' => Known(wal[i].cap)'
      BY <1>1, <1>a
    <2>2. \A t \in Sessions, i \in 1 .. Len(wal') :
            V2(i)' /\ wal'[i].cap.id = view'[t].id => wal'[i].cap = view'[t]
      BY <1>3, <1>a
    <2>3. \A q \in 1 .. Len(queue') : queue'[q].cap.id = 2 * q
      BY <1>e
    <2> QED BY <1>2, <2>1, <2>2, <2>3 DEF Identities
  <1>5. ViewOrigin'
    BY <1>a, <1>b DEF LinkInv, ViewOrigin, L
  <1>6. QueueOrigin'
    <2> SUFFICES ASSUME NEW q \in 1 .. Len(queue), queue[q].expected # 0,
                        queue[q].base \notin retracted
                 PROVE  \E i \in 1 .. L + 1 : Origin(queue[q], i)'
      BY <1>a DEF QueueOrigin
    <2>1. PICK i \in 1 .. L : Origin(queue[q], i)
      BY DEF LinkInv, QueueOrigin, L
    <2>2. wal'[i] = wal[i] /\ i \in 1 .. L + 1
      BY <1>a, <1>b
    <2>3. Origin(queue[q], i)'
      BY <2>1, <2>2 DEF Origin, V2
    <2> QED BY <2>2, <2>3
  <1>7. AckedSynced'
    BY <1>a, <1>b DEF LinkInv, AckedSynced, V2
  <1> QED BY <1>4, <1>5, <1>6, <1>7 DEF LinkInv

\* A new batch keeps the properties of replacements if it has them itself.
LEMMA BaseWrite ==
    ASSUME TypeOK, Served, BaseInv,
           NEW s \in Sessions, NEW cap \in Capsules \cup {Legacy}, NEW base \in Nat,
           Write(s, cap, base), phase = "serving", retracted' = retracted,
           \A j \in 1 .. Len(wal) :
               V2(j) /\ cap \in Capsules /\ wal[j].cap.key = cap.key
               /\ cap.revision = wal[j].cap.revision + 1 =>
                 /\ base = wal[j].cap.id \/ base \in retracted
                 /\ cap.id % 2 = 0 /\ wal[j].cap.state = "complete"
                    /\ wal[j].cap.code = cap.code /\ base \notin retracted
                    => cap.state # "invalidated"
    PROVE  BaseInv'
  <1> DEFINE L == Len(wal)
  <1>a. /\ Len(wal') = L + 1 /\ L \in Nat
        /\ \A i \in 1 .. L : wal'[i] = wal[i]
        /\ wal'[L + 1].cap = cap /\ wal'[L + 1].base = base
        /\ DOMAIN wal = 1 .. L /\ DOMAIN wal' = 1 .. L + 1
    <2>1. /\ Len(wal') = L + 1 /\ wal' \in Seq(Batches)
          /\ \A i \in 1 .. L : wal'[i] = wal[i]
          /\ wal'[L + 1] = [session |-> s, cap |-> cap, base |-> base]
      BY WriteFacts
    <2>2. DOMAIN wal' = 1 .. L + 1
      BY <2>1
    <2> QED BY <2>1, <2>2, BatchFacts
  <1>b. \A i \in 1 .. L + 1 : i \in 1 .. L \/ i = L + 1
    BY <1>a
  <1>c. cap.version = 2 => cap \in Capsules
    BY CapFacts
  <1> HIDE DEF L
  <1>1. ASSUME NEW i \in 1 .. L + 1, NEW j \in 1 .. L + 1, Replaced(i, j)'
        PROVE  /\ wal'[j].base = wal'[i].cap.id \/ wal'[j].base \in retracted
               /\ FromStop(j)' /\ wal'[i].cap.state = "complete"
                  /\ wal'[i].cap.code = wal'[j].cap.code /\ wal'[j].base \notin retracted
                  => wal'[j].cap.state # "invalidated"
    <2>1. i \in 1 .. L /\ wal'[i] = wal[i]
      BY <1>1, <1>a, <1>b DEF Replaced
    <2>2. CASE j \in 1 .. L
      <3>1. wal'[j] = wal[j]
        BY <1>a, <2>2
      <3>2. Replaced(i, j)
        BY <1>1, <2>1, <3>1 DEF Replaced, SameKey
      <3> QED BY <1>a, <2>1, <2>2, <3>1, <3>2
              DEF BaseInv, ReplacesWhatWasRead, StopKeepsMilestone, FromStop
    <2>3. CASE j = L + 1
      <3>1. /\ V2(i) /\ cap \in Capsules /\ wal[i].cap.key = cap.key
            /\ cap.revision = wal[i].cap.revision + 1
        BY <1>1, <1>a, <1>c, <2>1, <2>3 DEF Replaced, SameKey, V2
      <3> QED BY <1>a, <2>1, <2>3, <3>1 DEF FromStop, L
    <2> QED BY <1>b, <2>2, <2>3
  <1> QED BY <1>1, <1>a DEF BaseInv, ReplacesWhatWasRead, StopKeepsMilestone

-------------------------------------------------------------------------------
(* The steps.                                                              *)

LEMMA SaveStep ==
    ASSUME IInv, TypeOK', NEW s \in Sessions, NEW k \in Keys, NEW st \in SaveStates,
           NEW c \in CodeStates, Save(s, k, st, c)
    PROVE  IInv'
  <1>a. /\ TypeOK /\ LogInv /\ RowInv /\ LinkInv /\ BaseInv /\ TableInv
        /\ Served /\ HasLatest /\ Identities /\ ViewOrigin /\ RevisionsIncrease
    BY DEF IInv, TableInv, RowInv, LinkInv, LogInv
  <1>b. PICK cap : cap = [version |-> 2, key |-> k, revision |-> NextRevision(s, k),
                          state |-> st, code |-> c, id |-> SaveId]
    OBVIOUS
  <1>c. PICK base : base = Seen(s, k).id
    OBVIOUS
  <1>d. /\ cap.version = 2 /\ cap.key = k /\ cap.revision = Latest(k).revision + 1
        /\ cap.id = SaveId
    BY <1>b DEF NextRevision
  <1>e. Latest(k).revision \in Nat /\ saves \in Nat
    BY <1>a, LatestFacts DEF TypeOK
  <1>f. cap \in Capsules
    <2>1. NextRevision(s, k) \in Nat \ {0} /\ SaveId \in Nat \ {0}
      BY <1>e DEF NextRevision, SaveId
    <2> QED BY <1>b, <2>1, CapsuleAssumption DEF Capsules, States
  <1>g. base \in Nat
    BY <1>a, <1>c, RowFacts, CapFacts DEF Seen
  <1>h. /\ Write(s, cap, base) /\ phase = "serving" /\ KeyKept(s, k)
        /\ Seen(s, k).revision = Latest(k).revision
        /\ pending' = [pending EXCEPT ![s] = cap] /\ saves' = saves + 1
        /\ UNCHANGED <<phase, synced, view, acked, queue, taken, offset, retracted, crashes>>
    BY <1>b, <1>c DEF Save, Idle, RevisionMatches
  <1>i. \A i \in 1 .. Len(wal) : V2(i) => wal[i].cap.id # cap.id
    BY <1>a, <1>d, SaveIdFresh DEF Identities
  <1>j. /\ Len(wal') = Len(wal) + 1 /\ Len(wal) \in Nat
        /\ \A i \in 1 .. Len(wal) : wal'[i] = wal[i] /\ i \in 1 .. Len(wal')
        /\ wal'[Len(wal) + 1].cap = cap /\ Len(wal) + 1 \in 1 .. Len(wal')
        /\ loaded' = Len(wal')
    <2>1. /\ Len(wal') = Len(wal) + 1
          /\ \A i \in 1 .. Len(wal) : wal'[i] = wal[i]
          /\ wal'[Len(wal) + 1] = [session |-> s, cap |-> cap, base |-> base]
          /\ loaded' = Len(wal')
      BY <1>a, <1>f, <1>g, <1>h, WriteFacts
    <2> QED BY <1>a, <2>1, BatchFacts
  <1>1. LogInv' /\ RowsCover' /\ RowsFromWal' /\ HasLatest'
    BY <1>a, <1>d, <1>f, <1>g, <1>h, <1>i, LogWrite
  <1>2. Served'
    <2>1. phase' = "serving"
      BY <1>h
    <2>2. ASSUME NEW t \in Sessions, pending'[t] # NoCapsule
          PROVE  \E i \in 1 .. Len(wal') : wal'[i].cap = pending'[t]
      <3>1. CASE t = s
        <4>1. pending'[t] = cap
          BY <1>a, <1>h, <3>1 DEF TypeOK
        <4> QED BY <1>j, <4>1
      <3>2. CASE t # s
        <4>1. pending'[t] = pending[t]
          BY <1>a, <1>h, <3>2 DEF TypeOK
        <4>2. PICK i \in 1 .. Len(wal) : wal[i].cap = pending[t]
          BY <1>a, <2>2, <4>1 DEF Served
        <4> QED BY <1>j, <4>1, <4>2
      <3> QED BY <3>1, <3>2
    <2> QED BY <1>j, <2>1, <2>2 DEF Served
  <1>3. LinkInv'
    <2>1. Known(cap)'
      <3>1. saves \in Nat /\ saves < saves' /\ cap.id = 2 * saves + 1
        BY <1>d, <1>e, <1>h DEF SaveId
      <3>2. \E n \in Nat : n < saves' /\ cap.id = 2 * n + 1
        BY <3>1
      <3> QED BY <3>2 DEF Known, FromSave
    <2>2. \A t \in Sessions : view[t].id # cap.id
      <3> TAKE t \in Sessions
      <3>1. CASE view[t] = NoCapsule
        BY <1>f, <3>1, CapFacts
      <3>2. CASE view[t] # NoCapsule
        BY <1>a, <1>d, <3>2, SaveIdFresh DEF Identities
      <3> QED BY <3>1, <3>2
    <2>3. saves' \in Nat /\ saves <= saves'
      BY <1>e, <1>h
    <2> QED BY <1>a, <1>f, <1>g, <1>h, <2>1, <2>2, <2>3, LinkWrite
  <1>4. BaseInv'
    <2>1. ASSUME NEW j \in 1 .. Len(wal), V2(j), wal[j].cap.key = cap.key,
                 cap.revision = wal[j].cap.revision + 1
          PROVE  base = wal[j].cap.id \/ base \in retracted
      <3>1. wal[j].cap.revision \in Nat \ {0}
        BY <1>a, <2>1, BatchFacts, CapFacts
      <3>2. Seen(s, k).revision = wal[j].cap.revision
        BY <1>d, <1>e, <1>h, <2>1, <3>1
      <3>3. Seen(s, k) = view[s] /\ view[s].key = k /\ view[s] # NoCapsule
        BY <1>a, <3>1, <3>2, CapFacts DEF Seen
      <3>4. view[s].id \in retracted \/ \E i \in 1 .. Len(wal) : wal[i].cap = view[s]
        BY <1>a, <3>3 DEF ViewOrigin
      <3>5. ASSUME NEW i \in 1 .. Len(wal), wal[i].cap = view[s]
            PROVE  wal[j].cap.id = base
        <4>1. V2(i)
          BY <1>a, <3>3, <3>5, RowFacts, CapFacts DEF V2
        <4>2. SameKey(i, j) /\ SameKey(j, i)
          BY <1>d, <2>1, <3>3, <3>5, <4>1 DEF SameKey, V2
        <4>3. wal[i].cap.revision = wal[j].cap.revision
          BY <3>2, <3>3, <3>5
        <4>4. DOMAIN wal = 1 .. Len(wal)
          BY <1>a, BatchFacts
        <4>5. ~(i < j) /\ ~(j < i)
          BY <1>a, <3>1, <4>2, <4>3, <4>4 DEF RevisionsIncrease
        <4>6. i = j
          BY <4>5
        <4> QED BY <1>c, <3>3, <3>5, <4>6
      <3> QED BY <1>c, <3>3, <3>4, <3>5
    <2>2. cap.id % 2 # 0
      BY <1>d, <1>e DEF SaveId
    <2> QED BY <1>a, <1>f, <1>g, <1>h, <2>1, <2>2, BaseWrite
  <1> QED BY <1>1, <1>2, <1>3, <1>4 DEF IInv, RowInv

LEMMA LegacyStep ==
    ASSUME IInv, TypeOK', NEW s \in Sessions, BindLegacy(s)
    PROVE  IInv'
  <1>a. /\ TypeOK /\ LogInv /\ RowInv /\ LinkInv /\ BaseInv /\ TableInv /\ Served
    BY DEF IInv, TableInv, RowInv
  <1>b. /\ Write(s, Legacy, 0) /\ phase = "serving" /\ saves' = saves + 1 /\ saves \in Nat
        /\ UNCHANGED <<phase, synced, pending, view, acked, queue, taken, offset, retracted>>
    BY <1>a DEF BindLegacy, Idle, TypeOK
  <1>c. Legacy \notin Capsules /\ saves' \in Nat /\ saves <= saves'
    BY <1>b, CapFacts
  <1>d. /\ Len(wal') = Len(wal) + 1 /\ Len(wal) \in Nat
        /\ \A i \in 1 .. Len(wal) : wal'[i] = wal[i] /\ i \in 1 .. Len(wal')
        /\ loaded' = Len(wal')
    <2>1. /\ Len(wal') = Len(wal) + 1 /\ loaded' = Len(wal')
          /\ \A i \in 1 .. Len(wal) : wal'[i] = wal[i]
      BY <1>a, <1>b, WriteFacts
    <2> QED BY <1>a, <2>1, BatchFacts
  <1>1. LogInv' /\ RowsCover' /\ RowsFromWal' /\ HasLatest'
    BY <1>a, LogLegacy
  <1>2. Served'
    BY <1>a, <1>b, <1>d DEF Served
  <1>3. LinkInv'
    BY <1>a, <1>b, <1>c, LinkWrite
  <1>4. BaseInv'
    BY <1>a, <1>b, <1>c, BaseWrite
  <1> QED BY <1>1, <1>2, <1>3, <1>4 DEF IInv, RowInv

LEMMA ApplyStep ==
    ASSUME IInv, TypeOK', Apply
    PROVE  IInv'
  <1>a. /\ TypeOK /\ LogInv /\ RowInv /\ LinkInv /\ BaseInv /\ TableInv
        /\ Served /\ HasLatest /\ Identities /\ QueueOrigin /\ RevisionsIncrease
    BY DEF IInv, TableInv, RowInv, LinkInv, LogInv
  <1>b. PICK q : q = taken + 1
    OBVIOUS
  <1>c. q \in 1 .. Len(queue)
    BY <1>a, <1>b, BatchFacts DEF Apply, TypeOK
  <1>d. PICK w : w = queue[q]
    OBVIOUS
  <1>e. /\ w.session \in Sessions /\ w.cap \in Capsules /\ w.base \in Nat /\ w.expected \in Nat
        /\ w.cap.key \in Keys
    BY <1>a, <1>c, <1>d, BatchFacts, CapFacts
  <1>f. /\ Write(w.session, w.cap, w.base) /\ phase = "serving"
        /\ KeyKept(w.session, w.cap.key)
        /\ w.expected = Latest(w.cap.key).revision
        /\ w.cap.revision = Latest(w.cap.key).revision + 1
        /\ UNCHANGED <<phase, synced, pending, view, acked, queue, offset, retracted, saves>>
    BY <1>b, <1>d DEF Apply, Admitted, RevisionMatches
  <1>g. Latest(w.cap.key).revision \in Nat
    BY <1>a, <1>e, LatestFacts
  <1>h. \A i \in 1 .. Len(wal) : V2(i) => wal[i].cap.id # w.cap.id
    <2> SUFFICES ASSUME NEW i \in 1 .. Len(wal), V2(i), wal[i].cap.id = w.cap.id
                 PROVE  FALSE
      OBVIOUS
    <2>1. Known(wal[i].cap)
      BY <1>a DEF Identities
    <2>2. wal[i].cap = w.cap
      BY <1>a, <1>c, <1>d, <2>1, QueueIdOwned
    <2>3. wal[i].cap.revision <= Latest(w.cap.key).revision
      BY <1>a, <1>e, <1>f, <2>2, LatestCoversLog
    <2> QED BY <1>f, <1>g, <2>2, <2>3
  <1>i. /\ Len(wal') = Len(wal) + 1 /\ Len(wal) \in Nat
        /\ \A i \in 1 .. Len(wal) : wal'[i] = wal[i] /\ i \in 1 .. Len(wal')
        /\ loaded' = Len(wal')
    <2>1. /\ Len(wal') = Len(wal) + 1 /\ loaded' = Len(wal')
          /\ \A i \in 1 .. Len(wal) : wal'[i] = wal[i]
      BY <1>a, <1>e, <1>f, WriteFacts
    <2> QED BY <1>a, <2>1, BatchFacts
  <1>1. LogInv' /\ RowsCover' /\ RowsFromWal' /\ HasLatest'
    BY <1>a, <1>e, <1>f, <1>h, LogWrite
  <1>2. Served'
    BY <1>a, <1>f, <1>i DEF Served
  <1>3. LinkInv'
    <2>1. Known(w.cap)'
      BY <1>c, <1>d, <1>f DEF Known, FromQueue
    <2>2. ASSUME NEW t \in Sessions, view[t].id = w.cap.id PROVE view[t] = w.cap
      <3>1. view[t] # NoCapsule
        BY <1>e, <2>2, CapFacts
      <3>2. Known(view[t])
        BY <1>a, <3>1 DEF Identities
      <3> QED BY <1>a, <1>c, <1>d, <2>2, <3>2, QueueIdOwned
    <2>3. saves' \in Nat /\ saves <= saves'
      BY <1>a, <1>f DEF TypeOK
    <2> QED BY <1>a, <1>e, <1>f, <2>1, <2>2, <2>3, LinkWrite
  <1>4. BaseInv'
    <2>1. ASSUME NEW j \in 1 .. Len(wal), V2(j), wal[j].cap.key = w.cap.key,
                 w.cap.revision = wal[j].cap.revision + 1
          PROVE  /\ w.base = wal[j].cap.id \/ w.base \in retracted
                 /\ wal[j].cap.state = "complete" /\ wal[j].cap.code = w.cap.code
                    /\ w.base \notin retracted
                    => w.cap.state # "invalidated"
      <3>1. wal[j].cap.revision \in Nat \ {0}
        BY <1>a, <2>1, BatchFacts, CapFacts
      <3>2. w.expected = wal[j].cap.revision /\ w.expected # 0
        BY <1>f, <1>g, <2>1, <3>1
      <3>3. w.base \in retracted \/ \E i \in 1 .. Len(wal) : Origin(w, i)
        BY <1>a, <1>c, <1>d, <3>2 DEF QueueOrigin
      <3>4. ASSUME NEW i \in 1 .. Len(wal), Origin(w, i) PROVE i = j
        <4>1. SameKey(i, j) /\ SameKey(j, i)
          BY <2>1, <3>4 DEF Origin, SameKey, V2
        <4>2. wal[i].cap.revision = wal[j].cap.revision
          BY <3>2, <3>4 DEF Origin
        <4>3. DOMAIN wal = 1 .. Len(wal)
          BY <1>a, BatchFacts
        <4>4. ~(i < j) /\ ~(j < i)
          BY <1>a, <3>1, <4>1, <4>2, <4>3 DEF RevisionsIncrease
        <4> QED BY <4>4
      <3> QED BY <3>3, <3>4 DEF Origin
    <2> QED BY <1>a, <1>e, <1>f, <2>1, BaseWrite
  <1> QED BY <1>1, <1>2, <1>3, <1>4 DEF IInv, RowInv

\* A client learns a capsule that is in the log.
LEMMA ViewStep ==
    ASSUME TypeOK, LogInv, LinkInv, NEW s \in Sessions,
           NEW n \in 1 .. Len(wal), V2(n),
           view' = [view EXCEPT ![s] = wal[n].cap],
           UNCHANGED <<wal, queue, retracted, saves>>
    PROVE  Identities' /\ ViewOrigin' /\ QueueOrigin'
  <1>a. Identities /\ ViewOrigin /\ QueueOrigin /\ AppliedOnce /\ DOMAIN wal = 1 .. Len(wal)
    BY BatchFacts DEF LinkInv, LogInv
  <1>b. view'[s] = wal[n].cap /\ \A t \in Sessions \ {s} : view'[t] = view[t]
    BY DEF TypeOK
  <1>1. \A i \in 1 .. Len(wal') : V2(i)' => Known(wal[i].cap)'
    BY <1>a DEF Identities, V2, Known, FromSave, FromQueue
  <1>2. ASSUME NEW t \in Sessions, view'[t] # NoCapsule PROVE Known(view[t])'
    <2>1. CASE t = s
      BY <1>a, <1>b, <2>1 DEF Identities, Known, FromSave, FromQueue
    <2>2. CASE t # s
      BY <1>2, <1>a, <1>b, <2>2 DEF Identities, Known, FromSave, FromQueue
    <2> QED BY <2>1, <2>2
  <1>3. ASSUME NEW t \in Sessions, NEW i \in 1 .. Len(wal), V2(i), wal[i].cap.id = view'[t].id
        PROVE  wal[i].cap = view'[t]
    <2>1. CASE t = s
      BY <1>3, <1>a, <1>b, <2>1 DEF AppliedOnce, V2
    <2>2. CASE t # s
      BY <1>3, <1>a, <1>b, <2>2 DEF Identities
    <2> QED BY <2>1, <2>2
  <1>4. \A q \in 1 .. Len(queue') : queue'[q].cap.id = 2 * q
    BY <1>a DEF Identities
  <1>5. Identities'
    BY <1>1, <1>2, <1>3, <1>4 DEF Identities, V2
  <1>6. ViewOrigin'
    BY <1>a, <1>b DEF ViewOrigin
  <1>7. QueueOrigin'
    BY <1>a DEF QueueOrigin, Origin, V2
  <1> QED BY <1>5, <1>6, <1>7

\* Nothing is written: the log, the rows and what replaced what stay as they are.
LEMMA QuietStep ==
    ASSUME IInv, UNCHANGED <<wal, rows, loaded, retracted>>
    PROVE  LogInv' /\ RowsCover' /\ RowsFromWal' /\ HasLatest' /\ BaseInv'
  <1>1. LogInv' /\ RowsCover' /\ RowsFromWal' /\ HasLatest'
    BY LogQuiet DEF IInv, TableInv
  <1>2. BaseInv'
    BY DEF IInv, BaseInv, ReplacesWhatWasRead, StopKeepsMilestone, Replaced, SameKey, FromStop
  <1> QED BY <1>1, <1>2

\* The latest capsule of a key is in the log.
LEMMA LatestInLog ==
    ASSUME IInv, phase = "serving", NEW k \in Keys, Latest(k) # NoCapsule
    PROVE  \E i \in 1 .. Len(wal) : V2(i) /\ wal[i].cap = Latest(k) /\ wal[i].cap.key = k
  <1>a. TypeOK /\ HasLatest /\ RowsFromWal /\ Served
    BY DEF IInv, RowInv
  <1>1. PICK t \in KeyRows(k) : Latest(k) = rows[t]
    BY <1>a, LatestFacts
  <1>2. t \in Sessions /\ rows[t].version = 2 /\ rows[t].key = k
    BY <1>1 DEF KeyRows
  <1>3. PICK i \in 1 .. loaded : wal[i].session = t /\ wal[i].cap = rows[t]
    BY <1>a, <1>2 DEF RowsFromWal
  <1>4. i \in 1 .. Len(wal)
    BY <1>a, <1>3 DEF Served
  <1> QED BY <1>1, <1>2, <1>3, <1>4 DEF V2

\* Whatever else happens, more synced batches and more acknowledged capsules that
\* are in the log keep AckedSynced.
LEMMA AckStep ==
    ASSUME TypeOK, AckedSynced, wal' = wal, synced' = Len(wal),
           NEW n \in 1 .. Len(wal), V2(n), acked' = acked \cup {wal[n].cap.id}
    PROVE  AckedSynced'
  <1>1. synced \in 0 .. Len(wal) /\ Len(wal) \in Nat
    BY BatchFacts DEF TypeOK
  <1>2. 1 .. synced \subseteq 1 .. Len(wal) /\ 1 .. synced' = 1 .. Len(wal)
    BY <1>1
  <1>3. ASSUME NEW a \in acked' PROVE \E i \in 1 .. synced' : V2(i)' /\ wal'[i].cap.id = a
    <2>1. CASE a \in acked
      BY <1>2, <2>1 DEF AckedSynced, V2
    <2>2. CASE a = wal[n].cap.id
      BY <1>2, <2>2 DEF V2
    <2> QED BY <1>3, <2>1, <2>2
  <1> QED BY <1>3 DEF AckedSynced

LEMMA LookStep ==
    ASSUME IInv, TypeOK', NEW s \in Sessions, NEW k \in Keys, Get(s, k) \/ Context(s, k)
    PROVE  IInv'
  <1>a. TypeOK /\ LogInv /\ LinkInv /\ AckedSynced /\ Served
    BY DEF IInv, RowInv, LinkInv
  <1>b. /\ phase = "serving" /\ Latest(k) # NoCapsule
        /\ view' = [view EXCEPT ![s] = Latest(k)]
        /\ UNCHANGED <<phase, rows, wal, loaded, pending, queue, taken, offset, retracted, saves>>
    BY DEF Get, Context, Look, Idle
  <1>c. PICK n \in 1 .. Len(wal) : V2(n) /\ wal[n].cap = Latest(k)
    BY <1>b, LatestInLog
  <1>1. LogInv' /\ RowsCover' /\ RowsFromWal' /\ HasLatest' /\ BaseInv'
    BY <1>b, QuietStep
  <1>2. Served'
    BY <1>a, <1>b DEF Served
  <1>3. Identities' /\ ViewOrigin' /\ QueueOrigin'
    BY <1>a, <1>b, <1>c, ViewStep
  <1>4. AckedSynced'
    <2>1. CASE Get(s, k)
      BY <1>a, <1>b, <1>c, <2>1, AckStep DEF Get
    <2>2. CASE Context(s, k)
      BY <1>a, <1>b, <2>2 DEF Context, AckedSynced, V2
    <2> QED BY <2>1, <2>2
  <1> QED BY <1>1, <1>2, <1>3, <1>4 DEF IInv, RowInv, LinkInv

LEMMA AnswerStep ==
    ASSUME IInv, TypeOK', NEW s \in Sessions, Answer(s) \/ AnswerUnsynced(s)
    PROVE  IInv'
  <1>a. TypeOK /\ LogInv /\ LinkInv /\ AckedSynced /\ Served
    BY DEF IInv, RowInv, LinkInv
  <1>b. /\ phase = "serving" /\ pending[s] # NoCapsule
        /\ view' = [view EXCEPT ![s] = pending[s]]
        /\ pending' = [pending EXCEPT ![s] = NoCapsule]
        /\ UNCHANGED <<phase, rows, wal, loaded, queue, taken, offset, retracted, saves>>
    BY DEF Answer, AnswerUnsynced, Deliver
  <1>c. PICK n \in 1 .. Len(wal) : wal[n].cap = pending[s]
    BY <1>a, <1>b DEF Served
  <1>d. V2(n)
    BY <1>a, <1>b, <1>c, RowFacts, CapFacts DEF V2
  <1>1. LogInv' /\ RowsCover' /\ RowsFromWal' /\ HasLatest' /\ BaseInv'
    BY <1>b, QuietStep
  <1>2. Served'
    <2>1. \A t \in Sessions : pending'[t] # NoCapsule => pending'[t] = pending[t]
      BY <1>a, <1>b DEF TypeOK
    <2> QED BY <1>a, <1>b, <2>1 DEF Served
  <1>3. Identities' /\ ViewOrigin' /\ QueueOrigin'
    BY <1>a, <1>b, <1>c, <1>d, ViewStep
  <1>4. AckedSynced'
    <2>1. CASE Answer(s)
      BY <1>a, <1>b, <1>c, <1>d, <2>1, AckStep DEF Answer, SyncForAnswer
    <2>2. CASE AnswerUnsynced(s)
      BY <1>a, <1>b, <2>2 DEF AnswerUnsynced, AckedSynced, V2
    <2> QED BY <2>1, <2>2
  <1> QED BY <1>1, <1>2, <1>3, <1>4 DEF IInv, RowInv, LinkInv

LEMMA StopStep ==
    ASSUME IInv, TypeOK', NEW s \in Sessions, NEW k \in Keys, NEW c \in CodeStates,
           NEW next \in BOOLEAN, Stop(s, k, c, next)
    PROVE  IInv'
  <1>a. /\ TypeOK /\ LinkInv /\ AckedSynced /\ Served /\ HasLatest
        /\ Identities /\ ViewOrigin /\ QueueOrigin
    BY DEF IInv, RowInv, LinkInv
  <1>b. PICK old : old = Latest(k)
    OBVIOUS
  <1>c. PICK w : w = [session |-> s,
                      cap |-> [version |-> 2, key |-> k, revision |-> old.revision + 1,
                               state |-> PreparedState(old, c, next), code |-> c, id |-> StopId],
                      base |-> old.id, expected |-> old.revision]
    OBVIOUS
  <1>d. /\ phase = "serving" /\ queue' = Append(queue, w)
        /\ UNCHANGED <<phase, rows, wal, loaded, synced, pending, view, acked, taken, offset,
                       retracted, saves>>
    BY <1>b, <1>c DEF Stop
  <1>e. queue \in Seq(Prepared) /\ Len(queue) \in Nat
    BY <1>a, BatchFacts DEF TypeOK
  <1>f. /\ Len(queue') = Len(queue) + 1 /\ queue'[Len(queue) + 1] = w
        /\ \A q \in 1 .. Len(queue) : queue'[q] = queue[q]
    BY <1>d, <1>e
  <1>g. \A q \in 1 .. Len(queue') : q \in 1 .. Len(queue) \/ q = Len(queue) + 1
    BY <1>e, <1>f
  <1>h. ASSUME NEW cap, Known(cap) PROVE Known(cap)'
    BY <1>a, <1>d, <1>e, <1>f, <1>h, KnownStays DEF TypeOK
  <1>1. LogInv' /\ RowsCover' /\ RowsFromWal' /\ HasLatest' /\ BaseInv'
    BY <1>d, QuietStep
  <1>2. Served' /\ ViewOrigin' /\ AckedSynced'
    BY <1>a, <1>d DEF Served, ViewOrigin, AckedSynced, V2
  <1>3. Identities'
    <2>1. \A i \in 1 .. Len(wal') : V2(i)' => Known(wal[i].cap)'
      <3>1. ASSUME NEW i \in 1 .. Len(wal), V2(i) PROVE Known(wal[i].cap)
        BY <1>a, <3>1 DEF Identities
      <3>2. wal' = wal
        BY <1>d
      <3> QED BY <1>h, <3>1, <3>2 DEF V2, Known, FromSave, FromQueue
    <2>2. \A q \in 1 .. Len(queue') : queue'[q].cap.id = 2 * q
      <3>1. w.cap.id = 2 * (Len(queue) + 1)
        BY <1>c, <1>e DEF StopId
      <3>2. \A q \in 1 .. Len(queue) : queue[q].cap.id = 2 * q
        BY <1>a DEF Identities
      <3> QED BY <1>f, <1>g, <3>1, <3>2
    <2>3. \A t \in Sessions : view'[t] # NoCapsule => Known(view[t])'
      <3>1. ASSUME NEW t \in Sessions, view[t] # NoCapsule PROVE Known(view[t])
        BY <1>a, <3>1 DEF Identities
      <3>2. view' = view
        BY <1>d
      <3> QED BY <1>h, <3>1, <3>2 DEF Known, FromSave, FromQueue
    <2>4. \A t \in Sessions, i \in 1 .. Len(wal') :
             V2(i)' /\ wal'[i].cap.id = view'[t].id => wal'[i].cap = view'[t]
      BY <1>a, <1>d DEF Identities, V2
    <2> QED BY <2>1, <2>2, <2>3, <2>4 DEF Identities, Known, FromSave, FromQueue
  <1>4. QueueOrigin'
    <2>1. w.expected = 0 \/ \E i \in 1 .. Len(wal) : Origin(w, i)
      <3>1. CASE old = NoCapsule
        BY <1>c, <3>1, CapFacts
      <3>2. CASE old # NoCapsule
        <4>1. PICK i \in 1 .. Len(wal) : V2(i) /\ wal[i].cap = old /\ wal[i].cap.key = k
          BY <1>b, <1>d, <3>2, LatestInLog
        <4>2. /\ w.base = old.id /\ w.expected = old.revision /\ w.cap.key = k /\ w.cap.code = c
              /\ w.cap.state = PreparedState(old, c, next)
          BY <1>c
        <4>3. old.state = "complete" /\ old.code = c => w.cap.state # "invalidated"
          BY <4>2 DEF PreparedState
        <4> QED BY <4>1, <4>2, <4>3 DEF Origin
      <3> QED BY <3>1, <3>2
    <2>2. ASSUME NEW q \in 1 .. Len(queue')
          PROVE  \/ queue'[q].expected = 0 \/ queue'[q].base \in retracted
                 \/ \E i \in 1 .. Len(wal) : Origin(queue'[q], i)
      <3>1. CASE q \in 1 .. Len(queue)
        BY <1>a, <1>f, <3>1 DEF QueueOrigin
      <3>2. CASE q = Len(queue) + 1
        BY <1>f, <2>1, <3>2
      <3> QED BY <1>g, <3>1, <3>2
    <2>3. wal' = wal /\ retracted' = retracted
      BY <1>d
    <2> QED BY <2>2, <2>3 DEF QueueOrigin, Origin, V2
  <1> QED BY <1>1, <1>2, <1>3, <1>4 DEF IInv, RowInv, LinkInv

LEMMA CrashStep ==
    ASSUME IInv, TypeOK', Crash
    PROVE  IInv'
  <1>a. /\ TypeOK /\ TableInv /\ Identities /\ ViewOrigin /\ QueueOrigin /\ AckedSynced
        /\ ReplacesWhatWasRead /\ StopKeepsMilestone
    BY DEF IInv, TableInv, LinkInv, BaseInv
  <1>b. PICK n \in synced .. Len(wal) :
          /\ n \in Nat /\ Len(wal') = n /\ DOMAIN wal' = 1 .. n
          /\ \A i \in 1 .. n : i \in 1 .. Len(wal) /\ wal'[i] = wal[i]
          /\ retracted' = retracted \cup {wal[i].cap.id : i \in Versioned \ (1 .. n)}
    BY <1>a, CrashFacts
  <1>c. /\ phase' = "replay" /\ pending' = [t \in Sessions |-> NoCapsule]
        /\ UNCHANGED <<synced, view, acked, queue, offset, saves>>
    BY DEF Crash
  <1>d. synced \in Nat /\ Len(wal) \in Nat /\ DOMAIN wal = 1 .. Len(wal) /\ synced <= n
    <2>1. wal \in Seq(Batches) /\ synced \in 0 .. Len(wal)
      BY <1>a DEF TypeOK
    <2>2. Len(wal) \in Nat /\ DOMAIN wal = 1 .. Len(wal)
      BY <2>1
    <2> QED BY <2>1, <2>2
  <1>e. \A i \in 1 .. Len(wal) : V2(i) => i \in 1 .. n \/ wal[i].cap.id \in retracted'
    BY <1>b, <1>d DEF V2, Versioned
  <1>1. LogInv' /\ RowsCover' /\ RowsFromWal' /\ HasLatest'
    BY <1>a, LogCrash
  <1>2. Served'
    BY <1>c DEF Served
  <1>3. Identities'
    <2>1. ASSUME NEW x, Known(x) PROVE Known(x)'
      BY <1>c, <2>1 DEF Known, FromSave, FromQueue
    <2>2. \A i \in 1 .. Len(wal') : V2(i)' => Known(wal[i].cap)'
      <3>1. ASSUME NEW i \in 1 .. n, wal[i].cap.version = 2 PROVE Known(wal[i].cap)'
        BY SMTT(30), <1>a, <1>b, <1>c, <3>1 DEF Identities, V2, Known, FromSave, FromQueue
      <3> QED BY <1>b, <3>1 DEF V2, Known, FromSave, FromQueue
    <2>3. \A q \in 1 .. Len(queue') : queue'[q].cap.id = 2 * q
      BY <1>a, <1>c DEF Identities
    <2>4. \A t \in Sessions : view'[t] # NoCapsule => Known(view[t])'
      BY <1>a, <1>c DEF Identities, Known, FromSave, FromQueue
    <2>5. \A t \in Sessions, i \in 1 .. Len(wal') :
             V2(i)' /\ wal'[i].cap.id = view'[t].id => wal'[i].cap = view'[t]
      BY <1>a, <1>b, <1>c DEF Identities, V2
    <2> QED BY <2>2, <2>3, <2>4, <2>5 DEF Identities, Known, FromSave, FromQueue
  <1>4. ViewOrigin'
    <2> SUFFICES ASSUME NEW t \in Sessions, view'[t] # NoCapsule
                 PROVE  view'[t].id \in retracted' \/ \E i \in 1 .. Len(wal') : wal'[i].cap = view'[t]
      BY DEF ViewOrigin
    <2>1. view'[t] = view[t]
      BY <1>c
    <2>2. view[t].id \in retracted \/ \E i \in 1 .. Len(wal) : wal[i].cap = view[t]
      BY <1>a, <2>1 DEF ViewOrigin
    <2>3. ASSUME NEW i \in 1 .. Len(wal), wal[i].cap = view[t]
          PROVE  view[t].id \in retracted' \/ \E j \in 1 .. Len(wal') : wal'[j].cap = view[t]
      <3>1. view[t] \in Capsules
        BY <1>a, <2>1, RowFacts
      <3>2. V2(i)
        BY <2>3, <3>1, CapFacts DEF V2
      <3> QED BY <1>b, <1>e, <2>3, <3>2
    <2> QED BY <1>b, <2>1, <2>2, <2>3
  <1>5. QueueOrigin'
    <2> SUFFICES ASSUME NEW q \in 1 .. Len(queue)
                 PROVE  \/ queue[q].expected = 0 \/ queue[q].base \in retracted'
                        \/ \E i \in 1 .. Len(wal') : Origin(queue[q], i)'
      <3>1. queue' = queue
        BY <1>c
      <3> QED BY <3>1 DEF QueueOrigin, Origin, V2
    <2>1. ASSUME NEW i \in 1 .. Len(wal), Origin(queue[q], i)
          PROVE  queue[q].base \in retracted' \/ \E j \in 1 .. Len(wal') : Origin(queue[q], j)'
      <3>1. CASE i \in 1 .. n
        <4>1. Origin(queue[q], i)'
          BY <1>b, <1>c, <2>1, <3>1 DEF Origin, V2
        <4> QED BY <1>b, <3>1, <4>1
      <3>2. CASE wal[i].cap.id \in retracted'
        BY <2>1, <3>2 DEF Origin
      <3>3. V2(i)
        BY <2>1 DEF Origin
      <3> QED BY <1>e, <3>1, <3>2, <3>3
    <2> QED BY <1>a, <1>b, <2>1 DEF QueueOrigin
  <1>6. AckedSynced'
    <2>1. \A i \in 1 .. synced : i \in 1 .. n
      BY <1>b, <1>d
    <2> QED BY <1>a, <1>b, <1>c, <2>1 DEF AckedSynced, V2
  <1>7. BaseInv'
    <2>1. ASSUME NEW i \in 1 .. n, NEW j \in 1 .. n, Replaced(i, j)'
          PROVE  Replaced(i, j) /\ (FromStop(j)' => FromStop(j)) /\ i \in DOMAIN wal /\ j \in DOMAIN wal
      BY <1>b, <1>d, <2>1 DEF Replaced, SameKey, FromStop
    <2>2. ReplacesWhatWasRead'
      <3>1. ASSUME NEW i \in 1 .. n, NEW j \in 1 .. n, Replaced(i, j)'
            PROVE  wal'[j].base = wal'[i].cap.id \/ wal'[j].base \in retracted'
        BY <1>a, <1>b, <2>1, <3>1 DEF ReplacesWhatWasRead
      <3> QED BY <1>b, <3>1 DEF ReplacesWhatWasRead
    <2>3. StopKeepsMilestone'
      <3>1. ASSUME NEW i \in 1 .. n, NEW j \in 1 .. n, Replaced(i, j)', FromStop(j)',
                   wal'[i].cap.state = "complete", wal'[i].cap.code = wal'[j].cap.code,
                   wal'[j].base \notin retracted'
            PROVE  wal'[j].cap.state # "invalidated"
        BY <1>a, <1>b, <2>1, <3>1 DEF StopKeepsMilestone
      <3> QED BY <1>b, <3>1 DEF StopKeepsMilestone
    <2> QED BY <2>2, <2>3 DEF BaseInv
  <1> QED BY <1>1, <1>2, <1>3, <1>4, <1>5, <1>6, <1>7 DEF IInv, RowInv, LinkInv

\* The links do not mention the rows or the lane.
LEMMA LinkQuiet ==
    ASSUME TypeOK, LinkInv, UNCHANGED <<wal, queue, view, acked, retracted, saves>>,
           synced' = synced \/ synced' = Len(wal)
    PROVE  LinkInv'
  <1>a. Identities /\ ViewOrigin /\ QueueOrigin /\ AckedSynced
    BY DEF LinkInv
  <1>1. Identities'
    BY <1>a DEF Identities, V2, Known, FromSave, FromQueue
  <1>2. ViewOrigin' /\ QueueOrigin'
    BY <1>a DEF ViewOrigin, QueueOrigin, Origin, V2
  <1>3. AckedSynced'
    <2>1. \A i \in 1 .. synced : i \in 1 .. synced'
      BY BatchFacts DEF TypeOK
    <2> QED BY <1>a, <2>1 DEF AckedSynced, V2
  <1> QED BY <1>1, <1>2, <1>3 DEF LinkInv

LEMMA ReplayStep ==
    ASSUME IInv, TypeOK', Replay
    PROVE  IInv'
  <1>a. /\ phase = "replay"
        /\ UNCHANGED <<phase, wal, synced, pending, view, acked, queue, retracted, saves>>
    BY DEF Replay
  <1>1. LogInv' /\ RowsCover' /\ RowsFromWal' /\ HasLatest'
    BY LogReplay DEF IInv, TableInv
  <1>2. Served'
    BY <1>a DEF IInv, RowInv, Served
  <1>3. LinkInv'
    BY <1>a, LinkQuiet DEF IInv
  <1>4. BaseInv'
    BY <1>a DEF IInv, BaseInv, ReplacesWhatWasRead, StopKeepsMilestone, Replaced, SameKey, FromStop
  <1> QED BY <1>1, <1>2, <1>3, <1>4 DEF IInv, RowInv

LEMMA LaneStep ==
    ASSUME IInv, TypeOK', Refuse \/ Checkpoint \/ Publish \/ UNCHANGED vars
    PROVE  IInv'
  <1>a. /\ UNCHANGED <<rows, wal, loaded, pending, view, acked, queue, retracted, saves>>
        /\ synced' = synced \/ synced' = Len(wal)
        /\ phase' = phase \/ (phase' = "serving" /\ loaded = Len(wal))
    BY DEF Refuse, Checkpoint, Publish, vars
  <1>1. LogInv' /\ RowsCover' /\ RowsFromWal' /\ HasLatest' /\ BaseInv'
    BY <1>a, QuietStep
  <1>2. Served'
    BY <1>a DEF IInv, RowInv, Served
  <1>3. LinkInv'
    BY <1>a, LinkQuiet DEF IInv
  <1> QED BY <1>1, <1>2, <1>3 DEF IInv, RowInv

-------------------------------------------------------------------------------
(* The theorems.                                                           *)

LEMMA InitIInv == Init => IInv
  <1> SUFFICES ASSUME Init PROVE IInv
    OBVIOUS
  <1>1. wal = <<>> /\ Len(wal) = 0 /\ queue = <<>> /\ Len(queue) = 0
    BY DEF Init
  <1>2. TypeOK
    BY <1>1 DEF Init, TypeOK
  <1>3. LogInv
    BY <1>1 DEF LogInv, RevisionsIncrease, SessionKeys, AppliedOnce
  <1>4. \A s \in Sessions : rows[s] = NoCapsule /\ pending[s] = NoCapsule /\ view[s] = NoCapsule
    BY DEF Init
  <1>5. RowInv
    <2>1. \A k : KeyRows(k) = {}
      BY <1>4, CapFacts DEF KeyRows
    <2>2. RowsFromWal
      BY <1>4, CapFacts DEF RowsFromWal
    <2> QED BY <1>1, <1>4, <2>1, <2>2 DEF Init, RowInv, RowsCover, HasLatest, Served
  <1>6. LinkInv
    BY <1>1, <1>4 DEF Init, LinkInv, Identities, ViewOrigin, QueueOrigin, AckedSynced
  <1>7. BaseInv
    BY <1>1 DEF BaseInv, ReplacesWhatWasRead, StopKeepsMilestone
  <1> QED BY <1>2, <1>3, <1>5, <1>6, <1>7 DEF IInv

LEMMA IInvStep == IInv /\ [Next]_vars => IInv'
  <1> SUFFICES ASSUME IInv, [Next]_vars PROVE IInv'
    OBVIOUS
  <1>t. TypeOK'
    BY TypeStep DEF IInv, RowInv
  <1>1. ASSUME NEW s \in Sessions, NEW k \in Keys, Get(s, k) \/ Context(s, k) PROVE IInv'
    BY <1>t, <1>1, LookStep
  <1>2. ASSUME NEW s \in Sessions, NEW k \in Keys, NEW st \in SaveStates, NEW c \in CodeStates,
               Save(s, k, st, c)
        PROVE  IInv'
    BY <1>t, <1>2, SaveStep
  <1>3. ASSUME NEW s \in Sessions, NEW k \in Keys, NEW c \in CodeStates, NEW next \in BOOLEAN,
               Stop(s, k, c, next)
        PROVE  IInv'
    BY <1>t, <1>3, StopStep
  <1>4. ASSUME NEW s \in Sessions, BindLegacy(s) PROVE IInv'
    BY <1>t, <1>4, LegacyStep
  <1>5. ASSUME NEW s \in Sessions, Answer(s) \/ AnswerUnsynced(s) PROVE IInv'
    BY <1>t, <1>5, AnswerStep
  <1>6. CASE Apply
    BY <1>t, <1>6, ApplyStep
  <1>7. CASE Crash
    BY <1>t, <1>7, CrashStep
  <1>8. CASE Replay
    BY <1>t, <1>8, ReplayStep
  <1>9. CASE Refuse \/ Checkpoint \/ Publish \/ UNCHANGED vars
    BY <1>t, <1>9, LaneStep
  <1> QED BY <1>1, <1>2, <1>3, <1>4, <1>5, <1>6, <1>7, <1>8, <1>9 DEF Next

LEMMA IInvInvariant == Spec => []IInv
  BY InitIInv, IInvStep, PTL DEF Spec

\* Every handler, the lane, a crash and the replay keep the tables, the log and
\* the queue well formed.
THEOREM TypeCorrect == Spec => []TypeOK
  <1>1. IInv => TypeOK
    BY DEF IInv
  <1> QED BY <1>1, IInvInvariant, PTL

\* The counter that capsule_save and session_bind recompute from the rows never
\* gives two writes of a key the same revision, across crashes and replays.
THEOREM RevisionsNeverRepeat == Spec => []RevisionsIncrease
  <1>1. IInv => RevisionsIncrease
    BY DEF IInv, LogInv
  <1> QED BY <1>1, IInvInvariant, PTL

\* A Stop write that the queue lane processes again takes effect once.
THEOREM StopAppliedOnce == Spec => []AppliedOnce
  <1>1. IInv => AppliedOnce
    BY DEF IInv, LogInv
  <1> QED BY <1>1, IInvInvariant, PTL

\* The revision check makes every writer replace what it read, but for what a
\* crash took back.
THEOREM CompareAndSet == Spec => []ReplacesWhatWasRead
  <1>1. IInv => ReplacesWhatWasRead
    BY DEF IInv, BaseInv
  <1> QED BY <1>1, IInvInvariant, PTL

\* A Stop, applied however late, does not invalidate the completed milestone it
\* was prepared from at the same code state.
THEOREM MilestoneKept == Spec => []StopKeepsMilestone
  <1>1. IInv => StopKeepsMilestone
    BY DEF IInv, BaseInv
  <1> QED BY <1>1, IInvInvariant, PTL

\* What an answer after a sync reported survives every crash.
THEOREM Durable == Spec => []AckedStays
  <1>1. ASSUME IInv PROVE AckedStays
    <2>a. TypeOK /\ RowInv /\ Identities /\ AckedSynced /\ DOMAIN wal = 1 .. Len(wal)
      BY <1>1, BatchFacts DEF IInv, LinkInv
    <2>b. \A i \in 1 .. synced : i \in 1 .. Len(wal)
      BY <2>a, BatchFacts DEF TypeOK
    <2>1. \A a \in acked : \E i \in 1 .. Len(wal) : V2(i) /\ wal[i].cap.id = a
      BY <2>a, <2>b DEF AckedSynced
    <2>2. ASSUME phase = "serving", NEW s \in Sessions, view[s].id \in acked
          PROVE  view[s].revision <= Latest(view[s].key).revision
      <3>1. PICK i \in 1 .. Len(wal) : V2(i) /\ wal[i].cap.id = view[s].id
        BY <2>1, <2>2
      <3>2. wal[i].cap = view[s]
        BY <2>a, <3>1 DEF Identities
      <3>3. view[s].key \in Keys
        BY <2>a, <3>1, <3>2, BatchFacts, CapFacts
      <3> QED BY <2>a, <2>2, <3>1, <3>2, <3>3, LatestCoversLog
    <2> QED BY <2>a, <2>1, <2>2 DEF AckedStays
  <1> QED BY <1>1, IInvInvariant, PTL

-------------------------------------------------------------------------------
(* The implementation of the abstract register (Revisions).                  *)

Version(i) ==
    [key |-> wal[i].cap.key, revision |-> wal[i].cap.revision, id |-> wal[i].cap.id,
     base |-> wal[i].base]

\* The versions are those of the batches that number a capsule.
LEMMA VersionFacts ==
    ASSUME TypeOK
    PROVE  /\ Versions = {Version(i) : i \in Versioned}
           /\ \A i \in Versioned : i \in 1 .. Len(wal) /\ V2(i) /\ wal[i].cap \in Capsules
  <1>1. Versions = {Version(i) : i \in Versioned}
    BY DEF Versions, Version
  <1>2. \A i \in Versioned : i \in 1 .. Len(wal) /\ V2(i) /\ wal[i].cap \in Capsules
    BY BatchFacts DEF Versioned, V2
  <1> QED BY <1>1, <1>2

\* A steady log has the same versions.
LEMMA VersionsStay ==
    ASSUME wal' = wal
    PROVE  Versions' = Versions
  BY DEF Versions, Versioned

\* A write of a capsule is the next version of its key, over what its writer had read.
LEMMA WriteRefines ==
    ASSUME IInv, IInv', phase = "serving", NEW s \in Sessions, NEW cap \in Capsules, NEW base \in Nat,
           Write(s, cap, base), cap.revision = Latest(cap.key).revision + 1,
           UNCHANGED <<retracted, acked>>
    PROVE  RevisionsSpec!Write
  <1> DEFINE k == cap.key
             v == [key |-> k, revision |-> cap.revision, id |-> cap.id, base |-> base]
  <1>a. /\ TypeOK /\ RowInv /\ HasLatest /\ Served /\ k \in Keys /\ cap.version = 2
        /\ TypeOK' /\ AppliedOnce' /\ ReplacesWhatWasRead'
    BY CapFacts DEF IInv, RowInv, LogInv, BaseInv
  <1>n. PICK n \in Nat : n = Len(wal) + 1
    BY <1>a, BatchFacts
  <1>1. /\ Len(wal) \in Nat /\ Len(wal') = n /\ DOMAIN wal' = 1 .. n /\ DOMAIN wal = 1 .. Len(wal)
        /\ \A i \in 1 .. Len(wal) : wal'[i] = wal[i]
        /\ wal'[n] = [session |-> s, cap |-> cap, base |-> base]
    <2>1. /\ wal' \in Seq(Batches) /\ Len(wal') = Len(wal) + 1
          /\ \A i \in 1 .. Len(wal) : wal'[i] = wal[i]
          /\ wal'[Len(wal) + 1] = [session |-> s, cap |-> cap, base |-> base]
      BY <1>a, WriteFacts
    <2> QED BY <1>a, <1>n, <2>1, BatchFacts
  <1>2. wal'[n].cap = cap /\ wal'[n].base = base /\ n \in DOMAIN wal' /\ n \notin DOMAIN wal
    BY <1>n, <1>1
  <1>3. Versioned' = Versioned \cup {n}
    <2>1. DOMAIN wal' = (DOMAIN wal) \cup {n} /\ \A i \in DOMAIN wal : wal'[i] = wal[i]
      BY <1>n, <1>1
    <2>2. wal'[n].cap.version = 2
      BY <1>a, <1>2
    <2> QED BY <2>1, <2>2 DEF Versioned
  <1>4. Versions' = Versions \cup {v}
    <2>1. /\ \A i \in Versioned : Version(i)' = Version(i)
          /\ Version(n)' = v
      BY <1>n, <1>1, <1>2 DEF Versioned, Version
    <2>2. Versions' = {Version(i)' : i \in Versioned'}
      BY DEF Versions, Version
    <2>3. Versions = {Version(i) : i \in Versioned}
      BY DEF Versions, Version
    <2> HIDE DEF v
    <2> QED BY <1>3, <2>1, <2>2, <2>3
  <1>5. \A w \in Versions : w.id # v.id
    <2>1. ASSUME NEW i \in Versioned PROVE wal[i].cap.id # cap.id
      <3>1. i \in DOMAIN wal' /\ i # n /\ wal'[i] = wal[i] /\ wal'[i].cap.version = 2
        BY <1>1, <1>2 DEF Versioned
      <3> QED BY <1>a, <1>2, <3>1 DEF AppliedOnce
    <2> QED BY <2>1 DEF Versions
  <1>6. RevisionsSpec!Of(k) = {w \in Versions : w.key = k}
    BY DEF RevisionsSpec!Of
  <1>7. \A i \in Versioned : wal[i].cap.key = k => wal[i].cap.revision <= Latest(k).revision
    BY <1>a, VersionFacts, LatestCoversLog
  <1>8. RevisionsSpec!Follows(v)
    <2>1. CASE Latest(k) = NoCapsule
      <3>1. cap.revision = 1
        BY <2>1, CapFacts
      <3>2. \A i \in Versioned : wal[i].cap.key # k
        <4> SUFFICES ASSUME NEW i \in Versioned, wal[i].cap.key = k PROVE FALSE
          OBVIOUS
        <4>1. wal[i].cap.revision <= 0
          BY <1>7, <2>1, CapFacts
        <4>2. wal[i].cap.revision \in Nat \ {0}
          BY <1>a, VersionFacts, CapFacts
        <4> QED BY <4>1, <4>2
      <3>3. {w \in Versions : w.key = k} = {}
        BY <3>2 DEF Versions
      <3> QED BY <1>6, <3>1, <3>3 DEF RevisionsSpec!Follows
    <2>2. CASE Latest(k) # NoCapsule
      <3>1. PICK j \in 1 .. Len(wal) : V2(j) /\ wal[j].cap = Latest(k) /\ wal[j].cap.key = k
        BY <1>a, <2>2, LatestInLog
      <3>2. j \in Versioned /\ Version(j) \in Versions
        BY <1>1, <3>1 DEF Versioned, V2, Versions, Version
      <3>3. Version(j).key = k /\ Version(j).revision = Latest(k).revision /\ Version(j).id = wal[j].cap.id
        BY <3>1 DEF Version
      <3>4. \A u \in {w \in Versions : w.key = k} : u.revision <= Version(j).revision
        BY <1>7, <3>3 DEF Versions
      <3>5. base = wal[j].cap.id \/ base \in retracted
        <4>1. Replaced(j, n)'
          BY <1>a, <1>n, <1>1, <1>2, <3>1 DEF Replaced, SameKey, V2
        <4>2. j \in DOMAIN wal' /\ wal'[j] = wal[j]
          BY <1>n, <1>1
        <4> QED BY <1>a, <1>2, <4>1, <4>2 DEF ReplacesWhatWasRead
      <3> DEFINE w == Version(j)
      <3>6. /\ w \in {x \in Versions : x.key = k}
            /\ v.revision = w.revision + 1 /\ v.key = k
            /\ v.base = w.id \/ v.base \in retracted
        BY <3>2, <3>3, <3>5
      <3> HIDE DEF v, w, k
      <3> QED BY <1>6, <3>4, <3>6 DEF RevisionsSpec!Follows, w
    <2> QED BY <2>1, <2>2
  <1> HIDE DEF v
  <1>9. v \in Versions'
    BY <1>4
  <1> QED BY <1>4, <1>5, <1>8, <1>9 DEF RevisionsSpec!Write

\* An answer acknowledges a version.
LEMMA AckRefines ==
    ASSUME TypeOK, UNCHANGED <<wal, retracted>>,
           NEW i \in 1 .. Len(wal), V2(i), acked' = acked \cup {wal[i].cap.id}
    PROVE  RevisionsSpec!Acknowledge
  <1>1. i \in Versioned
    BY BatchFacts DEF Versioned, V2
  <1>2. Version(i) \in Versions /\ Version(i).id = wal[i].cap.id
    BY <1>1 DEF Versions, Version
  <1> QED BY <1>2, VersionsStay DEF RevisionsSpec!Acknowledge

\* A crash takes back the newest versions, and none that was acknowledged.
LEMMA CrashRefines ==
    ASSUME IInv, Crash
    PROVE  RevisionsSpec!TakeBack
  <1>a. TypeOK /\ RevisionsIncrease /\ AppliedOnce /\ AckedSynced
    BY DEF IInv, LogInv, LinkInv
  <1>1. PICK n \in synced .. Len(wal) :
             /\ n \in Nat /\ Len(wal') = n /\ DOMAIN wal' = 1 .. n
             /\ \A i \in 1 .. n : i \in 1 .. Len(wal) /\ wal'[i] = wal[i]
             /\ retracted' = retracted \cup {wal[i].cap.id : i \in Versioned \ (1 .. n)}
    BY <1>a, CrashFacts
  <1>2. DOMAIN wal = 1 .. Len(wal) /\ Len(wal) \in Nat /\ synced \in Nat /\ synced <= n
    BY <1>a, BatchFacts DEF TypeOK
  <1>3. Versioned' = Versioned \cap (1 .. n)
    BY <1>1, <1>2 DEF Versioned
  <1>4. Versions' = {Version(i) : i \in Versioned \cap (1 .. n)}
    <2>1. \A i \in 1 .. n : Version(i)' = Version(i)
      BY <1>1 DEF Version
    <2>2. Versions' = {Version(i)' : i \in Versioned'}
      BY DEF Versions, Version
    <2> QED BY <1>3, <2>1, <2>2
  <1>5. Versions = {Version(i) : i \in Versioned}
    BY DEF Versions, Version
  <1>6. \A i, j \in Versioned : Version(i) = Version(j) => i = j
    BY <1>a DEF Version, Versioned, AppliedOnce
  <1>7. \A i \in Versioned : Version(i) \in Versions' <=> i \in 1 .. n
    BY <1>4, <1>6
  <1>8. Versions' \subseteq Versions
    BY <1>4, <1>5
  <1>9. ASSUME NEW v \in Versions, NEW w \in Versions, v.key = w.key, v.revision < w.revision, w \in Versions'
        PROVE  v \in Versions'
    <2>1. PICK i \in Versioned : v = Version(i)
      BY <1>5
    <2>2. PICK j \in Versioned : w = Version(j)
      BY <1>5
    <2>3. j \in 1 .. n
      BY <1>7, <1>9, <2>2
    <2>4. wal[i].cap.key = wal[j].cap.key /\ wal[i].cap.revision < wal[j].cap.revision
      BY <1>9, <2>1, <2>2 DEF Version
    <2>5. wal[i].cap.revision \in Nat /\ wal[j].cap.revision \in Nat /\ i \in 1 .. Len(wal) /\ j \in 1 .. Len(wal)
      BY <1>a, VersionFacts, CapFacts
    <2>6. ~(j < i)
      <3>1. SameKey(j, i)
        BY <2>4 DEF SameKey, Versioned
      <3>2. j < i => wal[j].cap.revision < wal[i].cap.revision
        BY <1>a, <1>2, <2>5, <3>1 DEF RevisionsIncrease
      <3> QED BY <2>4, <2>5, <3>2
    <2>7. i \in 1 .. n
      BY <1>2, <2>3, <2>5, <2>6
    <2> QED BY <1>7, <2>1, <2>7
  <1>10. ASSUME NEW v \in Versions, v.id \in acked PROVE v \in Versions'
    <2>1. PICK i \in Versioned : v = Version(i)
      BY <1>5
    <2>2. PICK j \in 1 .. synced : V2(j) /\ wal[j].cap.id = v.id
      BY <1>a, <1>10 DEF AckedSynced
    <2>3. j \in 1 .. n
      BY <1>2
    <2>4. j \in DOMAIN wal /\ i \in DOMAIN wal /\ wal[i].cap.id = wal[j].cap.id /\ wal[i].cap.version = 2
      BY <1>1, <1>2, <2>1, <2>2, <2>3 DEF Version, Versioned
    <2>5. i = j
      BY <1>a, <2>4 DEF AppliedOnce
    <2> QED BY <1>7, <2>1, <2>3, <2>5
  <1>11. retracted' = retracted \cup {v.id : v \in Versions \ Versions'}
    <2>1. Versions \ Versions' = {Version(i) : i \in Versioned \ (1 .. n)}
      BY <1>5, <1>7
    <2>2. \A i \in Versioned : Version(i).id = wal[i].cap.id
      BY DEF Version
    <2>3. {v.id : v \in Versions \ Versions'} = {wal[i].cap.id : i \in Versioned \ (1 .. n)}
      BY <2>1, <2>2
    <2> QED BY <1>1, <2>3
  <1>12. acked' = acked
    BY DEF Crash
  <1> QED BY <1>8, <1>9, <1>10, <1>11, <1>12 DEF RevisionsSpec!TakeBack

\* Every other step is not seen.
LEMMA RevisionsStutter ==
    ASSUME Versions' = Versions, UNCHANGED <<retracted, acked>>
    PROVE  UNCHANGED RevisionsSpec!revisionVars
  BY DEF RevisionsSpec!revisionVars

\* An unversioned batch has no revision.
LEMMA LegacyStutters ==
    ASSUME TypeOK, Served, NEW s \in Sessions, BindLegacy(s)
    PROVE  Versions' = Versions /\ UNCHANGED <<retracted, acked>>
  <1>1. phase = "serving" /\ Write(s, Legacy, 0) /\ UNCHANGED <<retracted, acked>>
    BY DEF BindLegacy, Idle
  <1>2. /\ wal' \in Seq(Batches) /\ Len(wal') = Len(wal) + 1
        /\ \A i \in 1 .. Len(wal) : wal'[i] = wal[i]
        /\ wal'[Len(wal) + 1] = [session |-> s, cap |-> Legacy, base |-> 0]
    BY <1>1, WriteFacts
  <1>3. DOMAIN wal' = 1 .. (Len(wal) + 1) /\ DOMAIN wal = 1 .. Len(wal) /\ Len(wal) \in Nat
    BY <1>2, BatchFacts
  <1>4. wal'[Len(wal) + 1].cap.version # 2
    BY <1>2, CapFacts
  <1>5. Versioned' = Versioned
    BY <1>2, <1>3, <1>4 DEF Versioned
  <1>6. \A i \in Versioned : wal'[i] = wal[i]
    BY <1>2, <1>3 DEF Versioned
  <1> QED BY <1>1, <1>5, <1>6 DEF Versions

LEMMA StepsRefine ==
    ASSUME IInv, IInv', [Next]_vars
    PROVE  [RevisionsSpec!Next]_RevisionsSpec!revisionVars
  <1>a. TypeOK /\ RowInv /\ HasLatest /\ Served
    BY DEF IInv, RowInv
  <1>1. ASSUME NEW s \in Sessions, NEW k \in Keys, NEW st \in SaveStates, NEW c \in CodeStates, Save(s, k, st, c)
        PROVE  RevisionsSpec!Write
    <2> DEFINE cap == [version |-> 2, key |-> k, revision |-> NextRevision(s, k), state |-> st, code |-> c,
                       id |-> SaveId]
    <2>1. /\ phase = "serving" /\ Write(s, cap, Seen(s, k).id) /\ UNCHANGED <<retracted, acked>>
      BY <1>1 DEF Save, Idle
    <2>2. cap \in Capsules
      <3>1. NextRevision(s, k) \in Nat \ {0}
        BY <1>a, LatestFacts DEF NextRevision
      <3>2. SaveId \in Nat \ {0} /\ st \in States
        BY <1>a, CapsuleAssumption DEF SaveId, TypeOK, States
      <3> QED BY <3>1, <3>2 DEF Capsules
    <2>3. cap.revision = Latest(cap.key).revision + 1
      BY DEF NextRevision
    <2>4. Seen(s, k).id \in Nat
      BY <1>a, RowFacts, CapFacts DEF Seen
    <2> HIDE DEF cap
    <2> QED BY <2>1, <2>2, <2>3, <2>4, WriteRefines
  <1>2. CASE Apply
    <2> DEFINE w == queue[taken + 1]
    <2>1. /\ phase = "serving" /\ taken < Len(queue) /\ Admitted(w) /\ Write(w.session, w.cap, w.base)
          /\ UNCHANGED <<retracted, acked>>
      BY <1>2 DEF Apply
    <2>2. w.session \in Sessions /\ w.cap \in Capsules /\ w.base \in Nat
      <3>1. taken + 1 \in 1 .. Len(queue)
        BY <1>a, <2>1, BatchFacts DEF TypeOK
      <3> QED BY <1>a, <3>1, BatchFacts
    <2>3. w.cap.revision = Latest(w.cap.key).revision + 1
      BY <2>1 DEF Admitted
    <2> HIDE DEF w
    <2> QED BY <2>1, <2>2, <2>3, WriteRefines DEF RevisionsSpec!Next
  <1>3. ASSUME NEW s \in Sessions, NEW k \in Keys, Get(s, k) PROVE RevisionsSpec!Acknowledge
    <2>1. /\ phase = "serving" /\ Latest(k) # NoCapsule /\ UNCHANGED <<wal, retracted>>
          /\ acked' = acked \cup {Latest(k).id}
      BY <1>3 DEF Get, Look, Idle
    <2>2. PICK i \in 1 .. Len(wal) : V2(i) /\ wal[i].cap = Latest(k)
      BY <2>1, LatestInLog
    <2> QED BY <1>a, <2>1, <2>2, AckRefines
  <1>4. ASSUME NEW s \in Sessions, Answer(s) PROVE RevisionsSpec!Acknowledge
    <2>1. /\ pending[s] # NoCapsule /\ UNCHANGED <<wal, retracted>> /\ acked' = acked \cup {pending[s].id}
      BY <1>4 DEF Answer
    <2>2. PICK i \in 1 .. Len(wal) : wal[i].cap = pending[s]
      BY <1>a, <2>1 DEF Served
    <2>3. V2(i)
      BY <1>a, <2>1, <2>2, RowFacts, CapFacts DEF V2
    <2> QED BY <1>a, <2>1, <2>2, <2>3, AckRefines
  <1>5. ASSUME NEW s \in Sessions, BindLegacy(s) PROVE UNCHANGED RevisionsSpec!revisionVars
    BY <1>a, <1>5, LegacyStutters, RevisionsStutter
  <1>6. CASE Crash
    BY <1>6, CrashRefines DEF RevisionsSpec!Next
  <1>7. ASSUME \/ \E s \in Sessions, k \in Keys :
                    \/ Context(s, k)
                    \/ \E c \in CodeStates, next \in BOOLEAN : Stop(s, k, c, next)
               \/ \E s \in Sessions : AnswerUnsynced(s)
               \/ Refuse \/ Checkpoint \/ Replay \/ Publish \/ UNCHANGED vars
        PROVE  UNCHANGED RevisionsSpec!revisionVars
    <2>1. UNCHANGED <<wal, retracted, acked>>
      BY <1>7 DEF Context, Look, Stop, AnswerUnsynced, Refuse, Checkpoint, Replay, Publish, vars
    <2> QED BY <2>1, VersionsStay, RevisionsStutter
  <1> QED BY <1>1, <1>2, <1>3, <1>4, <1>5, <1>6, <1>7 DEF Next, RevisionsSpec!Next

\* For any sessions, streams and crashes, the rows, the log and the queue implement a
\* register with compare and set: each capsule of a key follows the one its writer had
\* read, and no acknowledged one is taken back.
THEOREM Refinement == Spec => ImplementsRevisions
  <1>1. Init => RevisionsSpec!Init
    <2> SUFFICES ASSUME Init PROVE RevisionsSpec!Init
      OBVIOUS
    <2>1. wal = <<>> /\ retracted = {} /\ acked = {}
      BY DEF Init
    <2>2. Versions = {}
      BY <2>1 DEF Versions, Versioned
    <2> QED BY <2>1, <2>2 DEF RevisionsSpec!Init
  <1>2. IInv /\ IInv' /\ [Next]_vars => [RevisionsSpec!Next]_RevisionsSpec!revisionVars
    BY StepsRefine
  <1> QED BY <1>1, <1>2, IInvInvariant, PTL DEF Spec, ImplementsRevisions, RevisionsSpec!Spec
===============================================================================
