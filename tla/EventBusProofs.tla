--------------------------- MODULE EventBusProofs ---------------------------
(***************************************************************************)
(* Proofs about EventBus: for any number of processes, entries, batch size *)
(* and stream length, the bus implements AtMostOnceDelivery, replays no    *)
(* history and acknowledges nothing that has not been handled.             *)
(***************************************************************************)
EXTENDS EventBus, TLAPS

\* A loop without a batch is none of the working ones.
LEMMA NotWorking == Down \notin BusyLoops /\ Reading \notin BusyLoops /\ Sleeping \notin BusyLoops
  BY DEF Down, Reading, Sleeping, BusyLoops

\* A batch of entries is one of the working loops, with these fields.
LEMMA Batch ==
    \A pc \in {"dispatching", "handling", "acking"}, first, last \in Entries :
        /\ Busy(pc, first, last) \in BusyLoops
        /\ Busy(pc, first, last).pc = pc
        /\ Busy(pc, first, last).first = first
        /\ Busy(pc, first, last).last = last
  BY DEF Busy, BusyLoops

\* What is known of a loop with a batch.
LEMMA WorkingBatch ==
    ASSUME TypeOK, NEW p \in Processes, Working(p)
    PROVE  /\ loop[p].pc \in {"dispatching", "handling", "acking"}
           /\ loop[p].first \in Entries /\ loop[p].last \in Entries
           /\ loop[p].first \in Nat /\ loop[p].last \in Nat
           /\ loop[p].first <= loop[p].last /\ loop[p].last <= cursor
           /\ loop[p] = Busy(loop[p].pc, loop[p].first, loop[p].last)
           /\ loop[p] # Down
<1>1. loop[p] \in BusyLoops
  BY DEF Working
<1>2. QED
  BY <1>1, BoundsAssumption, NotWorking DEF TypeOK, BusyLoops, Busy, Entries, Working

\* Nothing is known initially.
LEMMA InitInvariant == Init => IInv
<1> SUFFICES ASSUME Init PROVE IInv
  OBVIOUS
<1>1. \A p \in Processes : loop[p] = Down /\ ~Working(p)
  BY NotWorking DEF Init, Working
<1>2. TypeOK
  <2>1. 0 \in 0..MaxEntries /\ 0 \in 0..0
    BY BoundsAssumption
  <2>2. loop \in [Processes -> BusyLoops \cup {Down, Reading, Sleeping}]
    BY DEF Init
  <2>3. QED
    BY <1>1, <2>1, <2>2 DEF Init, TypeOK
<1>3. GroupFirst /\ BatchesUntouched
  BY <1>1 DEF Init, GroupFirst, BatchesUntouched
<1>4. RunsAccounted
  BY DEF Init, RunsAccounted, AcknowledgedAfterRun
<1>5. QED
  BY <1>2, <1>3, <1>4 DEF IInv

\* A step that leaves Redis and the history alone and takes the batch of one
\* process away preserves the invariant.
LEMMA DropBatch ==
    ASSUME IInv, NEW p \in Processes, UNCHANGED <<redis, history>>,
           NEW x \in {Down, Reading, Sleeping}, loop' = [loop EXCEPT ![p] = x],
           x = Down \/ created
    PROVE  IInv'
<1> USE DEF redis, history
<1>1. TypeOK /\ loop'[p] = x /\ ~Working(p)'
  BY NotWorking DEF IInv, TypeOK, Working
<1>2. \A q \in Processes : q # p => loop'[q] = loop[q] /\ Working(q)' = Working(q)
  BY <1>1 DEF TypeOK, Working
<1>3. TypeOK'
  BY <1>1, <1>2 DEF TypeOK
<1>4. GroupFirst'
  BY <1>1, <1>2 DEF IInv, GroupFirst
<1>5. RunsAccounted'
  BY DEF IInv, RunsAccounted, AcknowledgedAfterRun
<1>6. BatchesUntouched'
  BY <1>1, <1>2 DEF IInv, BatchesUntouched, ToDispatch
<1>7. QED
  BY <1>3, <1>4, <1>5, <1>6 DEF IInv

\* An entry is appended, others perhaps trimmed.
LEMMA PublishStep == ASSUME IInv, Publish PROVE IInv'
<1>1. TypeOK'
  <2>1. published \in 0..MaxEntries /\ published < MaxEntries /\ published' = published + 1
        /\ trimmed \in 0..published
    BY DEF IInv, TypeOK, Publish
  <2>2. trimmed' \in 0..published'
    BY <2>1, BoundsAssumption DEF Publish, TrimTo
  <2>3. QED
    BY <2>1, <2>2, BoundsAssumption DEF IInv, TypeOK, Publish, history, Working
<1>2. GroupFirst' /\ RunsAccounted' /\ BatchesUntouched'
  BY DEF IInv, GroupFirst, RunsAccounted, AcknowledgedAfterRun, BatchesUntouched, ToDispatch,
         Working, Publish, history
<1>3. QED
  BY <1>1, <1>2 DEF IInv

\* A process starts, and creates the group if it is the first.
LEMMA StartStep == ASSUME IInv, NEW p \in Processes, Start(p) PROVE IInv'
<1>1. CASE created
  <2>1. UNCHANGED <<redis, history>> /\ loop' = [loop EXCEPT ![p] = Reading]
    BY <1>1 DEF Start, redis, history, IInv, TypeOK
  <2>2. QED
    BY <1>1, <2>1, DropBatch
<1>2. CASE ~created
  <2>1. /\ delivered = {} /\ pending = {} /\ \A q \in Processes : loop[q] = Down /\ ~Working(q)
        /\ \A e \in Entries : runs[e] = 0
    BY <1>2, NotWorking DEF IInv, TypeOK, GroupFirst, RunsAccounted, Working
  <2>2. /\ created' = TRUE /\ cursor' = published /\ born' = published
        /\ UNCHANGED <<published, trimmed, pending, dlq, delivered, runs, seen>>
        /\ loop' = [loop EXCEPT ![p] = Reading]
    BY <1>2 DEF Start, GroupStart
  <2>3. \A q \in Processes : ~Working(q)'
    BY <2>1, <2>2, NotWorking DEF IInv, TypeOK, Working
  <2>4. TypeOK'
    BY <2>1, <2>2, <2>3, BoundsAssumption DEF IInv, TypeOK
  <2>5. RunsAccounted'
    <3>1. \A q \in Processes : seen[q] <= published
      BY BoundsAssumption DEF IInv, TypeOK, RunsAccounted
    <3>2. QED
      BY <2>1, <2>2, <3>1 DEF RunsAccounted, AcknowledgedAfterRun
  <2>6. GroupFirst' /\ BatchesUntouched'
    BY <2>1, <2>2, <2>3, BoundsAssumption DEF IInv, TypeOK, GroupFirst, BatchesUntouched
  <2>7. QED
    BY <2>4, <2>5, <2>6 DEF IInv
<1>3. QED
  BY <1>1, <1>2 DEF IInv, TypeOK

\* The entries Redis serves lie beyond the cursor, and nobody has run on them.
LEMMA Served ==
    ASSUME IInv, NEW p \in Processes, Serve(p)
    PROVE  /\ FirstUnread \in Entries /\ LastServed \in Entries /\ created
           /\ cursor < FirstUnread /\ FirstUnread <= LastServed /\ LastServed <= published
           /\ \A e \in FirstUnread..LastServed :
                 e \in Entries /\ e \notin delivered /\ runs[e] = 0 /\ e > born /\ \A q \in Processes : seen[q] < e
           /\ \A q \in Processes : Working(q) => \A e \in loop[q].first..loop[q].last : e <= cursor
<1>1. /\ published \in Nat /\ published <= MaxEntries /\ cursor \in Nat /\ cursor <= published
      /\ trimmed \in Nat /\ trimmed <= published /\ MaxEntries \in Nat
  BY BoundsAssumption DEF IInv, TypeOK
<1>2. cursor < FirstUnread /\ FirstUnread <= published /\ FirstUnread \in Nat /\ FirstUnread >= 1
  BY <1>1 DEF Serve, FirstUnread
<1>3. FirstUnread <= LastServed /\ LastServed <= published /\ LastServed \in Nat
  BY <1>1, <1>2, BoundsAssumption DEF LastServed
<1>4. created /\ born <= cursor /\ born \in Nat
  BY NotWorking DEF IInv, TypeOK, GroupFirst, Serve, Reading, Down
<1>5. ASSUME NEW e \in FirstUnread..LastServed
      PROVE  e \in Entries /\ e \notin delivered /\ runs[e] = 0 /\ e > born /\ \A q \in Processes : seen[q] < e
  <2>1. e \in Entries /\ e > cursor /\ e \in Nat
    BY <1>1, <1>2, <1>3, <1>5 DEF Entries
  <2>2. e \notin delivered
    BY <1>1, <2>1 DEF IInv, TypeOK
  <2>3. runs[e] = 0
    BY <2>1, <2>2 DEF IInv, RunsAccounted
  <2>4. \A q \in Processes : seen[q] < e
    BY <1>1, <2>1 DEF IInv, TypeOK, RunsAccounted
  <2>5. QED
    BY <1>1, <1>4, <2>1, <2>2, <2>3, <2>4
<1>6. \A q \in Processes : Working(q) => \A e \in loop[q].first..loop[q].last : e <= cursor
  BY <1>1, WorkingBatch DEF IInv
<1>7. QED
  BY <1>1, <1>2, <1>3, <1>4, <1>5, <1>6 DEF Entries

\* Redis serves p and p gets the entries, or goes to sleep without them.
LEMMA ServeStep ==
    ASSUME IInv, NEW p \in Processes, Serve(p),
           NEW x \in {Sleeping, Busy("dispatching", FirstUnread, LastServed)},
           loop' = [loop EXCEPT ![p] = x]
    PROVE  IInv'
<1> DEFINE f == FirstUnread
           l == LastServed
<1>1. /\ f \in Entries /\ l \in Entries /\ created /\ cursor < f /\ f <= l /\ l <= published
      /\ \A e \in f..l : e \in Entries /\ e \notin delivered /\ runs[e] = 0 /\ e > born
                         /\ \A q \in Processes : seen[q] < e
      /\ \A q \in Processes : Working(q) => \A e \in loop[q].first..loop[q].last : e <= cursor
  BY Served
<1>2. /\ cursor' = l /\ pending' = pending \cup (f..l) /\ delivered' = delivered \cup (f..l)
      /\ UNCHANGED <<published, trimmed, created, dlq, born, runs, seen>>
  BY DEF Serve
<1>3. /\ published \in Nat /\ cursor \in Nat /\ f \in Nat /\ l \in Nat /\ f >= 1 /\ MaxEntries \in Nat
      /\ f \in 1..MaxEntries /\ l \in 1..MaxEntries
  BY <1>1, BoundsAssumption DEF IInv, TypeOK, Entries
<1>4. /\ Busy("dispatching", f, l) \in BusyLoops /\ Busy("dispatching", f, l).pc = "dispatching"
      /\ Busy("dispatching", f, l).first = f /\ Busy("dispatching", f, l).last = l
  BY <1>1, Batch
<1>5. loop'[p] = x /\ ~Working(p)
  BY NotWorking DEF IInv, TypeOK, Working, Serve
<1>6. \A q \in Processes : q # p => loop'[q] = loop[q] /\ Working(q)' = Working(q)
  BY DEF IInv, TypeOK, Working
<1> HIDE DEF f, l
<1>7. x = Sleeping \/ x = Busy("dispatching", f, l)
  BY DEF f, l
<1>8. Working(p)' => loop'[p] = Busy("dispatching", f, l)
  BY <1>5, <1>7, NotWorking DEF Working
<1>9. TypeOK'
  <2>1. /\ published' \in 0..MaxEntries /\ trimmed' \in 0..published' /\ created' \in BOOLEAN
        /\ cursor' \in 0..published' /\ born' \in 0..published' /\ dlq' \subseteq Entries
        /\ runs' \in [Entries -> Nat]
        /\ seen' \in [Processes -> 0..MaxEntries]
    BY <1>1, <1>2, <1>3 DEF IInv, TypeOK
  <2>2. pending' \subseteq delivered' /\ delivered' \subseteq 1..cursor'
    BY <1>1, <1>2, <1>3 DEF IInv, TypeOK
  <2>3. loop' \in [Processes -> BusyLoops \cup {Down, Reading, Sleeping}]
    BY <1>4, <1>7 DEF IInv, TypeOK
  <2>4. \A q \in Processes : Working(q)' => loop'[q].first <= loop'[q].last /\ loop'[q].last <= cursor'
    <3>1. ASSUME Working(p)'
          PROVE  loop'[p].first <= loop'[p].last /\ loop'[p].last <= cursor'
      BY <1>1, <1>2, <1>3, <1>4, <1>8, <3>1
    <3>2. ASSUME NEW q \in Processes, q # p, Working(q)
          PROVE  loop[q].first <= loop[q].last /\ loop[q].last <= cursor'
      BY <1>1, <1>2, <1>3, <3>2, WorkingBatch DEF IInv
    <3>3. QED
      BY <1>6, <3>1, <3>2
  <2>5. QED
    BY <2>1, <2>2, <2>3, <2>4 DEF TypeOK
<1>10. GroupFirst'
  <2>1. created' /\ born' <= cursor'
    BY <1>1, <1>2, <1>3 DEF IInv, TypeOK, GroupFirst
  <2>2. QED
    BY <1>1, <1>2, <2>1 DEF IInv, GroupFirst
<1>11. RunsAccounted'
  <2>1. \A q \in Processes : seen'[q] <= cursor'
    BY <1>1, <1>2, <1>3 DEF IInv, TypeOK, RunsAccounted
  <2>2. QED
    BY <1>1, <1>2, <2>1 DEF IInv, RunsAccounted, AcknowledgedAfterRun
<1>12. BatchesUntouched'
  <2>1. ASSUME NEW q \in Processes, q # p, Working(q)
        PROVE  /\ \A e \in ToDispatch(q) : e \in delivered' /\ e \in pending' /\ runs[e] = 0 /\ seen[q] < e
               /\ loop[q].pc # "dispatching" => runs[loop[q].first] = 1
               /\ \A r \in Processes \ {q} : Working(r) =>
                     \A e \in loop[q].first..loop[q].last : e \notin loop[r].first..loop[r].last
    BY <1>2, <2>1 DEF IInv, BatchesUntouched
  <2>2. ASSUME NEW q \in Processes, Working(q)
        PROVE  \A e \in f..l : e \notin loop[q].first..loop[q].last
    BY <1>1, <1>3, <2>2, WorkingBatch DEF IInv
  <2>3. ASSUME Working(p)'
        PROVE  /\ ToDispatch(p)' = f..l
               /\ \A e \in f..l : e \in delivered' /\ e \in pending' /\ runs[e] = 0 /\ seen[p] < e
    BY <1>1, <1>2, <1>4, <1>8, <2>3 DEF ToDispatch
  <2>4. \A q \in Processes : q # p => ToDispatch(q)' = ToDispatch(q)
    BY <1>6 DEF ToDispatch
  <2>5. ASSUME NEW q \in Processes, Working(q)'
        PROVE  /\ \A e \in ToDispatch(q)' : e \in delivered' /\ e \in pending' /\ runs'[e] = 0 /\ seen'[q] < e
               /\ loop'[q].pc # "dispatching" => runs'[loop'[q].first] = 1
               /\ \A r \in Processes \ {q} : Working(r)' =>
                     \A e \in loop'[q].first..loop'[q].last : e \notin loop'[r].first..loop'[r].last
    <3>1. CASE q = p
      BY <1>2, <1>4, <1>6, <1>8, <2>2, <2>3, <2>5, <3>1
    <3>2. CASE q # p
      BY <1>2, <1>4, <1>6, <1>8, <2>1, <2>2, <2>4, <2>5, <3>2
    <3>3. QED
      BY <3>1, <3>2
  <2>6. QED
    BY <2>5 DEF BatchesUntouched
<1>13. QED
  BY <1>9, <1>10, <1>11, <1>12 DEF IInv

\* Handlers are run on the first entry of a batch.
LEMMA DispatchStep == ASSUME IInv, NEW p \in Processes, Dispatch(p) PROVE IInv'
<1> DEFINE f == loop[p].first
           l == loop[p].last
<1>1. /\ Working(p) /\ loop[p].pc = "dispatching" /\ runs' = [runs EXCEPT ![f] = @ + 1]
      /\ seen' = [seen EXCEPT ![p] = f] /\ loop' = [loop EXCEPT ![p].pc = "handling"]
      /\ UNCHANGED <<published, trimmed, created, cursor, pending, dlq, born, delivered>>
  BY DEF Dispatch, redis
<1>2. TypeOK /\ f \in Entries /\ l \in Entries /\ f \in Nat /\ l \in Nat /\ f <= l /\ l <= cursor
      /\ f \in 0..MaxEntries /\ loop[p] \in BusyLoops
  BY <1>1, WorkingBatch, BoundsAssumption DEF IInv, Entries, Working
<1>3. /\ f \in ToDispatch(p) /\ runs[f] = 0 /\ f \in delivered /\ f \in pending
  BY <1>1, <1>2 DEF IInv, BatchesUntouched, ToDispatch
<1>4. /\ loop'[p] \in BusyLoops /\ loop'[p].pc = "handling" /\ loop'[p].first = f /\ loop'[p].last = l
      /\ \A q \in Processes : q # p => loop'[q] = loop[q] /\ seen'[q] = seen[q]
      /\ \A q \in Processes : Working(q)' = Working(q) /\ loop'[q].first = loop[q].first
                             /\ loop'[q].last = loop[q].last
  BY <1>1, <1>2 DEF TypeOK, BusyLoops, Working
<1>5. /\ runs'[f] = 1 /\ seen'[p] = f /\ \A e \in Entries : e # f => runs'[e] = runs[e]
  BY <1>1, <1>2, <1>3 DEF TypeOK
<1>6. TypeOK'
  <2>1. loop' \in [Processes -> BusyLoops \cup {Down, Reading, Sleeping}]
    <3>1. loop' = [loop EXCEPT ![p] = loop'[p]]
      BY <1>1, <1>2 DEF TypeOK
    <3>2. QED
      BY <1>2, <1>4, <3>1 DEF TypeOK
  <2>2. QED
    BY <1>1, <1>2, <1>4, <2>1 DEF TypeOK
<1>7. GroupFirst'
  BY <1>1, <1>2, <1>4, NotWorking DEF IInv, GroupFirst, Working
<1>8. RunsAccounted'
  <2>1. \A e \in delivered : e \in Entries
    BY BoundsAssumption DEF IInv, TypeOK, Entries
  <2>2. \A q \in Processes : seen'[q] <= cursor'
    BY <1>1, <1>2, <1>4, <1>5, BoundsAssumption DEF IInv, TypeOK, RunsAccounted
  <2>3. QED
    BY <1>1, <1>3, <1>5, <2>1, <2>2 DEF IInv, RunsAccounted, AcknowledgedAfterRun
<1>9. BatchesUntouched'
  <2>1. ToDispatch(p)' = (f + 1)..l /\ ToDispatch(p) = f..l /\ (\A q \in Processes : q # p => ToDispatch(q)' = ToDispatch(q))
    BY <1>1, <1>4 DEF ToDispatch
  <2>2. ASSUME NEW q \in Processes, q # p, Working(q)
        PROVE  \A e \in loop[q].first..loop[q].last : e # f
    BY <1>1, <1>2, <2>2 DEF IInv, BatchesUntouched
  <2>3. ASSUME NEW q \in Processes, Working(q)
        PROVE  /\ \A e \in ToDispatch(q)' : e \in Entries /\ e # f /\ e \in ToDispatch(q)
               /\ loop[q].first \in Entries /\ loop[q].first \in loop[q].first..loop[q].last
    <3>1. /\ loop[q].first \in Entries /\ loop[q].last \in Entries /\ loop[q].first \in Nat
          /\ loop[q].last \in Nat /\ loop[q].first <= loop[q].last
      BY <2>3, WorkingBatch DEF IInv
    <3>2. CASE q = p
      BY <1>2, <2>1, <3>1, <3>2, BoundsAssumption DEF Entries
    <3>3. CASE q # p
      <4>1. \A e \in ToDispatch(q) : e \in loop[q].first..loop[q].last
        BY <3>1 DEF ToDispatch
      <4>2. \A e \in loop[q].first..loop[q].last : e \in Entries
        BY <3>1, BoundsAssumption DEF Entries
      <4>3. QED
        BY <2>1, <2>2, <2>3, <3>1, <3>3, <4>1, <4>2
    <3>4. QED
      BY <3>2, <3>3
  <2>4. ASSUME NEW q \in Processes, Working(q)
        PROVE  \A e \in ToDispatch(q)' : e \in delivered /\ e \in pending /\ runs'[e] = 0 /\ seen'[q] < e
    <3>1. \A e \in ToDispatch(q)' : e \in delivered /\ e \in pending /\ runs'[e] = 0 /\ seen[q] < e
      BY <1>5, <2>3, <2>4 DEF IInv, BatchesUntouched
    <3>2. q = p => \A e \in ToDispatch(q)' : f < e
      BY <1>2, <2>1
    <3>3. QED
      BY <1>4, <1>5, <3>1, <3>2
  <2>5. ASSUME NEW q \in Processes, Working(q), loop'[q].pc # "dispatching"
        PROVE  runs'[loop[q].first] = 1
    <3>1. CASE q = p
      BY <1>5, <3>1
    <3>2. CASE q # p
      BY <1>4, <1>5, <2>2, <2>3, <2>5, <3>2 DEF IInv, BatchesUntouched
    <3>3. QED
      BY <3>1, <3>2
  <2>6. QED
    BY <1>1, <1>4, <2>4, <2>5 DEF IInv, BatchesUntouched
<1>10. QED
  BY <1>6, <1>7, <1>8, <1>9 DEF IInv

\* The handlers of the first entry of a batch have ended.
LEMMA HandlersEndStep ==
    ASSUME IInv, NEW p \in Processes, NEW anyFailed \in BOOLEAN, HandlersEnd(p, anyFailed)
    PROVE  IInv'
<1>1. /\ Working(p) /\ loop[p].pc = "handling" /\ loop' = [loop EXCEPT ![p].pc = "acking"]
      /\ UNCHANGED <<published, trimmed, created, cursor, pending, born, delivered, runs, seen>>
      /\ dlq' = IF anyFailed /\ RetryCount(loop[p].first) >= MaxRetryAttempts
                THEN dlq \cup {loop[p].first} ELSE dlq
  BY DEF HandlersEnd
<1>2. TypeOK /\ loop[p] \in BusyLoops /\ loop[p].first \in Entries
  BY <1>1, WorkingBatch DEF IInv, Working
<1>3. /\ loop'[p] \in BusyLoops /\ loop'[p].pc = "acking" /\ loop' = [loop EXCEPT ![p] = loop'[p]]
      /\ \A q \in Processes : q # p => loop'[q] = loop[q]
      /\ \A q \in Processes : Working(q)' = Working(q) /\ loop'[q].first = loop[q].first
                             /\ loop'[q].last = loop[q].last /\ ToDispatch(q)' = ToDispatch(q)
                             /\ (loop'[q].pc # "dispatching" => loop[q].pc # "dispatching")
  BY <1>1, <1>2 DEF TypeOK, BusyLoops, Working, ToDispatch
<1>4. TypeOK'
  <2>1. dlq' \subseteq Entries
    BY <1>1, <1>2 DEF TypeOK
  <2>2. loop' \in [Processes -> BusyLoops \cup {Down, Reading, Sleeping}]
    BY <1>2, <1>3 DEF TypeOK
  <2>3. QED
    BY <1>1, <1>2, <1>3, <2>1, <2>2 DEF TypeOK
<1>5. GroupFirst'
  BY <1>1, <1>2, <1>3, NotWorking DEF IInv, GroupFirst, Working
<1>6. RunsAccounted'
  BY <1>1 DEF IInv, RunsAccounted, AcknowledgedAfterRun
<1>7. BatchesUntouched'
  BY <1>1, <1>3 DEF IInv, BatchesUntouched
<1>8. QED
  BY <1>4, <1>5, <1>6, <1>7 DEF IInv

\* The loop goes on to the next entry, the present one acknowledged or not.
LEMMA AfterEntryStep ==
    ASSUME IInv, NEW p \in Processes, Working(p), loop[p].pc = "acking",
           loop' = [loop EXCEPT ![p] = AfterEntry(loop[p].first, loop[p].last)],
           pending' = pending \/ pending' = pending \ {loop[p].first},
           UNCHANGED <<published, trimmed, created, cursor, dlq, history>>
    PROVE  IInv'
<1> DEFINE f == loop[p].first
           l == loop[p].last
<1>1. /\ TypeOK /\ f \in Entries /\ l \in Entries /\ f \in Nat /\ l \in Nat /\ f <= l /\ l <= cursor
      /\ l <= MaxEntries /\ created
  <2>1. loop[p] # Down
    BY NotWorking DEF Working
  <2>2. QED
    BY <2>1, WorkingBatch, BoundsAssumption DEF IInv, Entries, GroupFirst
<1>2. /\ runs[f] = 1 /\ ToDispatch(p) = (f + 1)..l
      /\ \A e \in (f + 1)..l : e \in delivered /\ e \in pending /\ runs[e] = 0 /\ seen[p] < e
  BY DEF IInv, BatchesUntouched, ToDispatch
<1>3. UNCHANGED <<born, delivered, runs, seen>>
  BY DEF history
<1>4. loop'[p] = AfterEntry(f, l) /\ \A q \in Processes : q # p => loop'[q] = loop[q] /\ Working(q)' = Working(q)
  BY <1>1 DEF TypeOK, Working
<1>5. CASE f < l
  <2>1. f + 1 \in Entries /\ f + 1 <= l
    BY <1>1, <1>5, BoundsAssumption DEF Entries
  <2>2. /\ loop'[p] \in BusyLoops /\ loop'[p].pc = "dispatching" /\ loop'[p].first = f + 1 /\ loop'[p].last = l
    BY <1>1, <1>4, <1>5, <2>1, Batch DEF AfterEntry
  <2>3. Working(p)' /\ loop' = [loop EXCEPT ![p] = loop'[p]] /\ loop'[p] # Down
    BY <1>4, <2>2, NotWorking DEF Working
  <2>4. TypeOK'
    <3>1. loop' \in [Processes -> BusyLoops \cup {Down, Reading, Sleeping}]
      BY <1>1, <2>2, <2>3 DEF TypeOK
    <3>2. pending' \subseteq delivered'
      BY <1>1, <1>3 DEF TypeOK
    <3>3. \A q \in Processes : Working(q)' => loop'[q].first <= loop'[q].last /\ loop'[q].last <= cursor'
      BY <1>1, <1>4, <2>1, <2>2 DEF TypeOK
    <3>4. QED
      BY <1>1, <1>3, <3>1, <3>2, <3>3 DEF TypeOK
  <2>5. GroupFirst'
    BY <1>1, <1>3, <2>3 DEF IInv, GroupFirst
  <2>6. RunsAccounted'
    BY <1>2, <1>3 DEF IInv, RunsAccounted, AcknowledgedAfterRun
  <2>7. BatchesUntouched'
    <3>1. ToDispatch(p)' = (f + 1)..l
      BY <2>2 DEF ToDispatch
    <3>2. \A e \in (f + 1)..l : e # f /\ e \in f..l
      BY <1>1
    <3>3. ASSUME NEW q \in Processes, q # p, Working(q)
          PROVE  /\ ToDispatch(q)' = ToDispatch(q) /\ \A e \in ToDispatch(q) : e # f
                 /\ \A e \in (f + 1)..l : e \notin loop[q].first..loop[q].last
      <4>1. \A e \in f..l : e \notin loop[q].first..loop[q].last
        BY <3>3 DEF IInv, BatchesUntouched
      <4>2. \A e \in ToDispatch(q) : e \in loop[q].first..loop[q].last
        BY <1>1, <3>3, WorkingBatch DEF ToDispatch
      <4>3. f \in f..l
        BY <1>1
      <4>4. ToDispatch(q)' = ToDispatch(q)
        BY <1>4, <3>3 DEF ToDispatch
      <4>5. QED
        BY <3>2, <4>1, <4>2, <4>3, <4>4
    <3>4. ASSUME NEW q \in Processes, Working(q)'
          PROVE  /\ \A e \in ToDispatch(q)' : e \in delivered /\ e \in pending' /\ runs[e] = 0 /\ seen[q] < e
                 /\ loop'[q].pc # "dispatching" => runs[loop'[q].first] = 1
                 /\ \A r \in Processes \ {q} : Working(r)' =>
                       \A e \in loop'[q].first..loop'[q].last : e \notin loop'[r].first..loop'[r].last
      <4>1. CASE q = p
        BY <1>2, <1>4, <2>2, <3>1, <3>2, <3>3, <3>4, <4>1
      <4>2. CASE q # p
        <5>1. /\ \A e \in ToDispatch(q) : e \in delivered /\ e \in pending /\ runs[e] = 0 /\ seen[q] < e
              /\ loop[q].pc # "dispatching" => runs[loop[q].first] = 1
              /\ \A r \in Processes \ {q} : Working(r) =>
                    \A e \in loop[q].first..loop[q].last : e \notin loop[r].first..loop[r].last
          BY <1>4, <3>4, <4>2 DEF IInv, BatchesUntouched
        <5>2. Working(q) /\ loop'[q] = loop[q]
          BY <1>4, <3>4, <4>2
        <5>3. QED
          BY <1>4, <2>2, <3>3, <4>2, <5>1, <5>2
      <4>3. QED
        BY <4>1, <4>2
    <3>5. QED
      BY <1>3, <3>4 DEF BatchesUntouched
  <2>8. QED
    BY <2>4, <2>5, <2>6, <2>7 DEF IInv
<1>6. CASE ~(f < l)
  <2>1. loop' = [loop EXCEPT ![p] = Reading] /\ loop'[p] = Reading /\ ~Working(p)'
    BY <1>4, <1>6, NotWorking DEF AfterEntry, Working
  <2>2. TypeOK'
    <3>1. loop' \in [Processes -> BusyLoops \cup {Down, Reading, Sleeping}]
      BY <1>1, <2>1 DEF TypeOK
    <3>2. pending' \subseteq delivered'
      BY <1>1, <1>3 DEF TypeOK
    <3>3. QED
      BY <1>1, <1>3, <1>4, <2>1, <3>1, <3>2 DEF TypeOK
  <2>3. GroupFirst'
    BY <1>1, <1>3 DEF IInv, GroupFirst
  <2>4. RunsAccounted'
    BY <1>2, <1>3 DEF IInv, RunsAccounted, AcknowledgedAfterRun
  <2>5. BatchesUntouched'
    <3>1. ASSUME NEW q \in Processes, q # p, Working(q)
          PROVE  ToDispatch(q)' = ToDispatch(q) /\ \A e \in ToDispatch(q) : e # f
      <4>1. f \in f..l /\ \A e \in f..l : e \notin loop[q].first..loop[q].last
        BY <1>1, <3>1 DEF IInv, BatchesUntouched
      <4>2. \A e \in ToDispatch(q) : e \in loop[q].first..loop[q].last
        BY <1>1, <3>1, WorkingBatch DEF ToDispatch
      <4>3. QED
        BY <1>4, <3>1, <4>1, <4>2 DEF ToDispatch
    <3>2. QED
      BY <1>3, <1>4, <2>1, <3>1 DEF IInv, BatchesUntouched
  <2>6. QED
    BY <2>2, <2>3, <2>4, <2>5 DEF IInv
<1>7. QED
  BY <1>5, <1>6

\* Every step preserves the invariant.
LEMMA StepInvariant == IInv /\ [Next]_vars => IInv'
<1> SUFFICES ASSUME IInv, [Next]_vars
             PROVE  IInv'
  OBVIOUS
<1>1. CASE Publish
  BY <1>1, PublishStep
<1>2. ASSUME NEW p \in Processes, Start(p)
      PROVE  IInv'
  BY <1>2, StartStep
<1>3. ASSUME NEW p \in Processes, Read(p) \/ ReadReplyLost(p)
      PROVE  IInv'
  BY <1>3, ServeStep DEF Read, ReadReplyLost
<1>4. ASSUME NEW p \in Processes, Stop(p) \/ ReadFails(p) \/ Wake(p)
      PROVE  IInv'
  <2>1. loop[p] # Down => created
    BY DEF IInv, GroupFirst
  <2>2. loop[p] # Down /\ UNCHANGED <<redis, history>>
    BY <1>4 DEF Stop, ReadFails, Wake, Reading, Sleeping, Down
  <2>3. PICK x \in {Down, Reading, Sleeping} : loop' = [loop EXCEPT ![p] = x]
    BY <1>4 DEF Stop, ReadFails, Wake
  <2>4. QED
    BY <2>1, <2>2, <2>3, DropBatch
<1>5. ASSUME NEW p \in Processes, Dispatch(p)
      PROVE  IInv'
  BY <1>5, DispatchStep
<1>6. ASSUME NEW p \in Processes, Ack(p) \/ AckFails(p)
      PROVE  IInv'
  <2>1. /\ Working(p) /\ loop[p].pc = "acking"
        /\ loop' = [loop EXCEPT ![p] = AfterEntry(loop[p].first, loop[p].last)]
        /\ pending' = pending \/ pending' = pending \ {loop[p].first}
        /\ UNCHANGED <<published, trimmed, created, cursor, dlq, history>>
    BY <1>6 DEF Ack, AckFails, Acknowledged, redis
  <2>2. QED
    BY <2>1, AfterEntryStep
<1>7. ASSUME NEW p \in Processes, NEW anyFailed \in BOOLEAN, HandlersEnd(p, anyFailed)
      PROVE  IInv'
  BY <1>7, HandlersEndStep
<1>8. CASE UNCHANGED vars
  <2>1. /\ UNCHANGED <<published, trimmed, created, cursor, pending, dlq, loop, born, delivered, runs, seen>>
    BY <1>8 DEF vars, redis, history
  <2>2. QED
    BY <2>1 DEF IInv, TypeOK, Working, GroupFirst, RunsAccounted, AcknowledgedAfterRun,
                BatchesUntouched, ToDispatch
<1>9. QED
  BY <1>1, <1>2, <1>3, <1>4, <1>5, <1>6, <1>7, <1>8 DEF Next

-----------------------------------------------------------------------------
(* The theorems.                                                             *)

\* The inductive invariant holds throughout.
THEOREM InductiveInvariant == Spec => []IInv
<1>1. Init => IInv
  BY InitInvariant
<1>2. IInv /\ [Next]_vars => IInv'
  BY StepInvariant
<1>3. QED
  BY <1>1, <1>2, PTL DEF Spec

\* Every variable stays in its domain.
THEOREM TypeCorrect == Spec => []TypeOK
<1>1. IInv => TypeOK
  BY DEF IInv
<1>2. QED
  BY <1>1, InductiveInvariant, PTL

\* No entry older than the consumer group is ever handled, however many
\* processes start and restart.
THEOREM NoReplay == Spec => []NoHistoryReplay
<1>1. IInv => NoHistoryReplay
  BY DEF IInv, GroupFirst, RunsAccounted, NoHistoryReplay
<1>2. QED
  BY <1>1, InductiveInvariant, PTL

\* What is delivered and no longer pending has been handled, once.
THEOREM AcknowledgedWasRun == Spec => []AcknowledgedAfterRun
<1>1. IInv => AcknowledgedAfterRun
  BY DEF IInv, RunsAccounted
<1>2. QED
  BY <1>1, InductiveInvariant, PTL

\* A step of the bus is a step of AtMostOnceDelivery, or none.
LEMMA StepSimulation == IInv /\ [Next]_vars => [Delivery!Next]_(Delivery!vars)
<1> SUFFICES ASSUME IInv, [Next]_vars
             PROVE  Delivery!Next \/ UNCHANGED <<published, runs, seen>>
  BY DEF Delivery!vars
<1>1. CASE Publish
  BY <1>1 DEF Publish, history, Delivery!Next, Delivery!Accept
<1>2. ASSUME NEW p \in Processes, Dispatch(p)
      PROVE  Delivery!Next
  <2> DEFINE f == loop[p].first
  <2>1. /\ Working(p) /\ loop[p].pc = "dispatching" /\ runs' = [runs EXCEPT ![f] = @ + 1]
        /\ seen' = [seen EXCEPT ![p] = f] /\ published' = published
    BY <1>2 DEF Dispatch, redis
  <2>2. /\ f \in Entries /\ f <= published /\ f \in ToDispatch(p)
    <3>1. /\ f \in Nat /\ loop[p].last \in Nat /\ f <= loop[p].last /\ loop[p].last <= cursor
          /\ f \in Entries
      BY <2>1, WorkingBatch DEF IInv
    <3>2. cursor \in Nat /\ published \in Nat /\ cursor <= published
      BY BoundsAssumption DEF IInv, TypeOK
    <3>3. QED
      BY <2>1, <3>1, <3>2 DEF ToDispatch
  <2>3. runs[f] = 0 /\ seen[p] < f
    BY <2>1, <2>2 DEF IInv, BatchesUntouched
  <2>4. runs' = [runs EXCEPT ![f] = 1]
    BY <2>1, <2>2, <2>3 DEF IInv, TypeOK
  <2>5. Delivery!Deliver(p, f)
    BY <2>1, <2>2, <2>3, <2>4 DEF Delivery!Deliver
  <2>6. f \in Delivery!Entries
    BY <2>2 DEF Entries, Delivery!Entries
  <2>7. QED
    BY <2>5, <2>6 DEF Delivery!Next
<1>3. ASSUME NEW p \in Processes, Start(p) \/ Stop(p) \/ Read(p) \/ ReadReplyLost(p) \/ ReadFails(p) \/ Wake(p)
      PROVE  UNCHANGED <<published, runs, seen>>
  BY <1>3 DEF Start, Stop, Read, ReadReplyLost, Serve, ReadFails, Wake, redis, history
<1>4. ASSUME NEW p \in Processes, Ack(p) \/ AckFails(p)
      PROVE  UNCHANGED <<published, runs, seen>>
  BY <1>4 DEF Ack, AckFails, redis, history
<1>5. ASSUME NEW p \in Processes, NEW anyFailed \in BOOLEAN, HandlersEnd(p, anyFailed)
      PROVE  UNCHANGED <<published, runs, seen>>
  BY <1>5 DEF HandlersEnd
<1>6. CASE UNCHANGED vars
  BY <1>6 DEF vars, redis, history
<1>7. QED
  BY <1>1, <1>2, <1>3, <1>4, <1>5, <1>6 DEF Next

\* The bus implements AtMostOnceDelivery: whatever processes compete, stop and
\* restart, handlers are run once on an entry at most, in order in a process.
THEOREM Refinement == Spec => ImplementsAtMostOnce
<1>1. Init => Delivery!Init
  BY DEF Init, Delivery!Init, Entries, Delivery!Entries
<1>2. IInv /\ [Next]_vars => [Delivery!Next]_(Delivery!vars)
  BY StepSimulation
<1>3. QED
  BY <1>1, <1>2, InductiveInvariant, PTL DEF Spec, ImplementsAtMostOnce, Delivery!Spec

-----------------------------------------------------------------------------
(* What is skipped.                                                          *)

\* XTRIM leaves the last MaxLen entries alone.
TrimmedBeyond == trimmed = 0 \/ trimmed + MaxLen <= published

\* Only XADD trims, and only what is in excess.
LEMMA TrimStep == IInv /\ TrimmedBeyond /\ [Next]_vars => TrimmedBeyond'
<1> SUFFICES ASSUME IInv, TrimmedBeyond, [Next]_vars PROVE TrimmedBeyond'
  OBVIOUS
<1>1. CASE Publish
  <2>1. published \in Nat /\ trimmed \in Nat /\ MaxLen \in Nat /\ published' = published + 1
    BY <1>1, BoundsAssumption DEF IInv, TypeOK, Publish
  <2>2. trimmed' \in TrimTo(published + 1) \/ trimmed' = trimmed
    BY <1>1 DEF Publish
  <2>3. QED
    BY <2>1, <2>2 DEF TrimmedBeyond, TrimTo
<1>2. ASSUME UNCHANGED <<published, trimmed>> PROVE TrimmedBeyond'
  BY <1>2 DEF TrimmedBeyond
<1>3. CASE UNCHANGED vars
  BY <1>2, <1>3 DEF vars, redis
<1>4. ASSUME NEW p \in Processes, Start(p) \/ Stop(p)
      PROVE  TrimmedBeyond'
  BY <1>2, <1>4 DEF Start, Stop, redis
<1>5. ASSUME NEW p \in Processes, Read(p) \/ ReadReplyLost(p) \/ ReadFails(p) \/ Wake(p)
      PROVE  TrimmedBeyond'
  BY <1>2, <1>5 DEF Read, ReadReplyLost, Serve, ReadFails, Wake, redis
<1>6. ASSUME NEW p \in Processes, Dispatch(p) \/ Ack(p) \/ AckFails(p)
      PROVE  TrimmedBeyond'
  BY <1>2, <1>6 DEF Dispatch, Ack, AckFails, redis
<1>7. ASSUME NEW p \in Processes, NEW anyFailed \in BOOLEAN, HandlersEnd(p, anyFailed)
      PROVE  TrimmedBeyond'
  BY <1>2, <1>7 DEF HandlersEnd
<1>8. QED
  BY <1>1, <1>3, <1>4, <1>5, <1>6, <1>7 DEF Next

\* The cursor moves past an entry that nobody is given only when more than
\* MaxLen entries were waiting beyond it, for any number of competing loops,
\* any batch size and any trimming that Redis's "~" allows.
THEOREM SkipsOnlyBehind == Spec => SkipsOnlyWhenBehind
<1>1. Init => TrimmedBeyond
  BY DEF Init, TrimmedBeyond
<1>2. ASSUME IInv, TrimmedBeyond, [Next]_vars, NEW e \in Entries,
             created, cursor < e, e <= cursor', e \notin delivered'
      PROVE  published - cursor > MaxLen
  <2>1. e \in Nat /\ cursor \in Nat /\ published \in Nat /\ trimmed \in Nat /\ MaxLen \in Nat
    BY <1>2, BoundsAssumption DEF IInv, TypeOK, Entries
  <2>2. cursor' # cursor
    BY <1>2, <2>1
  <2>3. ASSUME NEW p \in Processes, Serve(p)
        PROVE  published - cursor > MaxLen
    <3>1. FirstUnread \in Nat /\ LastServed \in Nat /\ cursor' = LastServed
          /\ delivered' = delivered \cup (FirstUnread..LastServed)
      BY <1>2, <2>3, Served DEF Serve, Entries
    <3>2. e < FirstUnread
      BY <1>2, <2>1, <3>1
    <3>3. trimmed > cursor
      BY <1>2, <2>1, <3>2 DEF FirstUnread
    <3>4. QED
      BY <1>2, <2>1, <3>3 DEF TrimmedBeyond
  <2>4. ASSUME NEW p \in Processes, Start(p) \/ Stop(p) \/ ReadFails(p) \/ Wake(p)
        PROVE  FALSE
    BY <1>2, <2>2, <2>4 DEF Start, Stop, ReadFails, Wake, redis
  <2>5. ASSUME NEW p \in Processes, Dispatch(p) \/ Ack(p) \/ AckFails(p)
        PROVE  FALSE
    BY <2>2, <2>5 DEF Dispatch, Ack, AckFails, redis
  <2>6. ASSUME NEW p \in Processes, NEW anyFailed \in BOOLEAN, HandlersEnd(p, anyFailed)
        PROVE  FALSE
    BY <2>2, <2>6 DEF HandlersEnd
  <2>7. ~Publish /\ ~UNCHANGED vars
    BY <2>2 DEF Publish, vars, redis
  <2>8. QED
    BY <1>2, <2>3, <2>4, <2>5, <2>6, <2>7 DEF Next, Read, ReadReplyLost
<1>3. IInv /\ TrimmedBeyond /\ [Next]_vars
      => [\A e \in Entries :
             created /\ cursor < e /\ e <= cursor' /\ e \notin delivered'
             => published - cursor > MaxLen]_vars
  BY <1>2
<1>4. QED
  BY <1>1, <1>3, TrimStep, InductiveInvariant, PTL DEF Spec, SkipsOnlyWhenBehind

=============================================================================
