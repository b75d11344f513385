-------------------------- MODULE EdgeOutbox_proofs --------------------------
(***************************************************************************)
(* Theorems about the edge's outbox, for any limits and attempts and any   *)
(* numbers of batches, faults, requeues, restarts and losses of power.     *)
(***************************************************************************)
EXTENDS EdgeOutbox, TLAPS

-----------------------------------------------------------------------------
KnownIn(table) == {b \in Id : table[b].status # "none"}

(* What is true of the table, and of the version of it that is on disk, if *)
(* the batches 1 .. n were born, those of done have arrived, and those of  *)
(* aside were set aside.  The latest batch is never pruned, so that the    *)
(* counter can be resumed from the table.                                  *)
Kept(table, n, done, aside) ==
  /\ table \in [Id -> Row]
  /\ \A b \in KnownIn(table) : b <= n
  /\ \A b, c \in KnownIn(table) : b < c => table[b].seq < table[c].seq
  /\ \/ KnownIn(table) = {}
     \/ \E top \in InTable(table) : \A b \in KnownIn(table) : b <= top
  /\ \A b \in Id : table[b].status = "PENDING" => table[b].attempt < MaxAttempts
  /\ \A b \in Id : table[b].status = "FAILED" => b \in aside
  /\ \A b \in Id : table[b].status \in {Delivered, "pruned"} => b \in done

Typed ==
  /\ nextSeq \in Nat
  /\ pc \in {"idle", "begin", "transmit", "mark", "quarantine", "retry"}
  /\ queue \subseteq [batch : Id, attempt : 0 .. MaxAttempts]
  /\ born \in 0 .. MaxBatches
  /\ sent \subseteq 1 .. born /\ arrived \subseteq Id /\ setAside \subseteq Id
  /\ faults \in 0 .. MaxFaults /\ requeues \in 0 .. MaxRequeues
  /\ restarts \in 0 .. MaxRestarts /\ powerLosses \in 0 .. MaxPowerLosses

(* The disk is an older version of the table.                              *)
DiskOlder ==
  \A b \in KnownIn(disk) : b \in Known /\ rows[b].seq = disk[b].seq

CounterAhead == \A b \in Known : rows[b].seq < nextSeq

NoneLost == \A b \in 1 .. born : rows[b].status = "none" => powerLosses > 0

(* The cycle's copies are those of the table, and the batch it is at has   *)
(* arrived, or has an attempt left, when the next call says so.            *)
CycleInv ==
  /\ pc \in {"idle", "begin"} <=> queue = {}
  /\ \A i \in queue : /\ rows[i.batch].status = "PENDING"
                      /\ rows[i.batch].attempt = i.attempt
  /\ pc = "mark" => \A i \in queue : Current(i) => i.batch \in arrived
  /\ pc = "retry" => \A i \in queue : Current(i) => ~LastAttempt(i)

(* Every earlier batch that is known has arrived or was set aside.         *)
InTurn(b) ==
  \A c \in Known : rows[c].seq < rows[b].seq => c \in arrived \cup setAside

(* A pending batch before one that the cycle works on is in the cycle too, *)
(* or was requeued; a transmission under way was in its turn.              *)
TurnInv ==
  /\ \A i \in queue, c \in Pending :
       rows[c].seq < rows[i.batch].seq =>
         c \in setAside \/ \E j \in queue : j.batch = c
  /\ \A b \in sent \cap Known : InTurn(b)

OutboxInv ==
  /\ Typed
  /\ Kept(rows, born, arrived, setAside)
  /\ Kept(disk, born, arrived, setAside)
  /\ DiskOlder /\ CounterAhead /\ NoneLost
  /\ CycleInv /\ TurnInv

-----------------------------------------------------------------------------
(* What happens to a table.                                                *)
LEMMA RowStatus ==
  /\ Delivered \in {"PUBLISHED", "SYNCED"}
  /\ MaxAttempts \in Nat \ {0}
  /\ MaxBatches \in Nat
  /\ NoRow \in Row
BY OutboxAssumption DEF NoRow, Row

LEMMA InTableKnown ==
  ASSUME NEW table PROVE InTable(table) \subseteq KnownIn(table)
BY RowStatus DEF InTable, Having, KnownIn

(* More batches may be born, arrive or be set aside.                       *)
LEMMA KeptLonger ==
  ASSUME NEW table, NEW n \in Nat, NEW m \in Nat, n <= m,
         NEW done, NEW aside, NEW done2, NEW aside2,
         done \subseteq done2, aside \subseteq aside2, Kept(table, n, done, aside)
  PROVE  Kept(table, m, done2, aside2)
BY DEF Kept, KnownIn, Id

(* A batch in the table gets another status or count of attempts.          *)
LEMMA KeptChange ==
  ASSUME NEW table, NEW n, NEW done, NEW aside, Kept(table, n, done, aside),
         NEW b \in Id, table[b].status # "none",
         NEW row \in Row, row.seq = table[b].seq,
         row.status \in {"PENDING", "FAILED", Delivered},
         row.status = "PENDING" => row.attempt < MaxAttempts,
         row.status = "FAILED" => b \in aside,
         row.status = Delivered => b \in done
  PROVE  Kept([table EXCEPT ![b] = row], n, done, aside)
<1> DEFINE t == [table EXCEPT ![b] = row]
<1>1. /\ t \in [Id -> Row] /\ t[b] = row /\ \A c \in Id \ {b} : t[c] = table[c]
  BY DEF Kept
<1>2. KnownIn(t) = KnownIn(table) /\ \A c \in Id : t[c].seq = table[c].seq
  BY <1>1, RowStatus DEF KnownIn
<1>3. InTable(table) \subseteq InTable(t)
  BY <1>1, RowStatus DEF InTable, Having
<1>4. \A c \in Id : /\ t[c].status = "PENDING" => t[c].attempt < MaxAttempts
                    /\ t[c].status = "FAILED" => c \in aside
                    /\ t[c].status \in {Delivered, "pruned"} => c \in done
  BY <1>1, RowStatus DEF Kept
<1> HIDE DEF t
<1>5. /\ \A c \in KnownIn(t) : c <= n
      /\ \A c, e \in KnownIn(t) : c < e => t[c].seq < t[e].seq
  BY <1>2 DEF Kept, KnownIn
<1>6. \/ KnownIn(t) = {}
      \/ \E top \in InTable(t) : \A c \in KnownIn(t) : c <= top
  BY <1>2, <1>3 DEF Kept
<1>7. Kept(t, n, done, aside)
  BY <1>1, <1>4, <1>5, <1>6 DEF Kept
<1> QED  BY <1>7 DEF t

(* A batch is born, with a sequence number above the others.               *)
LEMMA KeptBirth ==
  ASSUME NEW table, NEW n \in Nat, NEW done, NEW aside, Kept(table, n, done, aside),
         n + 1 \in Id, NEW row \in Row, row.status = "PENDING", row.attempt = 0,
         \A b \in KnownIn(table) : table[b].seq < row.seq
  PROVE  Kept([table EXCEPT ![n + 1] = row], n + 1, done, aside)
<1> DEFINE t == [table EXCEPT ![n + 1] = row]
<1>1. t \in [Id -> Row] /\ t[n + 1] = row /\ \A c \in Id \ {n + 1} : t[c] = table[c]
  BY DEF Kept
<1>2. KnownIn(t) = KnownIn(table) \cup {n + 1}
  BY <1>1, RowStatus DEF KnownIn
<1>3. n + 1 \in InTable(t)
  BY <1>1 DEF InTable, Having
<1>4. \A b \in KnownIn(table) : b <= n /\ b \in Id
  BY DEF Kept, KnownIn
<1>5. \A c \in Id : /\ t[c].status = "PENDING" => t[c].attempt < MaxAttempts
                    /\ t[c].status = "FAILED" => c \in aside
                    /\ t[c].status \in {Delivered, "pruned"} => c \in done
  BY <1>1, RowStatus DEF Kept
<1>6. \A b, c \in KnownIn(t) : b < c => t[b].seq < t[c].seq
  BY <1>1, <1>2, <1>4 DEF Kept, Id
<1>7. \A b \in KnownIn(t) : b <= n + 1
  BY <1>2, <1>4 DEF Id
<1> HIDE DEF t
<1>8. Kept(t, n + 1, done, aside)
  BY <1>1, <1>3, <1>5, <1>6, <1>7 DEF Kept
<1> QED  BY <1>8 DEF t

(* The numbering goes with the order of birth.                             *)
LEMMA KeptOrder ==
  ASSUME NEW table, NEW n, NEW done, NEW aside, Kept(table, n, done, aside),
         NEW b \in KnownIn(table), NEW c \in KnownIn(table)
  PROVE  /\ table[b].seq \in Nat
         /\ table[b].seq < table[c].seq <=> b < c
         /\ table[b].seq = table[c].seq <=> b = c
<1>1. b \in Int /\ c \in Int /\ b \in Id /\ c \in Id
  BY RowStatus DEF KnownIn, Id
<1>2. table[b].seq \in Nat /\ table[c].seq \in Nat
  BY <1>1 DEF Kept, Row
<1>3. (b < c => table[b].seq < table[c].seq) /\ (c < b => table[c].seq < table[b].seq)
  BY DEF Kept
<1> QED  BY <1>1, <1>2, <1>3

(* The counter that is read from the table is ahead of every batch, of     *)
(* those that are pruned, too.                                             *)
LEMMA CounterResumes ==
  ASSUME NEW table, NEW n, NEW done, NEW aside, Kept(table, n, done, aside)
  PROVE  NextAfter(table) \in Nat /\ \A b \in KnownIn(table) : table[b].seq < NextAfter(table)
<1>1. CASE KnownIn(table) = {}
  <2>1. InTable(table) = {}
    BY <1>1, InTableKnown
  <2> QED  BY <1>1, <2>1 DEF NextAfter
<1>2. CASE KnownIn(table) # {}
  <2>1. PICK top \in InTable(table) : \A b \in KnownIn(table) : b <= top
    BY <1>2 DEF Kept
  <2>2. \A b \in KnownIn(table) : table[b].seq \in Nat /\ table[b].seq <= table[top].seq
    <3> SUFFICES ASSUME NEW b \in KnownIn(table)
                 PROVE  table[b].seq \in Nat /\ table[b].seq <= table[top].seq
      OBVIOUS
    <3>1. top \in KnownIn(table) /\ b \in Int /\ top \in Int
      BY <2>1, InTableKnown, RowStatus DEF KnownIn, Id
    <3> QED  BY <2>1, <3>1, KeptOrder
  <2> DEFINE Highest(m) == \A b \in InTable(table) : table[b].seq <= m
             h == CHOOSE m \in {table[b].seq : b \in InTable(table)} : Highest(m)
  <2>3. table[top].seq \in {table[b].seq : b \in InTable(table)} /\ Highest(table[top].seq)
    BY <2>1, <2>2, InTableKnown
  <2>4. h \in {table[b].seq : b \in InTable(table)} /\ Highest(h)
    BY <2>3
  <2>5. NextAfter(table) = 1 + h
    BY <2>1 DEF NextAfter
  <2> HIDE DEF h
  <2>6. h \in Nat /\ table[top].seq <= h
    BY <2>1, <2>2, <2>4, InTableKnown
  <2> HIDE DEF Highest
  <2>7. \A b \in KnownIn(table) : table[b].seq < 1 + h
    BY <2>1, <2>2, <2>6, InTableKnown
  <2> QED  BY <2>5, <2>6, <2>7
<1> QED  BY <1>1, <1>2

-----------------------------------------------------------------------------
LEMMA OInit == Init => OutboxInv
<1> SUFFICES ASSUME Init PROVE OutboxInv
  OBVIOUS
<1>1. /\ rows = [b \in Id |-> NoRow] /\ disk = rows
      /\ nextSeq = 0 /\ pc = "idle" /\ queue = {} /\ born = 0
      /\ sent = {} /\ arrived = {} /\ setAside = {}
      /\ faults = 0 /\ requeues = 0 /\ restarts = 0 /\ powerLosses = 0
  BY DEF Init
<1>2. Typed
  BY <1>1, OutboxAssumption DEF Typed
<1>3. KnownIn(rows) = {} /\ Known = {}
  BY <1>1 DEF KnownIn, Known, NoRow
<1>4. rows \in [Id -> Row] /\ \A b \in Id : rows[b].status = "none"
  BY <1>1, RowStatus DEF NoRow
<1>5. Kept(rows, born, arrived, setAside)
  BY <1>3, <1>4, RowStatus DEF Kept
<1> QED  BY <1>1, <1>2, <1>3, <1>5
         DEF OutboxInv, DiskOlder, CounterAhead, NoneLost, CycleInv, TurnInv

(* Two batches of the cycle are different batches of the table.            *)
LEMMA QueueBatches ==
  ASSUME OutboxInv, NEW i \in queue
  PROVE  /\ i.batch \in Known /\ i.batch \in Pending /\ i.batch \in Id
         /\ rows[i.batch].attempt = i.attempt /\ i.attempt \in 0 .. MaxAttempts
         /\ \A j \in queue : j.batch = i.batch => j = i
         /\ \A j \in queue : Current(i) /\ Current(j) => j = i
<1>1. /\ queue \subseteq [batch : Id, attempt : 0 .. MaxAttempts]
      /\ \A j \in queue : rows[j.batch].status = "PENDING" /\ rows[j.batch].attempt = j.attempt
      /\ Kept(rows, born, arrived, setAside)
  BY DEF OutboxInv, Typed, CycleInv
<1>2. \A j \in queue : j.batch \in Known /\ j.batch \in Pending /\ j.batch \in KnownIn(rows)
  BY <1>1 DEF Known, KnownIn, Pending, Having
<1>3. \A j \in queue : j.batch = i.batch => j = i
  BY <1>1
<1>4. ASSUME NEW j \in queue, Current(i), Current(j) PROVE j = i
  <2>1. rows[i.batch].seq <= rows[j.batch].seq /\ rows[j.batch].seq <= rows[i.batch].seq
    BY <1>4 DEF Current
  <2>2. rows[i.batch].seq \in Nat /\ rows[j.batch].seq \in Nat
        /\ (rows[i.batch].seq = rows[j.batch].seq <=> i.batch = j.batch)
    BY <1>1, <1>2, KeptOrder
  <2> QED  BY <1>3, <2>1, <2>2
<1> QED  BY <1>1, <1>2, <1>3, <1>4

(* The batch the cycle is at is in its turn.                               *)
LEMMA CurrentInTurn ==
  ASSUME OutboxInv, NEW i \in queue, Current(i)
  PROVE  InTurn(i.batch)
<1> SUFFICES ASSUME NEW c \in Known, rows[c].seq < rows[i.batch].seq
             PROVE  c \in arrived \cup setAside
  BY DEF InTurn
<1>1. c \in Id /\ rows[c].status # "none" /\ Kept(rows, born, arrived, setAside)
  BY DEF Known, OutboxInv
<1>2. rows[c].seq \in Nat /\ rows[i.batch].seq \in Nat
  BY <1>1, QueueBatches DEF Kept, Row
<1>3. CASE rows[c].status = "PENDING"
  <2>1. c \in Pending
    BY <1>1, <1>3 DEF Pending, Having
  <2>2. c \in setAside \/ \E j \in queue : j.batch = c
    BY <2>1 DEF OutboxInv, TurnInv
  <2> QED  BY <1>2, <2>2 DEF Current
<1>4. CASE rows[c].status # "PENDING"
  <2>1. rows[c].status \in {"FAILED", Delivered, "pruned"}
    BY <1>1, <1>4 DEF Kept, Row
  <2> QED  BY <1>1, <2>1 DEF Kept
<1> QED  BY <1>3, <1>4

(* What was in its turn stays so, as long as no earlier batch is born.     *)
LEMMA InTurnStays ==
  ASSUME NEW b \in Id, InTurn(b), Known' \subseteq Known, rows'[b].seq = rows[b].seq,
         \A c \in Known' : rows'[c].seq = rows[c].seq,
         arrived \subseteq arrived', setAside \subseteq setAside'
  PROVE  InTurn(b)'
BY DEF InTurn

(* A step that changes one row, but not its sequence number.               *)
LEMMA RowChange ==
  ASSUME OutboxInv, NEW b \in Known,
         NEW row \in Row, row.seq = rows[b].seq,
         row.status \in {"PENDING", "FAILED", Delivered},
         row.status = "PENDING" => row.attempt < MaxAttempts,
         row.status = "FAILED" => b \in setAside',
         row.status = Delivered => b \in arrived,
         rows' = [rows EXCEPT ![b] = row],
         UNCHANGED <<disk, nextSeq, born, sent, arrived, powerLosses>>,
         setAside \subseteq setAside'
  PROVE  /\ Kept(rows, born, arrived, setAside)' /\ Kept(disk, born, arrived, setAside)'
         /\ DiskOlder' /\ CounterAhead' /\ NoneLost'
         /\ \A c \in sent' \cap Known' : InTurn(c)'
         /\ Known' = Known /\ \A c \in Id : rows'[c].seq = rows[c].seq
         /\ rows'[b] = row /\ \A c \in Id \ {b} : rows'[c] = rows[c]
<1>1. /\ Kept(rows, born, arrived, setAside) /\ Kept(disk, born, arrived, setAside)
      /\ DiskOlder /\ CounterAhead /\ NoneLost /\ TurnInv /\ born \in Nat
  BY RowStatus DEF OutboxInv, Typed
<1>2. b \in Id /\ rows[b].status # "none" /\ rows \in [Id -> Row]
  BY <1>1 DEF Known, Kept
<1>3. rows'[b] = row /\ \A c \in Id \ {b} : rows'[c] = rows[c]
  BY <1>2
<1>4. Known' = Known /\ \A c \in Id : rows'[c].seq = rows[c].seq
  BY <1>2, <1>3, RowStatus DEF Known
<1>5. Kept(rows, born, arrived, setAside')
  BY <1>1, KeptLonger
<1>6. Kept(rows', born, arrived, setAside')
  BY <1>2, <1>5, KeptChange
<1>7. Kept(disk, born, arrived, setAside')
  BY <1>1, KeptLonger
<1>8. Kept(rows, born, arrived, setAside)' /\ Kept(disk, born, arrived, setAside)'
  BY <1>6, <1>7
<1>9. DiskOlder' /\ CounterAhead'
  BY <1>1, <1>4 DEF DiskOlder, CounterAhead, KnownIn, Known
<1>10. NoneLost'
  BY <1>1, <1>2, <1>3, RowStatus DEF NoneLost, Id, OutboxInv, Typed
<1>11. \A c \in sent' \cap Known' : InTurn(c)'
  BY <1>1, <1>4, InTurnStays DEF TurnInv, Known
<1> QED  BY <1>3, <1>4, <1>8, <1>9, <1>10, <1>11

-----------------------------------------------------------------------------
(* The generator's batch is the latest, and no cycle is at work.           *)
LEMMA CollectKeeps ==
  ASSUME OutboxInv, Collect
  PROVE  OutboxInv'
<1>1. /\ pc = "idle" /\ queue = {} /\ born \in Nat /\ nextSeq \in Nat
      /\ UNCHANGED <<disk, queue, sent, arrived, setAside, requeues, restarts, powerLosses>>
      /\ nextSeq' = nextSeq + 1 /\ pc' \in {"idle", "begin"}
      /\ faults' \in 0 .. MaxFaults
  BY RowStatus, OutboxAssumption
     DEF OutboxInv, Typed, CycleInv, Collect, wireVars, Fault, NoFault
<1>2. /\ Typed /\ Kept(rows, born, arrived, setAside) /\ Kept(disk, born, arrived, setAside)
      /\ DiskOlder /\ CounterAhead /\ NoneLost /\ TurnInv
  BY DEF OutboxInv
<1>3. CycleInv'
  BY <1>1 DEF CycleInv
<1>4. CASE born' = born + 1 /\ born < MaxBatches
           /\ rows' = [rows EXCEPT ![born'] = [status |-> "PENDING", seq |-> nextSeq, attempt |-> 0]]
  <2> DEFINE row == [status |-> "PENDING", seq |-> nextSeq, attempt |-> 0]
  <2>1. row \in Row /\ row.seq = nextSeq /\ row.status = "PENDING" /\ row.attempt = 0
    BY <1>1, RowStatus DEF Row
  <2>2. born + 1 \in Id /\ rows' = [rows EXCEPT ![born + 1] = row]
    BY <1>1, <1>4, RowStatus DEF Id
  <2> HIDE DEF row
  <2>3. \A b \in KnownIn(rows) : rows[b].seq < row.seq
    BY <1>2, <2>1 DEF CounterAhead, Known, KnownIn
  <2>4. Kept(rows', born + 1, arrived, setAside)
    BY <1>1, <1>2, <2>1, <2>2, <2>3, KeptBirth
  <2>5. Kept(disk, born + 1, arrived, setAside)
    BY <1>1, <1>2, KeptLonger
  <2>6. Kept(rows, born, arrived, setAside)' /\ Kept(disk, born, arrived, setAside)'
    BY <1>1, <1>4, <2>4, <2>5
  <2>7. Typed'
    BY <1>1, <1>2, <1>4, RowStatus DEF Typed
  <2>8. rows \in [Id -> Row] /\ \A b \in Known : b <= born /\ b \in Id
    BY <1>2 DEF Kept, Known, KnownIn
  <2>9. /\ rows'[born + 1] = row /\ \A b \in Id \ {born + 1} : rows'[b] = rows[b]
        /\ Known' = Known \cup {born + 1}
    BY <2>1, <2>2, <2>8 DEF Known
  <2>10. DiskOlder'
    BY <1>1, <1>2, <2>8, <2>9 DEF DiskOlder, KnownIn
  <2>11. CounterAhead'
    BY <1>1, <1>2, <2>1, <2>8, <2>9, RowStatus DEF CounterAhead, Kept, Row
  <2>12. NoneLost'
    BY <1>1, <1>2, <1>4, <2>1, <2>9, RowStatus DEF NoneLost, Id
  <2>13. TurnInv'
    <3>1. SUFFICES ASSUME NEW b \in sent \cap Known' PROVE InTurn(b)'
      BY <1>1 DEF TurnInv
    <3>2. b \in Known /\ b # born + 1 /\ InTurn(b)
      BY <1>2, <2>8, <2>9 DEF Typed, TurnInv
    <3>3. rows'[b] = rows[b] /\ rows[b].seq < nextSeq /\ rows[b].seq \in Nat
      BY <1>2, <2>8, <2>9, <3>2 DEF CounterAhead, Row
    <3>4. ~(rows'[born + 1].seq < rows'[b].seq)
      BY <1>1, <2>1, <2>9, <3>3
    <3>5. ASSUME NEW c \in Known', rows'[c].seq < rows'[b].seq
          PROVE  c \in arrived \cup setAside
      <4>1. c \in Known /\ rows'[c] = rows[c]
        BY <2>8, <2>9, <3>4, <3>5
      <4> QED  BY <3>2, <3>3, <3>5, <4>1 DEF InTurn
    <3> QED  BY <1>1, <3>5 DEF InTurn
  <2> QED  BY <1>3, <2>6, <2>7, <2>10, <2>11, <2>12, <2>13 DEF OutboxInv
<1>5. CASE UNCHANGED <<rows, born>>
  <2>1. Typed'
    BY <1>1, <1>2, <1>5 DEF Typed
  <2>2. CounterAhead'
    BY <1>1, <1>2, <1>5 DEF CounterAhead, Known, Kept, Row
  <2>3. DiskOlder' /\ NoneLost' /\ TurnInv'
    BY <1>1, <1>2, <1>5 DEF DiskOlder, NoneLost, TurnInv, InTurn, Known, Pending, Having
  <2> QED  BY <1>1, <1>2, <1>3, <1>5, <2>1, <2>2, <2>3 DEF OutboxInv
<1> QED  BY <1>4, <1>5 DEF Collect

(* A step that leaves the tables alone, and what was sent and has arrived. *)
LEMMA TablesStay ==
  ASSUME OutboxInv, UNCHANGED <<rows, disk, born, wireVars, setAside, powerLosses>>,
         nextSeq' = nextSeq, Typed'
  PROVE  /\ Kept(rows, born, arrived, setAside)' /\ Kept(disk, born, arrived, setAside)'
         /\ DiskOlder' /\ CounterAhead' /\ NoneLost'
         /\ \A c \in sent' \cap Known' : InTurn(c)'
         /\ Known' = Known /\ Pending' = Pending
<1>1. UNCHANGED <<rows, disk, born, sent, arrived, setAside, powerLosses, nextSeq>>
  BY DEF wireVars
<1> QED  BY <1>1 DEF OutboxInv, DiskOlder, CounterAhead, NoneLost, TurnInv, InTurn, Known,
                     Pending, Having

LEMMA BeginKeeps ==
  ASSUME OutboxInv, BeginCycle
  PROVE  OutboxInv'
<1>1. /\ UNCHANGED <<rows, disk, nextSeq, born, wireVars, setAside, requeues, restarts, powerLosses>>
      /\ queue = {}
  BY DEF BeginCycle, OutboxInv, CycleInv
<1>2. Typed /\ Kept(rows, born, arrived, setAside)
  BY DEF OutboxInv
<1>3. CASE \E S \in SUBSET Pending :
             /\ FirstPending(S)
             /\ queue' = {[batch |-> b, attempt |-> rows[b].attempt] : b \in S}
             /\ pc' = IF S = {} THEN "idle" ELSE "transmit"
             /\ NoFault
  <2>1. PICK S \in SUBSET Pending :
             /\ FirstPending(S)
             /\ queue' = {[batch |-> b, attempt |-> rows[b].attempt] : b \in S}
             /\ pc' = IF S = {} THEN "idle" ELSE "transmit"
             /\ NoFault
    BY <1>3
  <2>2. \A b \in S : b \in Id /\ rows[b].status = "PENDING" /\ rows[b].attempt \in 0 .. MaxAttempts
                     /\ rows[b].seq \in Nat
    BY <1>2, <2>1 DEF Pending, Having, Kept, Row
  <2>3. \A i \in queue' : i.batch \in S /\ i.attempt = rows[i.batch].attempt
    BY <2>1
  <2>4. queue' \subseteq [batch : Id, attempt : 0 .. MaxAttempts]
    BY <2>1, <2>2
  <2>5. Typed'
    BY <1>1, <1>2, <2>1, <2>4 DEF Typed, wireVars, NoFault
  <2>6. CycleInv'
    <3>1. S = {} <=> queue' = {}
      BY <2>1
    <3>2. \A i \in queue' : rows'[i.batch].status = "PENDING" /\ rows'[i.batch].attempt = i.attempt
      BY <1>1, <2>2, <2>3
    <3>3. pc' \in {"idle", "transmit"} /\ (pc' = "idle" <=> S = {})
      BY <2>1
    <3> QED  BY <3>1, <3>2, <3>3 DEF CycleInv
  <2>7. TurnInv'
    <3>1. SUFFICES ASSUME NEW i \in queue', NEW c \in Pending', rows'[c].seq < rows'[i.batch].seq
                   PROVE  \E j \in queue' : j.batch = c
      BY <1>1, <2>5, TablesStay DEF TurnInv
    <3>2. c \in Pending /\ rows[c].seq \in Nat /\ rows[c].seq < rows[i.batch].seq /\ i.batch \in S
      BY <1>1, <1>2, <2>3, <3>1 DEF Pending, Having, Kept, Row
    <3>3. c \in S
      BY <2>1, <2>2, <3>2 DEF FirstPending
    <3>4. [batch |-> c, attempt |-> rows[c].attempt] \in queue'
      BY <2>1, <3>3
    <3> QED  BY <3>4
  <2> QED  BY <1>1, <2>5, <2>6, <2>7, TablesStay DEF OutboxInv
<1>4. CASE Fault /\ pc' = "idle" /\ UNCHANGED queue
  <2>1. Typed'
    BY <1>1, <1>2, <1>4, OutboxAssumption DEF Typed, wireVars, Fault
  <2>2. CycleInv' /\ TurnInv'
    BY <1>1, <1>4, <2>1, TablesStay DEF CycleInv, TurnInv
  <2> QED  BY <1>1, <2>1, <2>2, TablesStay DEF OutboxInv
<1> QED  BY <1>3, <1>4 DEF BeginCycle

-----------------------------------------------------------------------------
(* The steps of a cycle.                                                   *)
LEMMA TransmitKeeps ==
  ASSUME OutboxInv, NEW i \in queue, Transmit(i)
  PROVE  OutboxInv'
<1>1. /\ pc = "transmit" /\ Current(i)
      /\ UNCHANGED <<rows, disk, nextSeq, queue, born, setAside, faults, requeues, restarts,
                     powerLosses>>
      /\ pc' \in {"mark", "quarantine", "retry"}
      /\ sent \subseteq sent' /\ sent' \subseteq sent \cup {i.batch}
      /\ arrived \subseteq arrived' /\ arrived' \subseteq arrived \cup {i.batch}
      /\ pc' = "mark" => i.batch \in arrived'
      /\ pc' = "retry" => ~LastAttempt(i)
  BY DEF Transmit, countVars
<1>2. /\ Typed /\ Kept(rows, born, arrived, setAside) /\ Kept(disk, born, arrived, setAside)
      /\ DiskOlder /\ CounterAhead /\ NoneLost /\ CycleInv /\ TurnInv /\ born \in Nat
  BY RowStatus DEF OutboxInv, Typed
<1>3. i.batch \in Id /\ i.batch \in Known /\ i.batch <= born
  BY <1>2, QueueBatches DEF Kept, Known, KnownIn
<1>4. Typed'
  BY <1>1, <1>2, <1>3 DEF Typed, Id
<1>5. Kept(rows, born, arrived, setAside)' /\ Kept(disk, born, arrived, setAside)'
  BY <1>1, <1>2, KeptLonger
<1>6. DiskOlder' /\ CounterAhead' /\ NoneLost' /\ Known' = Known /\ Pending' = Pending
  BY <1>1, <1>2 DEF DiskOlder, CounterAhead, NoneLost, Known, Pending, Having
<1>7. \A j \in queue : Current(j)' => j = i
  BY <1>1, QueueBatches DEF Current
<1>8. CycleInv'
  BY <1>1, <1>2, <1>7 DEF CycleInv, LastAttempt
<1>9. TurnInv'
  <2>1. ASSUME NEW b \in sent' \cap Known' PROVE InTurn(b)'
    <3>1. InTurn(b) /\ b \in Id
      BY <1>1, <1>2, <1>3, <1>6, <2>1, CurrentInTurn DEF TurnInv, Known
    <3> QED  BY <1>1, <1>6, <3>1, InTurnStays
  <2> QED  BY <1>1, <1>2, <1>6, <2>1 DEF TurnInv
<1> QED  BY <1>4, <1>5, <1>6, <1>8, <1>9 DEF OutboxInv

(* A batch leaves the cycle with a status that is not PENDING.             *)
LEMMA LeaveKeeps ==
  ASSUME OutboxInv, NEW i \in queue, NEW status \in {"FAILED", Delivered},
         SetStatus(i.batch, status), GoOn(i), pc \in {"mark", "quarantine"}, Typed',
         UNCHANGED <<disk, nextSeq, born, wireVars, powerLosses>>,
         status = "FAILED" => i.batch \in setAside',
         status = Delivered => i.batch \in arrived,
         setAside \subseteq setAside'
  PROVE  OutboxInv'
<1> DEFINE b == i.batch
           row == [rows[b] EXCEPT !.status = status]
<1>1. /\ b \in Known /\ b \in Id /\ \A j \in queue : j.batch = b => j = i
      /\ rows[b] \in Row /\ CycleInv /\ TurnInv
  BY QueueBatches DEF OutboxInv, Kept
<1>2. row \in Row /\ row.seq = rows[b].seq /\ row.status = status /\ status # "PENDING"
  BY <1>1, RowStatus DEF Row
<1>3. rows' = [rows EXCEPT ![b] = row]
  BY DEF SetStatus
<1>4. UNCHANGED <<disk, nextSeq, born, sent, arrived, powerLosses>>
  BY DEF wireVars
<1> HIDE DEF b, row
<1>5. /\ Kept(rows, born, arrived, setAside)' /\ Kept(disk, born, arrived, setAside)'
      /\ DiskOlder' /\ CounterAhead' /\ NoneLost'
      /\ \A c \in sent' \cap Known' : InTurn(c)'
      /\ Known' = Known /\ \A c \in Id : rows'[c].seq = rows[c].seq
      /\ rows'[b] = row /\ \A c \in Id \ {b} : rows'[c] = rows[c]
  BY <1>1, <1>2, <1>3, <1>4, RowChange DEF b
<1>6. /\ queue' = queue \ {i} /\ pc' = (IF queue' = {} THEN "idle" ELSE "transmit")
      /\ \A j \in queue' : j.batch \in Id \ {b}
  BY <1>1, QueueBatches DEF GoOn
<1>7. CycleInv'
  BY <1>1, <1>5, <1>6 DEF CycleInv
<1>8. TurnInv'
  <2>1. SUFFICES ASSUME NEW j \in queue', NEW c \in Pending', rows'[c].seq < rows'[j.batch].seq
                 PROVE  c \in setAside' \/ \E k \in queue' : k.batch = c
    BY <1>5 DEF TurnInv
  <2>2. c \in Pending /\ c # b /\ rows[c].seq < rows[j.batch].seq
    BY <1>2, <1>5, <1>6, <2>1 DEF Pending, Having
  <2>3. c \in setAside \/ \E k \in queue : k.batch = c
    BY <1>1, <1>6, <2>1, <2>2 DEF TurnInv
  <2> QED  BY <1>6, <2>2, <2>3 DEF b
<1> QED  BY <1>5, <1>7, <1>8 DEF OutboxInv

(* The cycle ends; the tables are as they were.                            *)
LEMMA HaltKeeps ==
  ASSUME OutboxInv, Halt, Typed',
         UNCHANGED <<rows, disk, nextSeq, born, wireVars, setAside, powerLosses>>
  PROVE  OutboxInv'
<1>1. CycleInv'
  BY DEF Halt, CycleInv
<1>2. TurnInv'
  BY TablesStay DEF Halt, TurnInv
<1> QED  BY <1>1, <1>2, TablesStay DEF OutboxInv

LEMMA MarkDeliveredKeeps ==
  ASSUME OutboxInv, NEW i \in queue, MarkDelivered(i)
  PROVE  OutboxInv'
<1>1. /\ pc = "mark" /\ Current(i) /\ i.batch \in arrived
      /\ UNCHANGED <<disk, nextSeq, born, wireVars, setAside, requeues, restarts, powerLosses>>
  BY DEF MarkDelivered, OutboxInv, CycleInv
<1>2. CASE SetStatus(i.batch, Delivered) /\ GoOn(i) /\ NoFault
  <2>1. Typed'
    BY <1>1, <1>2 DEF OutboxInv, Typed, GoOn, NoFault, wireVars
  <2> QED  BY <1>1, <1>2, <2>1, LeaveKeeps, RowStatus
<1>3. CASE Fault /\ Halt /\ UNCHANGED rows
  <2>1. Typed'
    BY <1>1, <1>3, OutboxAssumption DEF OutboxInv, Typed, Halt, Fault, wireVars
  <2> QED  BY <1>1, <1>3, <2>1, HaltKeeps
<1> QED  BY <1>2, <1>3 DEF MarkDelivered

LEMMA MarkQuarantinedKeeps ==
  ASSUME OutboxInv, NEW i \in queue, MarkQuarantined(i)
  PROVE  OutboxInv'
<1>1. /\ pc = "quarantine" /\ Current(i)
      /\ UNCHANGED <<disk, nextSeq, born, wireVars, requeues, restarts, powerLosses>>
  BY DEF MarkQuarantined
<1>2. CASE /\ SetStatus(i.batch, "FAILED") /\ setAside' = setAside \cup {i.batch}
           /\ GoOn(i) /\ NoFault
  <2>1. Typed'
    BY <1>1, <1>2, QueueBatches DEF OutboxInv, Typed, GoOn, NoFault, wireVars
  <2> QED  BY <1>1, <1>2, <2>1, LeaveKeeps, RowStatus
<1>3. CASE Fault /\ Halt /\ UNCHANGED <<rows, setAside>>
  <2>1. Typed'
    BY <1>1, <1>3, OutboxAssumption DEF OutboxInv, Typed, Halt, Fault, wireVars
  <2> QED  BY <1>1, <1>3, <2>1, HaltKeeps
<1> QED  BY <1>2, <1>3 DEF MarkQuarantined

(* The attempt that is recorded was not the last one.                      *)
LEMMA RecordAttemptKeeps ==
  ASSUME OutboxInv, NEW i \in queue, RecordSyncAttempt(i)
  PROVE  OutboxInv'
<1>1. /\ pc = "retry" /\ Current(i) /\ ~LastAttempt(i) /\ Halt
      /\ UNCHANGED <<disk, nextSeq, born, wireVars, setAside, requeues, restarts, powerLosses>>
  BY DEF RecordSyncAttempt, OutboxInv, CycleInv
<1>2. CASE rows' = [rows EXCEPT ![i.batch].attempt = @ + 1] /\ NoFault
  <2> DEFINE b == i.batch
             row == [rows[b] EXCEPT !.attempt = @ + 1]
  <2>1. /\ b \in Known /\ b \in Id /\ rows[b].attempt = i.attempt /\ rows[b] \in Row
        /\ rows[b].status = "PENDING" /\ i.attempt \in 0 .. MaxAttempts
    BY QueueBatches DEF OutboxInv, Kept, CycleInv
  <2>2. i.attempt + 1 < MaxAttempts
    BY <1>1, <2>1, RowStatus DEF LastAttempt
  <2>3. /\ row \in Row /\ row.seq = rows[b].seq /\ row.status = "PENDING"
        /\ row.attempt < MaxAttempts
    BY <2>1, <2>2, RowStatus DEF Row
  <2>4. rows' = [rows EXCEPT ![b] = row]
    BY <1>2
  <2>5. UNCHANGED <<disk, nextSeq, born, sent, arrived, powerLosses>>
    BY <1>1 DEF wireVars
  <2> HIDE DEF b, row
  <2>6. /\ Kept(rows, born, arrived, setAside)' /\ Kept(disk, born, arrived, setAside)'
        /\ DiskOlder' /\ CounterAhead' /\ NoneLost'
        /\ \A c \in sent' \cap Known' : InTurn(c)'
    BY <1>1, <2>1, <2>3, <2>4, <2>5, RowStatus, RowChange
  <2>7. Typed' /\ CycleInv' /\ TurnInv'
    BY <1>1, <1>2, <2>6 DEF OutboxInv, Typed, Halt, NoFault, wireVars, CycleInv, TurnInv
  <2> QED  BY <2>6, <2>7 DEF OutboxInv
<1>3. CASE Fault /\ UNCHANGED rows
  <2>1. Typed'
    BY <1>1, <1>3, OutboxAssumption DEF OutboxInv, Typed, Halt, Fault, wireVars
  <2> QED  BY <1>1, <1>3, <2>1, HaltKeeps
<1> QED  BY <1>2, <1>3 DEF RecordSyncAttempt

-----------------------------------------------------------------------------
(* What goes on beside the cycle.                                          *)
LEMMA PruneKeeps ==
  ASSUME OutboxInv, NEW S \in SUBSET Having(rows, {Delivered}), PruneCompletedBatches(S)
  PROVE  OutboxInv'
<1>1. /\ pc = "idle" /\ queue = {}
      /\ \A b \in S : \E c \in InTable(rows) : rows[b].seq < rows[c].seq
      /\ rows' = [b \in Id |-> IF b \in S THEN [rows[b] EXCEPT !.status = "pruned"] ELSE rows[b]]
      /\ UNCHANGED <<disk, nextSeq, pc, queue, born, sent, arrived, setAside, faults,
                     requeues, restarts, powerLosses>>
  BY DEF PruneCompletedBatches, OutboxInv, CycleInv, agentVars, wireVars, countVars
<1>2. /\ Typed /\ Kept(rows, born, arrived, setAside) /\ Kept(disk, born, arrived, setAside)
      /\ DiskOlder /\ CounterAhead /\ NoneLost /\ TurnInv
  BY DEF OutboxInv
<1>3. /\ \A b \in Id : rows[b] \in Row
      /\ \A b \in S : b \in Id /\ rows[b].status = Delivered
  BY <1>2 DEF Kept, Having
<1>4. /\ \A b \in S : rows'[b] = [rows[b] EXCEPT !.status = "pruned"]
      /\ \A b \in Id \ S : rows'[b] = rows[b]
      /\ \A b \in S : rows'[b].status = "pruned" /\ rows'[b].seq = rows[b].seq /\ rows'[b] \in Row
  BY <1>1, <1>3 DEF Row
<1>5. rows' \in [Id -> Row] /\ \A b \in Id : rows'[b].seq = rows[b].seq
  <2>1. \A b \in Id : rows'[b] \in Row
    BY <1>3, <1>4
  <2> QED  BY <1>1, <1>4, <2>1
<1>6. KnownIn(rows') = KnownIn(rows) /\ Known' = Known
  BY <1>3, <1>4, RowStatus DEF KnownIn, Known
<1>7. Kept(rows', born, arrived, setAside)
  <2>1. /\ \A b \in KnownIn(rows') : b <= born
        /\ \A b, c \in KnownIn(rows') : b < c => rows'[b].seq < rows'[c].seq
    BY <1>2, <1>5, <1>6 DEF Kept, KnownIn
  <2>2. \/ KnownIn(rows') = {}
        \/ \E top \in InTable(rows') : \A b \in KnownIn(rows') : b <= top
    <3>1. SUFFICES ASSUME KnownIn(rows) # {}
                   PROVE  \E top \in InTable(rows') : \A b \in KnownIn(rows) : b <= top
      BY <1>6
    <3>2. PICK top \in InTable(rows) : \A b \in KnownIn(rows) : b <= top
      BY <1>2, <3>1 DEF Kept
    <3>3. top \notin S
      <4>1. SUFFICES ASSUME top \in S PROVE FALSE
        OBVIOUS
      <4>2. PICK c \in InTable(rows) : rows[top].seq < rows[c].seq
        BY <1>1, <4>1
      <4>3. c \in KnownIn(rows) /\ top \in KnownIn(rows) /\ c \in Int /\ top \in Int
        BY <3>2, <4>2, InTableKnown, RowStatus DEF KnownIn, Id
      <4>4. top < c
        BY <1>2, <4>2, <4>3, KeptOrder
      <4> QED  BY <3>2, <4>3, <4>4
    <3>4. top \in InTable(rows')
      BY <1>4, <3>2, <3>3 DEF InTable, Having
    <3> QED  BY <3>2, <3>4
  <2>3. \A b \in Id : /\ rows'[b].status = "PENDING" => rows'[b].attempt < MaxAttempts
                      /\ rows'[b].status = "FAILED" => b \in setAside
                      /\ rows'[b].status \in {Delivered, "pruned"} => b \in arrived
    BY <1>2, <1>3, <1>4, RowStatus DEF Kept
  <2> QED  BY <1>5, <2>1, <2>2, <2>3 DEF Kept
<1>8. Kept(rows, born, arrived, setAside)' /\ Kept(disk, born, arrived, setAside)' /\ Typed'
  BY <1>1, <1>2, <1>7 DEF Typed
<1>9. DiskOlder' /\ CounterAhead'
  BY <1>1, <1>2, <1>5, <1>6 DEF DiskOlder, CounterAhead, KnownIn, Known
<1>10. NoneLost'
  BY <1>1, <1>2, <1>4, RowStatus DEF NoneLost, Id, Typed
<1>11. CycleInv'
  BY <1>1 DEF CycleInv
<1>12. TurnInv'
  BY <1>1, <1>2, <1>5, <1>6, InTurnStays DEF TurnInv, Known
<1> QED  BY <1>8, <1>9, <1>10, <1>11, <1>12 DEF OutboxInv

LEMMA RequeuedRow ==
  ASSUME NEW r \in Row
  PROVE  [r EXCEPT !.status = "PENDING", !.attempt = 0] =
           [status |-> "PENDING", seq |-> r.seq, attempt |-> 0]
<1> DEFINE s == [r EXCEPT !.status = "PENDING"]
<1>1. s = [status |-> "PENDING", seq |-> r.seq, attempt |-> r.attempt]
  BY DEF Row
<1> HIDE DEF s
<1>2. [s EXCEPT !.attempt = 0] = [status |-> "PENDING", seq |-> r.seq, attempt |-> 0]
  BY <1>1
<1>3. [r EXCEPT !.status = "PENDING", !.attempt = 0] = [s EXCEPT !.attempt = 0]
  BY DEF Row, s
<1> QED  BY <1>2, <1>3

(* A batch that comes back into the queue was set aside before.            *)
LEMMA RequeueKeeps ==
  ASSUME OutboxInv, NEW b \in Id, RequeueQuarantinedBatch(b)
  PROVE  OutboxInv'
<1> DEFINE row == [status |-> "PENDING", seq |-> rows[b].seq, attempt |-> 0]
<1>0. rows[b] \in Row /\ requeues \in 0 .. MaxRequeues
  BY DEF OutboxInv, Typed, Kept
<1>1. /\ UNCHANGED <<disk, nextSeq, pc, queue, born, sent, arrived, setAside, faults,
                     restarts, powerLosses>>
      /\ rows[b].status = "FAILED" /\ rows' = [rows EXCEPT ![b] = row]
      /\ requeues' \in 0 .. MaxRequeues
  <2>1. [rows[b] EXCEPT !.status = "PENDING", !.attempt = 0] = row
    BY <1>0, RequeuedRow
  <2>2. rows' = [rows EXCEPT ![b] = [rows[b] EXCEPT !.status = "PENDING", !.attempt = 0]]
    BY DEF RequeueQuarantinedBatch
  <2>3. requeues' \in 0 .. MaxRequeues
    BY <1>0, OutboxAssumption DEF RequeueQuarantinedBatch
  <2> QED  BY <2>1, <2>2, <2>3 DEF RequeueQuarantinedBatch, agentVars, wireVars
<1>2. /\ Typed /\ CycleInv /\ TurnInv /\ b \in Known /\ b \in setAside
  BY <1>1 DEF OutboxInv, Kept, Known
<1>3. /\ row \in Row /\ row.seq = rows[b].seq /\ row.status = "PENDING"
      /\ row.attempt = 0 /\ row.attempt < MaxAttempts
  BY <1>0, RowStatus DEF Row
<1> HIDE DEF row
<1>4. /\ Kept(rows, born, arrived, setAside)' /\ Kept(disk, born, arrived, setAside)'
      /\ DiskOlder' /\ CounterAhead' /\ NoneLost'
      /\ \A c \in sent' \cap Known' : InTurn(c)'
      /\ Known' = Known /\ \A c \in Id : rows'[c].seq = rows[c].seq
      /\ rows'[b] = row /\ \A c \in Id \ {b} : rows'[c] = rows[c]
  BY <1>1, <1>2, <1>3, RowStatus, RowChange
<1>5. Typed'
  BY <1>1, <1>2 DEF Typed
<1>6. \A i \in queue : i.batch \in Id \ {b} /\ (Current(i)' <=> Current(i))
  BY <1>1, <1>4, QueueBatches DEF Current, CycleInv, Pending, Having
<1>7. CycleInv'
  BY <1>1, <1>2, <1>4, <1>6 DEF CycleInv, LastAttempt
<1>8. TurnInv'
  <2>1. SUFFICES ASSUME NEW i \in queue, NEW c \in Pending', rows'[c].seq < rows'[i.batch].seq
                 PROVE  c \in setAside \/ \E j \in queue : j.batch = c
    BY <1>1, <1>4 DEF TurnInv
  <2>2. c = b \/ (c \in Pending /\ rows[c].seq < rows[i.batch].seq)
    BY <1>4, <1>6, <2>1 DEF Pending, Having
  <2> QED  BY <1>2, <2>2 DEF TurnInv
<1> QED  BY <1>4, <1>5, <1>7, <1>8 DEF OutboxInv

LEMMA ArriveKeeps ==
  ASSUME OutboxInv, NEW b \in sent, Arrive(b)
  PROVE  OutboxInv'
<1>1. /\ UNCHANGED <<rows, disk, nextSeq, pc, queue, born, setAside, faults, requeues,
                     restarts, powerLosses>>
      /\ sent' = sent \ {b} /\ arrived' = arrived \cup {b}
  BY DEF Arrive, agentVars, countVars
<1>2. /\ Typed /\ Kept(rows, born, arrived, setAside) /\ Kept(disk, born, arrived, setAside)
      /\ DiskOlder /\ CounterAhead /\ NoneLost /\ CycleInv /\ TurnInv /\ born \in Nat
  BY RowStatus DEF OutboxInv, Typed
<1>3. Typed'
  BY <1>1, <1>2, RowStatus DEF Typed, Id
<1>4. Kept(rows, born, arrived, setAside)' /\ Kept(disk, born, arrived, setAside)'
  BY <1>1, <1>2, KeptLonger
<1>5. DiskOlder' /\ CounterAhead' /\ NoneLost' /\ Known' = Known /\ Pending' = Pending
  BY <1>1, <1>2 DEF DiskOlder, CounterAhead, NoneLost, Known, Pending, Having
<1>6. CycleInv'
  BY <1>1, <1>2 DEF CycleInv, Current, LastAttempt
<1>7. TurnInv'
  BY <1>1, <1>2, <1>5, InTurnStays DEF TurnInv, Known
<1> QED  BY <1>3, <1>4, <1>5, <1>6, <1>7 DEF OutboxInv

(* The agent starts again on the table, or on what of it was on disk.      *)
LEMMA RestartKeeps ==
  ASSUME OutboxInv, Restart
  PROVE  OutboxInv'
<1>1. /\ UNCHANGED <<rows, disk, born, sent, arrived, setAside, faults, requeues, powerLosses>>
      /\ nextSeq' = NextAfter(rows) /\ pc' = "idle" /\ queue' = {}
      /\ restarts' \in 0 .. MaxRestarts
  BY OutboxAssumption DEF Restart, StartOn, wireVars, OutboxInv, Typed
<1>2. /\ Typed /\ Kept(rows, born, arrived, setAside) /\ Kept(disk, born, arrived, setAside)
      /\ DiskOlder /\ NoneLost /\ TurnInv
  BY DEF OutboxInv
<1>3. nextSeq' \in Nat /\ CounterAhead'
  BY <1>1, <1>2, CounterResumes DEF CounterAhead, Known, KnownIn
<1>4. Typed' /\ CycleInv'
  BY <1>1, <1>2, <1>3 DEF Typed, CycleInv
<1>5. DiskOlder' /\ NoneLost' /\ TurnInv'
  BY <1>1, <1>2 DEF DiskOlder, NoneLost, TurnInv, InTurn, Known
<1> QED  BY <1>1, <1>2, <1>3, <1>4, <1>5 DEF OutboxInv

LEMMA CheckpointKeeps ==
  ASSUME OutboxInv, Checkpoint
  PROVE  OutboxInv'
<1>1. /\ UNCHANGED <<rows, nextSeq, pc, queue, born, sent, arrived, setAside, faults,
                     requeues, restarts, powerLosses>>
      /\ disk' = rows
  BY DEF Checkpoint, agentVars, wireVars, countVars
<1>2. Typed' /\ CounterAhead' /\ NoneLost' /\ CycleInv' /\ TurnInv' /\ DiskOlder'
  BY <1>1 DEF OutboxInv, Typed, CounterAhead, NoneLost, CycleInv, TurnInv, DiskOlder, InTurn,
              Known, KnownIn, Pending, Having, Current, LastAttempt
<1> QED  BY <1>1, <1>2 DEF OutboxInv

LEMMA PowerLossKeeps ==
  ASSUME OutboxInv, PowerLoss
  PROVE  OutboxInv'
<1>1. /\ UNCHANGED <<disk, born, sent, arrived, setAside, faults, requeues, restarts>>
      /\ rows' = disk /\ nextSeq' = NextAfter(disk) /\ pc' = "idle" /\ queue' = {}
      /\ powerLosses' \in 0 .. MaxPowerLosses /\ powerLosses' > 0
  BY OutboxAssumption DEF PowerLoss, StartOn, wireVars, OutboxInv, Typed
<1>2. /\ Typed /\ Kept(disk, born, arrived, setAside) /\ DiskOlder /\ TurnInv
  BY DEF OutboxInv
<1>3. Known' = KnownIn(disk) /\ Known' \subseteq Known
      /\ \A b \in Known' : b \in Id /\ rows'[b].seq = rows[b].seq
  BY <1>1, <1>2 DEF DiskOlder, Known, KnownIn
<1>4. nextSeq' \in Nat /\ CounterAhead'
  BY <1>1, <1>2, <1>3, CounterResumes DEF CounterAhead
<1>5. Typed' /\ CycleInv' /\ NoneLost'
  BY <1>1, <1>2, <1>4 DEF Typed, CycleInv, NoneLost
<1>6. DiskOlder'
  BY <1>1, <1>3 DEF DiskOlder
<1>7. TurnInv'
  BY <1>1, <1>2, <1>3, InTurnStays DEF TurnInv
<1> QED  BY <1>1, <1>2, <1>4, <1>5, <1>6, <1>7 DEF OutboxInv

LEMMA OStep == OutboxInv /\ [Next]_vars => OutboxInv'
<1> SUFFICES ASSUME OutboxInv, [Next]_vars PROVE OutboxInv'
  OBVIOUS
<1>1. CASE Cycle
  BY <1>1, BeginKeeps, TransmitKeeps, MarkDeliveredKeeps, MarkQuarantinedKeeps,
     RecordAttemptKeeps DEF Cycle
<1>2. CASE UNCHANGED vars
  BY <1>2 DEF vars, agentVars, wireVars, countVars, OutboxInv, Typed, CounterAhead, NoneLost,
              CycleInv, TurnInv, DiskOlder, InTurn, Known, KnownIn, Pending, Having, Current,
              LastAttempt
<1> QED  BY <1>1, <1>2, CollectKeeps, PruneKeeps, RequeueKeeps, ArriveKeeps, RestartKeeps,
            CheckpointKeeps, PowerLossKeeps DEF Next

LEMMA OInvariant == Spec => []OutboxInv
BY OInit, OStep, PTL DEF Spec

-----------------------------------------------------------------------------
(* The types of the outbox, for any limits: in particular a cycle that is  *)
(* at work has a batch to handle, and a batch that still waits in          *)
(* telemetry_batches has an attempt left, whatever counts of attempts were *)
(* lost in failed calls, requeues and losses of power.                     *)
THEOREM OutboxTypeTheorem == Spec => []TypeOK
<1>1. ASSUME OutboxInv PROVE TypeOK
  <2>1. Typed /\ CycleInv
    BY <1>1 DEF OutboxInv
  <2>2. rows \in [Id -> Row] /\ disk \in [Id -> Row]
    BY <1>1 DEF OutboxInv, Kept
  <2>3. \A b \in Pending : rows[b].attempt < MaxAttempts
    BY <1>1 DEF OutboxInv, Kept, Pending, Having
  <2>4. sent \subseteq Id
    BY <2>1, RowStatus DEF Typed, Id
  <2>5. pc \in {"idle", "begin"} <=> queue = {}
    BY <2>1 DEF CycleInv
  <2> QED  BY <2>1, <2>2, <2>3, <2>4, <2>5 DEF Typed, TypeOK
<1> QED  BY <1>1, OInvariant, PTL

(* Later batches have the higher sequence numbers, for any restarts and    *)
(* losses of power and whatever PruneCompletedBatches took: because the    *)
(* latest row is never pruned, GetLatestSequenceNumber finds a number that *)
(* no earlier batch is above.                                              *)
THEOREM SequencesTheorem == Spec => []SequencesIncrease
<1>1. OutboxInv => SequencesIncrease
  BY DEF OutboxInv, CounterAhead, Kept, Known, KnownIn, SequencesIncrease
<1> QED  BY <1>1, OInvariant, PTL

(* No batch is marked delivered, and so none is pruned, that the control   *)
(* side has not got: the syncer marks only the batch that its transmission *)
(* was answered for, though it left the database in between; and an older  *)
(* table that a loss of power brings back says nothing that was not so.    *)
THEOREM NoBatchLostTheorem == Spec => []NoBatchLost
<1>1. ASSUME OutboxInv, NEW b \in 1 .. born
      PROVE  \/ rows[b].status \in {"PENDING", "FAILED"}
             \/ rows[b].status = "none" /\ powerLosses > 0
             \/ b \in arrived
  <2>1. b \in Id /\ rows[b] \in Row
    BY <1>1, OutboxAssumption DEF OutboxInv, Typed, Kept, Id
  <2>2. rows[b].status = "none" => powerLosses > 0
    BY <1>1 DEF OutboxInv, NoneLost
  <2>3. rows[b].status \in {Delivered, "pruned"} => b \in arrived
    BY <1>1, <2>1 DEF OutboxInv, Kept
  <2> QED  BY <2>1, <2>2, <2>3 DEF Row
<1>2. OutboxInv => NoBatchLost
  BY <1>1 DEF NoBatchLost
<1> QED  BY <1>2, OInvariant, PTL

(* Batches reach the control plane in the order of their numbers, but for  *)
(* those set aside: the syncer transmits only the lowest of its cycle, the *)
(* cycle leaves no lower pending batch behind, and a transmission that     *)
(* takes effect late was in its turn when it was made.                     *)
THEOREM OrderTheorem == Spec => OrderedUnlessSetAside
<1> DEFINE InOrder == \A b \in arrived' \ arrived, c \in Known :
              b \in Known /\ rows[c].seq < rows[b].seq => c \in arrived \cup setAside
<1>1. ASSUME OutboxInv, Next, NEW b \in arrived' \ arrived, b \in Known
      PROVE  InTurn(b)
  <2>1. CASE \E i \in queue : Transmit(i)
    <3>1. PICK i \in queue : Transmit(i)
      BY <2>1
    <3>2. Current(i) /\ b = i.batch
      BY <1>1, <3>1 DEF Transmit
    <3> QED  BY <1>1, <3>2, CurrentInTurn
  <2>2. CASE \E c \in sent : Arrive(c)
    <3>1. PICK c \in sent : Arrive(c)
      BY <2>2
    <3>2. b = c
      BY <1>1, <3>1 DEF Arrive
    <3> QED  BY <1>1, <3>2 DEF OutboxInv, TurnInv
  <2>3. ASSUME UNCHANGED arrived PROVE FALSE
    BY <1>1, <2>3
  <2>4. BeginCycle => UNCHANGED arrived
    BY DEF BeginCycle, wireVars
  <2>5. \A i \in queue : MarkDelivered(i) \/ MarkQuarantined(i) \/ RecordSyncAttempt(i)
                           => UNCHANGED arrived
    BY DEF MarkDelivered, MarkQuarantined, RecordSyncAttempt, wireVars
  <2>6. Collect \/ Restart \/ Checkpoint \/ PowerLoss => UNCHANGED arrived
    BY DEF Collect, Restart, Checkpoint, PowerLoss, wireVars
  <2>7. /\ \A S \in SUBSET Having(rows, {Delivered}) : PruneCompletedBatches(S) => UNCHANGED arrived
        /\ \A c \in Id : RequeueQuarantinedBatch(c) => UNCHANGED arrived
    BY DEF PruneCompletedBatches, RequeueQuarantinedBatch, wireVars
  <2> QED  BY <1>1, <2>1, <2>2, <2>3, <2>4, <2>5, <2>6, <2>7 DEF Next, Cycle
<1>2. OutboxInv /\ [Next]_vars => [InOrder]_vars
  BY <1>1 DEF InTurn
<1>3. OutboxInv /\ [Next]_vars => [\A b \in arrived' \ arrived, c \in Known :
         b \in Known /\ rows[c].seq < rows[b].seq => c \in arrived \cup setAside]_vars
  BY <1>2
<1> QED  BY <1>3, OInvariant, PTL DEF Spec, OrderedUnlessSetAside

=============================================================================
